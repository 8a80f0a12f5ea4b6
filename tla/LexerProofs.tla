---------------------------- MODULE LexerProofs ----------------------------
(***************************************************************************)
(* Theorems about the lexer, for files of any length.                      *)
(***************************************************************************)
EXTENDS Lexer, FiniteSetTheorems, SequenceTheorems, WellFoundedInduction, TLAPS

-----------------------------------------------------------------------------
(***************************************************************************)
(* Numbers.                                                                *)
(***************************************************************************)

(* A set of numbers that has one has a smallest one: its initial segment   *)
(* is the smallest.                                                        *)
LEMMA SmallestNumber ==
  ASSUME NEW S \in SUBSET Nat, S # {}
  PROVE  \E n \in S : \A j \in S : n <= j
<1> DEFINE segments == {1..k : k \in S}
<1>1. segments \subseteq FiniteSubsetsOf(Nat)
  <2>1. ASSUME NEW k \in S PROVE 1..k \in FiniteSubsetsOf(Nat)
    <3>1. IsFiniteSet(1..k) BY FS_Interval
    <3> QED BY <3>1 DEF FiniteSubsetsOf
  <2> QED BY <2>1
<1>2. segments # {} OBVIOUS
<1> HIDE DEF segments
<1>3. PICK x \in segments : \A y \in segments : ~ (<<y, x>> \in StrictSubsetOrdering(Nat))
  BY <1>1, <1>2, FS_StrictSubsetOrderingWellFounded, WFMin
<1>4. PICK n \in S : x = 1..n
  BY DEF segments
<1>5. ASSUME NEW j \in S PROVE n <= j
  <2>1. 1..j \in segments BY DEF segments
  <2>2. SUFFICES ASSUME j < n PROVE FALSE OBVIOUS
  <2>3. 1..j \subseteq 1..n /\ 1..j # 1..n BY <2>2
  <2>4. 1..j \in SUBSET Nat /\ 1..n \in SUBSET Nat OBVIOUS
  <2> QED BY <1>3, <1>4, <2>1, <2>3, <2>4 DEF StrictSubsetOrdering
<1> QED BY <1>5

(* Induction up to a bound, on the set of numbers that have been reached.  *)
LEMMA UpTo ==
  ASSUME NEW n \in Nat, NEW S, 0 \in S, \A i \in 1..n : i - 1 \in S => i \in S
  PROVE  \A i \in 0..n : i \in S
<1> DEFINE left == {i \in 0..n : i \notin S}
<1> SUFFICES ASSUME left # {} PROVE FALSE
  OBVIOUS
<1>1. PICK m \in left : \A j \in left : m <= j
  <2>1. left \in SUBSET Nat OBVIOUS
  <2> HIDE DEF left
  <2> QED BY <2>1, SmallestNumber
<1>2. m \in 1..n /\ m - 1 \in 0..n /\ m - 1 \notin left
  BY <1>1
<1> QED BY <1>1, <1>2

LEMMA FirstFacts ==
  ASSUME NEW S \in SUBSET Nat, NEW otherwise
  PROVE  /\ S = {} => First(S, otherwise) = otherwise
         /\ S # {} => First(S, otherwise) \in S
<1>1. ASSUME S # {} PROVE First(S, otherwise) \in S
  <2>1. \E n \in S : \A j \in S : n <= j BY <1>1, SmallestNumber
  <2> QED BY <1>1, <2>1 DEF First
<1> QED BY <1>1 DEF First

-----------------------------------------------------------------------------
(***************************************************************************)
(* Lines.                                                                  *)
(***************************************************************************)
NewlinesOf(a, b) == {p \in a..b : file[p] = "\n"}

(* Newlines are counted place by place.                                    *)
LEMMA NewlinesFacts ==
  /\ \A a, b \in Nat : Newlines(a, b) \in Nat /\ (a <= b + 1 => Newlines(a, b) <= b + 1 - a)
  /\ \A a, b, d \in Nat : a <= b + 1 /\ b <= d => Newlines(a, d) = Newlines(a, b) + Newlines(b + 1, d)
  /\ \A a, b \in Nat : (\A p \in a..b : file[p] # "\n") => Newlines(a, b) = 0
  /\ \A a \in Nat : file[a] = "\n" => Newlines(a, a) = 1
<1>1. ASSUME NEW a \in Nat, NEW b \in Nat
      PROVE  /\ IsFiniteSet(NewlinesOf(a, b)) /\ Newlines(a, b) = Cardinality(NewlinesOf(a, b))
             /\ Newlines(a, b) \in Nat
             /\ a <= b + 1 => Newlines(a, b) <= b + 1 - a
  <2>1. IsFiniteSet(a..b) /\ Cardinality(a..b) = IF a > b THEN 0 ELSE b - a + 1
    BY FS_Interval
  <2>2. NewlinesOf(a, b) \in SUBSET (a..b) BY DEF NewlinesOf
  <2>3. IsFiniteSet(NewlinesOf(a, b)) /\ Cardinality(NewlinesOf(a, b)) <= Cardinality(a..b)
    BY <2>1, <2>2, FS_Subset
  <2>4. Newlines(a, b) = Cardinality(NewlinesOf(a, b)) BY DEF Newlines, NewlinesOf
  <2>5. Newlines(a, b) \in Nat BY <2>3, <2>4, FS_CardinalityType
  <2> QED BY <2>1, <2>3, <2>4, <2>5
<1>2. ASSUME NEW a \in Nat, NEW b \in Nat, NEW d \in Nat, a <= b + 1, b <= d
      PROVE  Newlines(a, d) = Newlines(a, b) + Newlines(b + 1, d)
  <2>1. NewlinesOf(a, d) = NewlinesOf(a, b) \cup NewlinesOf(b + 1, d)
    BY <1>2 DEF NewlinesOf
  <2>2. NewlinesOf(a, b) \cap NewlinesOf(b + 1, d) = {}
    BY DEF NewlinesOf
  <2>3. b + 1 \in Nat OBVIOUS
  <2>4. Cardinality(NewlinesOf(a, b) \cup NewlinesOf(b + 1, d))
          = Cardinality(NewlinesOf(a, b)) + Cardinality(NewlinesOf(b + 1, d))
             - Cardinality(NewlinesOf(a, b) \cap NewlinesOf(b + 1, d))
    BY <1>1, <2>3, FS_Union
  <2>5. Cardinality({}) = 0 BY FS_EmptySet
  <2> DEFINE x == Cardinality(NewlinesOf(a, b))  y == Cardinality(NewlinesOf(b + 1, d))
  <2>6. x \in Nat /\ y \in Nat BY <1>1, <2>3
  <2>7. Newlines(a, d) = x + y - 0
    <3>1. Newlines(a, d) = Cardinality(NewlinesOf(a, d)) BY <1>1
    <3> QED BY ONLY <3>1, <2>1, <2>2, <2>4, <2>5
  <2>8. Newlines(a, b) = x /\ Newlines(b + 1, d) = y BY <1>1, <2>3
  <2> HIDE DEF x, y
  <2> QED BY <2>6, <2>7, <2>8
<1>3. ASSUME NEW a \in Nat, NEW b \in Nat, \A p \in a..b : file[p] # "\n"
      PROVE  Newlines(a, b) = 0
  <2>1. NewlinesOf(a, b) = {} BY <1>3 DEF NewlinesOf
  <2> QED BY <1>1, <2>1, FS_EmptySet
<1>4. ASSUME NEW a \in Nat, file[a] = "\n" PROVE Newlines(a, a) = 1
  <2>1. NewlinesOf(a, a) = {a} BY <1>4 DEF NewlinesOf
  <2> QED BY <1>1, <2>1, FS_Singleton
<1> QED BY <1>1, <1>2, <1>3, <1>4

-----------------------------------------------------------------------------
(***************************************************************************)
(* The characters of a list of tokens.                                     *)
(***************************************************************************)

(* The values of the first tokens, one after the other (Used).             *)
Values(ts, e) ==
  /\ DOMAIN e = 0..Len(ts)
  /\ e[0] = <<>>
  /\ \A i \in 1..Len(ts) : e[i] = e[i-1] \o ts[i].at

ValuesOf(ts) ==
  CHOOSE e : e = [i \in 0..Len(ts) |-> IF i = 0 THEN <<>> ELSE e[i-1] \o ts[i].at]

Value(ts) == ValuesOf(ts)[Len(ts)]

LEMMA UsedIs == Used = Value(tokens) \o word
BY DEF Used, Value, ValuesOf

(* There are such values for any list.                                     *)
LEMMA ValuesExist ==
  ASSUME NEW n \in Nat, NEW ts, Len(ts) = n
  PROVE  \E e : Values(ts, e)
<1> DEFINE P(m) == \E e : /\ DOMAIN e = 0..m
                          /\ e[0] = <<>>
                          /\ \A i \in 1..m : e[i] = e[i-1] \o ts[i].at
           S == {m \in 0..n : P(m)}
<1>1. 0 \in S
  <2> DEFINE f == [j \in 0..0 |-> <<>>]
  <2>1. DOMAIN f = 0..0 /\ f[0] = <<>> OBVIOUS
  <2>2. \A k \in 1..0 : FALSE OBVIOUS
  <2> HIDE DEF f
  <2>3. P(0) BY <2>1, <2>2
  <2> QED BY <2>3
<1>2. ASSUME NEW m \in 1..n, m - 1 \in S PROVE m \in S
  <2>1. PICK e : /\ DOMAIN e = 0..m-1
                 /\ e[0] = <<>>
                 /\ \A i \in 1..m-1 : e[i] = e[i-1] \o ts[i].at
    BY <1>2
  <2> DEFINE last == e[m-1] \o ts[m].at
             f == [j \in 0..m |-> IF j = m THEN last ELSE e[j]]
  <2> HIDE DEF last
  <2>2. DOMAIN f = 0..m /\ f[0] = <<>> BY <2>1
  <2>3. f[m] = last /\ f[m-1] = e[m-1] OBVIOUS
  <2>4. \A i \in 1..m-1 : f[i] = e[i] /\ f[i-1] = e[i-1] OBVIOUS
  <2> HIDE DEF f
  <2>5. ASSUME NEW i \in 1..m PROVE f[i] = f[i-1] \o ts[i].at
    <3>1. CASE i = m BY <2>3, <3>1 DEF last
    <3>2. CASE i # m
      <4>1. i \in 1..m-1 BY <3>2
      <4> QED BY <2>1, <2>4, <4>1
    <3> QED BY <3>1, <3>2
  <2>6. P(m) BY <2>2, <2>5
  <2> QED BY <2>6
<1> HIDE DEF P
<1>3. n \in 0..n OBVIOUS
<1>4. n \in S
  <2> HIDE DEF S
  <2> QED BY <1>1, <1>2, <1>3, UpTo
<1>5. P(n) BY <1>4
<1> QED BY <1>5 DEF P, Values

(* The definition means what it says.                                      *)
LEMMA ValuesTrace ==
  ASSUME NEW n \in Nat, NEW ts, Len(ts) = n
  PROVE  Values(ts, ValuesOf(ts))
<1> DEFINE Eq(e) == e = [i \in 0..Len(ts) |-> IF i = 0 THEN <<>> ELSE e[i-1] \o ts[i].at]
<1>1. PICK e : Values(ts, e) BY ValuesExist
<1>2. \E d : Eq(d)
  <2> DEFINE d == [i \in 0..n |-> e[i]]
  <2>1. d[0] = <<>> BY <1>1 DEF Values
  <2>2. ASSUME NEW i \in 1..n PROVE d[i] = d[i-1] \o ts[i].at
    <3>1. d[i] = e[i] /\ d[i-1] = e[i-1] OBVIOUS
    <3> HIDE DEF d
    <3> QED BY <1>1, <3>1 DEF Values
  <2>3. DOMAIN d = 0..n /\ d = [i \in 0..n |-> d[i]] OBVIOUS
  <2> HIDE DEF d
  <2>4. \A i \in 0..n : d[i] = IF i = 0 THEN <<>> ELSE d[i-1] \o ts[i].at
    <3>1. \A i \in 0..n : i # 0 => i \in 1..n OBVIOUS
    <3> QED BY <2>1, <2>2, <3>1
  <2> QED BY <2>3, <2>4
<1>3. Eq(ValuesOf(ts)) BY <1>2 DEF ValuesOf
<1> DEFINE x == ValuesOf(ts)
<1> HIDE DEF x
<1>4. x = [i \in 0..n |-> IF i = 0 THEN <<>> ELSE x[i-1] \o ts[i].at]
  BY <1>3 DEF x
<1>5. \A i \in 0..n : x[i] = IF i = 0 THEN <<>> ELSE x[i-1] \o ts[i].at
  BY <1>4
<1>6. DOMAIN x = 0..n BY ONLY <1>4
<1>7. 0 \in 0..n /\ \A i \in 1..n : i \in 0..n /\ i # 0 OBVIOUS
<1>8. x[0] = <<>> BY <1>5, <1>7
<1>9. \A i \in 1..n : x[i] = x[i-1] \o ts[i].at BY <1>5, <1>7
<1>10. Values(ts, x) BY <1>6, <1>8, <1>9 DEF Values
<1> QED BY <1>10 DEF x

LEMMA NoValue == Value(<<>>) = <<>>
<1>1. Len(<<>>) = 0 OBVIOUS
<1>2. Values(<<>>, ValuesOf(<<>>)) BY <1>1, ValuesTrace
<1> QED BY <1>1, <1>2 DEF Values, Value

(* One token more.                                                         *)
LEMMA ValueAppend ==
  ASSUME NEW T, NEW ts \in Seq(T), NEW t \in T
  PROVE  Value(Append(ts, t)) = Value(ts) \o t.at
<1> DEFINE us == Append(ts, t)  n == Len(ts)  d == ValuesOf(ts)  e == ValuesOf(us)
<1>1. /\ n \in Nat /\ us \in Seq(T) /\ Len(us) = n + 1 /\ us[n + 1] = t
      /\ \A i \in 1..n : us[i] = ts[i]
  OBVIOUS
<1> HIDE DEF us, n
<1>2. Values(ts, d) /\ Values(us, e)
  <2>1. n + 1 \in Nat /\ Len(ts) = n BY <1>1 DEF n
  <2> QED BY <1>1, <2>1, ValuesTrace
<1> HIDE DEF d, e
<1>3. Len(ts) = n BY DEF n
<1>4. d[n] = e[n]
  <2> DEFINE S == {m \in 0..n : d[m] = e[m]}
  <2>1. 0 \in S
    <3>1. d[0] = <<>> /\ e[0] = <<>> BY <1>2 DEF Values
    <3> QED BY <1>1, <3>1
  <2>2. ASSUME NEW k \in 1..n, k - 1 \in S PROVE k \in S
    <3>1. k \in 1..Len(ts) /\ k \in 1..Len(us) BY <1>1, <1>3
    <3>2. d[k] = d[k-1] \o ts[k].at /\ e[k] = e[k-1] \o us[k].at
      BY <1>2, <3>1 DEF Values
    <3>3. ts[k] = us[k] /\ d[k-1] = e[k-1] /\ k \in 0..n BY <1>1, <2>2
    <3>4. d[k] = e[k] BY ONLY <3>2, <3>3
    <3> QED BY <3>3, <3>4
  <2>3. n \in S
    <3>1. n \in 0..n BY <1>1
    <3> HIDE DEF S
    <3> QED BY <1>1, <2>1, <2>2, <3>1, UpTo
  <2> QED BY <2>3
<1>5. e[n + 1] = e[n] \o t.at
  <2>1. n + 1 \in 1..Len(us) /\ (n + 1) - 1 = n BY <1>1
  <2>2. e[n + 1] = e[(n + 1) - 1] \o us[n + 1].at BY <1>2, <2>1 DEF Values
  <2>3. us[n + 1] = t BY <1>1
  <2> QED BY ONLY <2>1, <2>2, <2>3
<1>6. Value(ts) = d[n] /\ Value(us) = e[n + 1]
  BY <1>1, <1>3 DEF Value, d, e
<1> QED BY <1>4, <1>5, <1>6 DEF us

(* The characters are those of the tokens.                                 *)
LEMMA ValueTyped ==
  ASSUME NEW S, NEW T, \A t \in T : t.at \in Seq(S), NEW ts \in Seq(T)
  PROVE  Value(ts) \in Seq(S)
<1> DEFINE n == Len(ts)  d == ValuesOf(ts)
<1>1. n \in Nat /\ \A i \in 1..n : ts[i].at \in Seq(S)
  OBVIOUS
<1>2. Values(ts, d) BY <1>1, ValuesTrace
<1> HIDE DEF n, d
<1>3. Len(ts) = n BY DEF n
<1> DEFINE R == {m \in 0..n : d[m] \in Seq(S)}
<1>4. 0 \in R
  <2>1. d[0] = <<>> BY <1>2 DEF Values
  <2>2. <<>> \in Seq(S) OBVIOUS
  <2>3. d[0] \in Seq(S) BY ONLY <2>1, <2>2
  <2> QED BY <1>1, <2>3
<1>5. ASSUME NEW k \in 1..n, k - 1 \in R PROVE k \in R
  <2>1. d[k] = d[k-1] \o ts[k].at BY <1>2, <1>3 DEF Values
  <2>2. ts[k].at \in Seq(S) /\ d[k-1] \in Seq(S) /\ k \in 0..n BY <1>1, <1>5
  <2>3. \A x, y \in Seq(S) : x \o y \in Seq(S) OBVIOUS
  <2>4. d[k] \in Seq(S) BY ONLY <2>1, <2>2, <2>3
  <2> QED BY <2>2, <2>4
<1>6. n \in R
  <2>1. n \in 0..n BY <1>1
  <2> HIDE DEF R
  <2> QED BY <1>1, <1>4, <1>5, <2>1, UpTo
<1> QED BY <1>3, <1>6 DEF Value, d

-----------------------------------------------------------------------------
(***************************************************************************)
(* The invariant.  What it says of a token depends on the file alone.      *)
(***************************************************************************)
LineAt(p) == 1 + Newlines(1, p)

(* The line counter when the loop is at p, past the end of the file or not *)
LineOf(p) == LineAt(IF p <= Len(file) + 1 THEN p - 1 ELSE Len(file))

GoodLine(t) ==
  t.at # <<>> =>
    LET last == t.at[Len(t.at)]
    IN  \/ t.line = LineAt(last)
        \/ /\ t.line = LineAt(last) + 1
           /\ last < Len(file) /\ file[last + 1] \in {"\n", ":"}

GoodNumber(t) ==
  Plain /\ t.type \in {"INT", "FLOAT", "IDENTIFIER"} =>
    (file[t.at[1]] \in Digits <=> t.type # "IDENTIFIER")

TypedTokens == [type : TokenTypes, at : Seq(DOMAIN file), line : 1..Len(file)+1]

GoodTokens == {t \in TypedTokens : GoodLine(t) /\ GoodNumber(t)}

(* What the word w is in the state st when the loop is at p: nothing but   *)
(* colons is between the two.                                              *)
WordAt(st, w, p) ==
  /\ st = "START" => w = <<>>
  /\ st = "NUMBER" => w # <<>> /\ file[w[1]] \in Digits
  /\ Plain /\ st = "TEXT" => w # <<>> /\ file[w[1]] \notin Digits
  /\ w # <<>> => /\ w[Len(w)] < p /\ p <= Len(file) + 1
                 /\ \A q \in w[Len(w)]+1..p-1 : file[q] = ":"

Shape ==
  /\ file \in Seq(Chars)
  /\ pos \in 1..Len(file)+2
  /\ state \in {"START", "TEXT", "NUMBER"}
  /\ word \in Seq(DOMAIN file)
  /\ tokens \in Seq(GoodTokens)
  /\ finished \in BOOLEAN
  /\ line = LineOf(pos)
  /\ WordAt(state, word, pos)

Rising(u) == \A i, j \in DOMAIN u : i < j => u[i] < u[j]

(* u is what can have been taken of the file when the loop is at p.        *)
Taken(u, p) ==
  /\ Rising(u)
  /\ \A i \in DOMAIN u : u[i] < p
  /\ Plain => \A q \in 1..Len(file) :
                q < p /\ file[q] \notin Spaces => \E i \in DOMAIN u : u[i] = q

LexInv == Shape /\ Taken(Used, pos)

-----------------------------------------------------------------------------
LEMMA LineFacts ==
  ASSUME file \in Seq(Chars)
  PROVE  /\ \A p \in 0..Len(file) : LineAt(p) \in 1..Len(file)+1
         /\ \A p, q \in 0..Len(file) : p <= q => LineAt(q) = LineAt(p) + Newlines(p + 1, q)
         /\ \A p, q \in 0..Len(file) :
              p <= q /\ (\A k \in p+1..q : file[k] # "\n") => LineAt(q) = LineAt(p)
         /\ \A p \in 1..Len(file) :
              file[p] = "\n" => LineAt(p) = LineAt(p - 1) + 1
<1>1. Len(file) \in Nat OBVIOUS
<1>2. ASSUME NEW p \in 0..Len(file) PROVE LineAt(p) \in 1..Len(file)+1
  <2>1. Newlines(1, p) \in Nat /\ Newlines(1, p) <= p + 1 - 1 BY <1>1, NewlinesFacts
  <2> QED BY <1>1, <2>1 DEF LineAt
<1>3. ASSUME NEW p \in 0..Len(file), NEW q \in 0..Len(file), p <= q
      PROVE  LineAt(q) = LineAt(p) + Newlines(p + 1, q)
  <2>1. Newlines(1, q) = Newlines(1, p) + Newlines(p + 1, q) BY <1>1, <1>3, NewlinesFacts
  <2>2. Newlines(1, p) \in Nat /\ Newlines(p + 1, q) \in Nat BY <1>1, NewlinesFacts
  <2> QED BY <2>1, <2>2 DEF LineAt
<1>4. ASSUME NEW p \in 0..Len(file), NEW q \in 0..Len(file), p <= q,
             \A k \in p+1..q : file[k] # "\n"
      PROVE  LineAt(q) = LineAt(p)
  <2>1. Newlines(p + 1, q) = 0
    <3>1. p + 1 \in Nat /\ q \in Nat BY <1>1
    <3> QED BY <1>4, <3>1, NewlinesFacts
  <2>2. LineAt(p) \in Nat BY <1>1, <1>2
  <2> QED BY <1>3, <1>4, <2>1, <2>2
<1>5. ASSUME NEW p \in 1..Len(file), file[p] = "\n" PROVE LineAt(p) = LineAt(p - 1) + 1
  <2>1. p - 1 \in 0..Len(file) /\ p \in 0..Len(file) /\ p - 1 <= p /\ p - 1 + 1 = p BY <1>1
  <2>2. Newlines(p, p) = 1
    <3>1. p \in Nat BY <1>1
    <3>2. \A a \in Nat : file[a] = "\n" => Newlines(a, a) = 1 BY NewlinesFacts
    <3> QED BY <1>5, <3>1, <3>2
  <2> QED BY <1>3, <2>1, <2>2
<1> QED BY <1>2, <1>3, <1>4, <1>5

(* Where the loop is when it reads a character.                            *)
LEMMA ReadingFacts ==
  ASSUME Shape, Reading
  PROVE  /\ Len(file) \in Nat /\ pos \in 1..Len(file) /\ c \in Chars
         /\ LineOf(pos) = LineAt(pos - 1) /\ line = LineAt(pos - 1)
         /\ LineOf(pos + 1) = LineAt(pos)
         /\ LineAfter = LineAt(pos)
         /\ c # "\n" => LineAt(pos) = LineAt(pos - 1)
<1>1. Len(file) \in Nat /\ pos \in 1..Len(file) BY DEF Shape, Reading
<1>2. c \in Chars BY <1>1 DEF Shape, c
<1>3. LineOf(pos) = LineAt(pos - 1) /\ line = LineAt(pos - 1)
  BY <1>1 DEF LineOf, Shape
<1>4. LineOf(pos + 1) = LineAt(pos)
  <2>1. pos + 1 <= Len(file) + 1 /\ pos + 1 - 1 = pos BY <1>1
  <2>2. LineOf(pos + 1) = LineAt(IF pos + 1 <= Len(file) + 1 THEN (pos + 1) - 1 ELSE Len(file))
    BY DEF LineOf
  <2>3. (IF pos + 1 <= Len(file) + 1 THEN (pos + 1) - 1 ELSE Len(file)) = pos BY <1>1
  <2> QED BY ONLY <2>2, <2>3
<1>5. pos - 1 \in 0..Len(file) /\ pos \in 0..Len(file) /\ pos - 1 <= pos /\ pos - 1 + 1 = pos
  BY <1>1
<1>6. LineAfter = LineAt(pos)
  <2>1. LineAt(pos) = LineAt(pos - 1) + Newlines(pos - 1 + 1, pos)
    BY <1>5, LineFacts DEF Shape
  <2> QED BY <1>3, <1>5, <2>1 DEF LineAfter
<1>7. ASSUME c # "\n" PROVE LineAt(pos) = LineAt(pos - 1)
  <2>1. \A k \in pos-1+1..pos : file[k] # "\n"
    <3>1. \A k \in pos-1+1..pos : k = pos BY <1>1
    <3> QED BY <1>7, <3>1 DEF c
  <2>2. file \in Seq(Chars) BY DEF Shape
  <2> QED BY <1>5, <2>1, <2>2, LineFacts
<1> QED BY <1>1, <1>2, <1>3, <1>4, <1>6, <1>7

(* The text after asm.                                                     *)
LEMMA AsmFacts ==
  ASSUME Shape, Reading
  PROVE  /\ Brace \in pos+1..Len(file)+1
         /\ LineAfter + Newlines(pos + 1, Brace - 1) = LineAt(Brace - 1)
         /\ Brace <= Len(file) => LineAt(Brace) = LineAt(Brace - 1)
         /\ Brace <= Len(file) =>
              /\ EndBrace \in Brace+1..Len(file)+1
              /\ LineAt(Brace) + Newlines(Brace + 1, EndBrace - 1) = LineAt(EndBrace - 1)
              /\ EndBrace <= Len(file) => LineAt(EndBrace) = LineAt(EndBrace - 1)
<1> DEFINE L == Len(file)
<1>1. L \in Nat /\ pos \in 1..L /\ file \in Seq(Chars) BY ReadingFacts DEF Shape
<1>2. LineAfter = LineAt(pos) BY ReadingFacts
<1> HIDE DEF L
<1>3. Brace \in pos+1..L+1 /\ (Brace <= L => file[Brace] # "\n")
  <2> DEFINE S == {p \in pos+1..L : file[p] \notin Spaces}
  <2>1. S \in SUBSET Nat /\ \A p \in S : p \in pos+1..L+1 /\ file[p] # "\n"
    <3>1. S \subseteq pos+1..L /\ \A p \in S : file[p] # "\n" BY DEF Spaces
    <3> HIDE DEF S
    <3>2. L \in Nat /\ pos \in 1..L BY <1>1
    <3>3. pos+1..L \in SUBSET Nat /\ \A p \in pos+1..L : p \in pos+1..L+1 BY <3>2
    <3> QED BY <3>1, <3>3
  <2>2. Brace = First(S, L + 1) BY DEF Brace, L
  <2>3. L + 1 \in pos+1..L+1 /\ ~(L + 1 <= L) BY <1>1
  <2> HIDE DEF S
  <2> QED BY <2>1, <2>2, <2>3, FirstFacts
<1> DEFINE b == Brace
<1>4. b \in pos+1..L+1 BY <1>3
<1>5. LineAfter + Newlines(pos + 1, b - 1) = LineAt(b - 1)
  <2>1. pos \in 0..L /\ b - 1 \in 0..L /\ pos <= b - 1 BY <1>1, <1>3
  <2> QED BY <1>1, <1>2, <2>1, LineFacts DEF L
<1>6. ASSUME b <= L
      PROVE  /\ LineAt(b) = LineAt(b - 1)
             /\ EndBrace \in b+1..L+1
             /\ LineAt(b) + Newlines(b + 1, EndBrace - 1) = LineAt(EndBrace - 1)
             /\ EndBrace <= L => LineAt(EndBrace) = LineAt(EndBrace - 1)
  <2>0. b <= L BY <1>6
  <2>00. file[b] # "\n" BY <1>3, <1>6
  <2>1. ASSUME NEW p \in 1..L, file[p] # "\n" PROVE LineAt(p) = LineAt(p - 1)
    <3>1. p - 1 \in 0..L /\ p \in 0..L /\ p - 1 <= p BY <1>1
    <3>2. \A k \in p-1+1..p : k = p BY <1>1
    <3>3. \A k \in p-1+1..p : file[k] # "\n" BY <2>1, <3>2
    <3> QED BY <1>1, <3>1, <3>3, LineFacts DEF L
  <2>2. b \in 1..L
    <3> HIDE DEF b
    <3> QED BY <1>1, <1>4, <2>0
  <2>3. LineAt(b) = LineAt(b - 1)
    <3> HIDE DEF b
    <3> QED BY <2>00, <2>1, <2>2
  <2> DEFINE S == {p \in b+1..L : file[p] = "}"}  e == EndBrace
  <2>4. /\ S \in SUBSET Nat /\ \A p \in S : p \in b+1..L+1
        /\ \A p \in S : file[p] = "}"
    <3> HIDE DEF b
    <3>1. S \subseteq b+1..L /\ \A p \in S : file[p] = "}" OBVIOUS
    <3> HIDE DEF S
    <3>2. L \in Nat BY <1>1
    <3>3. b+1..L \in SUBSET Nat /\ \A p \in b+1..L : p \in b+1..L+1 BY <2>2, <3>2
    <3> QED BY <3>1, <3>3
  <2>5. e = First(S, L + 1) BY DEF EndBrace, L
  <2>6. L + 1 \in b+1..L+1 /\ ~(L + 1 <= L) BY <1>1, <2>2
  <2> HIDE DEF S
  <2>7. e \in b+1..L+1 /\ (e <= L => file[e] = "}")
    BY <2>4, <2>5, <2>6, FirstFacts
  <2> HIDE DEF e
  <2>8. LineAt(b) + Newlines(b + 1, e - 1) = LineAt(e - 1)
    <3> HIDE DEF b
    <3>0. L \in Nat /\ e \in b+1..L+1 BY <1>1, <2>7
    <3>1. b \in 0..L /\ e - 1 \in 0..L /\ b <= e - 1 BY <2>2, <3>0
    <3> QED BY <1>1, <3>1, LineFacts DEF L
  <2>9. ASSUME e <= L PROVE LineAt(e) = LineAt(e - 1)
    <3> HIDE DEF b
    <3>0. L \in Nat /\ e \in b+1..L+1 BY <1>1, <2>7
    <3>1. e \in 1..L BY <2>2, <2>9, <3>0
    <3>2. file[e] # "\n" BY <2>7, <2>9
    <3> QED BY <2>1, <3>1, <3>2
  <2> QED BY <2>3, <2>7, <2>8, <2>9 DEF e
<1> QED BY <1>4, <1>5, <1>6 DEF L

-----------------------------------------------------------------------------
(***************************************************************************)
(* The tokens the loop makes.                                              *)
(***************************************************************************)

(* A word is made of letters, digits and points in a row; the line counter *)
(* is where the word ends, or one further after a newline.                 *)
LEMMA WordLine ==
  ASSUME Shape, word # <<>>, NEW ln, NEW type \in TokenTypes,
         ln = LineAt(pos - 1) \/ (pos <= Len(file) /\ ln = LineAt(pos)),
         Plain /\ type \in {"INT", "FLOAT", "IDENTIFIER"} =>
           (file[word[1]] \in Digits <=> type # "IDENTIFIER")
  PROVE  Token(type, word, ln) \in GoodTokens
<1> DEFINE L == Len(file)  last == word[Len(word)]  t == Token(type, word, ln)
<1>1. L \in Nat /\ DOMAIN file = 1..L /\ file \in Seq(Chars) BY DEF Shape
<1>2. Len(word) \in 1..Len(word) /\ DOMAIN word = 1..Len(word) /\ word \in Seq(1..L)
  <2>1. word \in Seq(1..L) BY <1>1 DEF Shape
  <2>2. Len(word) \in Nat /\ Len(word) # 0 /\ DOMAIN word = 1..Len(word) BY <2>1
  <2> QED BY <2>1, <2>2
<1>3. last \in 1..L BY <1>2
<1>4. last < pos /\ pos <= L + 1 /\ \A q \in last+1..pos-1 : file[q] = ":"
  BY DEF Shape, WordAt
<1>5. pos \in Nat BY DEF Shape
<1>6. t.at = word /\ t.line = ln /\ t.type = type BY DEF Token
<1> HIDE DEF L, last, t
<1>7. LineAt(pos - 1) = LineAt(last)
  <2>1. last <= pos - 1 /\ last \in 0..L /\ pos - 1 \in 0..L
    <3>1. last < pos /\ pos <= L + 1 BY <1>4
    <3>2. L \in Nat BY <1>1
    <3> QED BY <1>3, <1>5, <3>1, <3>2
  <2>2. \A q \in last+1..pos-1 : file[q] # "\n" BY <1>4
  <2> QED BY <1>1, <2>1, <2>2, LineFacts DEF L
<1>8. ASSUME pos <= L
      PROVE  \/ LineAt(pos) = LineAt(last)
             \/ /\ LineAt(pos) = LineAt(last) + 1
                /\ last < L /\ file[last + 1] \in {"\n", ":"}
  <2>1. L \in Nat /\ last < pos BY <1>1, <1>4
  <2>2. pos \in 1..L /\ pos - 1 \in 0..L /\ pos \in 0..L /\ pos - 1 <= pos /\ last < L
    BY <1>3, <1>5, <1>8, <2>1
  <2>3. CASE file[pos] = "\n"
    <3>1. LineAt(pos) = LineAt(pos - 1) + 1 BY <1>1, <2>2, <2>3, LineFacts DEF L
    <3>2. file[last + 1] \in {"\n", ":"}
      <4>1. CASE last + 1 = pos BY <2>3, <4>1
      <4>2. CASE last + 1 # pos
        <5>1. last + 1 \in last+1..pos-1 BY <1>3, <1>5, <2>1, <4>2
        <5> QED BY <1>4, <5>1
      <4> QED BY <4>1, <4>2
    <3> QED BY <1>7, <2>2, <3>1, <3>2
  <2>4. CASE file[pos] # "\n"
    <3>1. \A k \in pos-1+1..pos : k = pos BY <1>5
    <3>2. \A k \in pos-1+1..pos : file[k] # "\n" BY <2>4, <3>1
    <3>3. LineAt(pos) = LineAt(pos - 1) BY <1>1, <2>2, <3>2, LineFacts DEF L
    <3> QED BY <1>7, <3>3
  <2> QED BY <2>3, <2>4
<1>9. GoodLine(t)
  <2>1. \/ ln = LineAt(last)
        \/ ln = LineAt(last) + 1 /\ last < L /\ file[last + 1] \in {"\n", ":"}
    BY <1>7, <1>8 DEF L
  <2> QED BY <1>6, <2>1 DEF GoodLine, L, last
<1>10. GoodNumber(t)
  BY <1>6 DEF GoodNumber
<1>11. t \in TypedTokens
  <2>1. ln \in 1..L+1
    <3>1. \A p \in 0..L : LineAt(p) \in 1..L+1 BY <1>1, LineFacts DEF L
    <3>2. ln = LineAt(pos - 1) \/ (pos <= L /\ ln = LineAt(pos)) BY DEF L
    <3>3. pos - 1 \in 0..L /\ (pos <= L => pos \in 0..L)
      <4>1. L \in Nat /\ last < pos /\ pos <= L + 1 BY <1>1, <1>4
      <4> QED BY <1>3, <1>5, <4>1
    <3> QED BY <3>1, <3>2, <3>3
  <2>2. word \in Seq(DOMAIN file) BY DEF Shape
  <2> QED BY <2>1, <2>2 DEF TypedTokens, Token, t, L
<1> QED BY <1>9, <1>10, <1>11 DEF GoodTokens, t

LEMMA FlushedGood ==
  ASSUME Shape, NEW ln,
         word # <<>> => ln = LineAt(pos - 1) \/ (pos <= Len(file) /\ ln = LineAt(pos))
  PROVE  Flushed(ln) \in Seq(GoodTokens)
<1>1. tokens \in Seq(GoodTokens) BY DEF Shape
<1>2. CASE word = <<>> BY <1>1, <1>2 DEF Flushed
<1>3. CASE word # <<>>
  <2> DEFINE type == WordToken(ln).type
  <2>1. WordToken(ln) = Token(type, word, ln) BY DEF WordToken, Token
  <2>2. type = IF state = "NUMBER"
               THEN IF \E i \in DOMAIN word : file[word[i]] = "." THEN "FLOAT" ELSE "INT"
               ELSE IF IsAsm(word) THEN "ASM" ELSE "IDENTIFIER"
    BY DEF WordToken, Token
  <2> HIDE DEF type
  <2>3. type \in TokenTypes BY <2>2 DEF TokenTypes
  <2>4. /\ state = "NUMBER" => file[word[1]] \in Digits /\ type \in {"INT", "FLOAT"}
        /\ state # "NUMBER" => state = "TEXT" /\ type \in {"ASM", "IDENTIFIER"}
        /\ Plain /\ state = "TEXT" => file[word[1]] \notin Digits
    BY <1>3, <2>2 DEF Shape, WordAt
  <2>5. Plain /\ type \in {"INT", "FLOAT", "IDENTIFIER"} =>
          (file[word[1]] \in Digits <=> type # "IDENTIFIER")
    BY <2>4
  <2>6. Token(type, word, ln) \in GoodTokens
    BY <1>3, <2>3, <2>5, WordLine
  <2> QED BY <1>1, <1>3, <2>1, <2>6 DEF Flushed
<1> QED BY <1>2, <1>3

(* Tokens that are not words, and the tokens without characters.           *)
LEMMA OtherTokenGood ==
  ASSUME file \in Seq(Chars), NEW at \in Seq(DOMAIN file), NEW p \in 0..Len(file),
         NEW type \in {"SYMBOL", "DOUBLEDOT", "ASM_INSTRUCTIONS", "EOFTOKEN"},
         at # <<>> => LineAt(p) = LineAt(at[Len(at)])
  PROVE  Token(type, at, LineAt(p)) \in GoodTokens
<1> DEFINE t == Token(type, at, LineAt(p))
<1>1. t.at = at /\ t.line = LineAt(p) /\ t.type = type BY DEF Token
<1>2. LineAt(p) \in 1..Len(file)+1 BY LineFacts
<1>3. t \in TypedTokens BY <1>2 DEF TypedTokens, Token, TokenTypes
<1> HIDE DEF t
<1>4. GoodLine(t) BY <1>1 DEF GoodLine
<1>5. GoodNumber(t) BY <1>1 DEF GoodNumber
<1> QED BY <1>3, <1>4, <1>5 DEF GoodTokens, t

(* One symbol or two.                                                      *)
LEMMA SymbolFacts ==
  ASSUME Shape, Reading, c \in Symbols, NEW toks \in Seq(GoodTokens),
         handle_symbole(toks, LineAfter)
  PROVE  \E at \in Seq(DOMAIN file) :
           /\ Token("SYMBOL", at, LineAfter) \in GoodTokens
           /\ tokens' = Append(toks, Token("SYMBOL", at, LineAfter))
           /\ tokens' \in Seq(GoodTokens)
           /\ \/ at = <<pos>> /\ pos' = pos + 1 /\ pos' \in 1..Len(file)+1
              \/ at = <<pos, pos + 1>> /\ pos' = pos + 2 /\ pos + 1 \in DOMAIN file
           /\ LineOf(pos') = LineAfter
<1> DEFINE L == Len(file)
           pair == pos < Len(file) /\ <<c, file[pos + 1]>> \in Pairs
<1>1. /\ L \in Nat /\ pos \in 1..L /\ LineAfter = LineAt(pos) /\ DOMAIN file = 1..L
      /\ file \in Seq(Chars) /\ LineOf(pos + 1) = LineAt(pos)
  BY ReadingFacts DEF Shape
<1>2. tokens' = Append(toks, Token("SYMBOL", IF pair THEN <<pos, pos + 1>> ELSE <<pos>>, LineAfter))
      /\ pos' = IF pair THEN pos + 2 ELSE pos + 1
  BY DEF handle_symbole
<1>3. CASE pair
  <2> DEFINE at == <<pos, pos + 1>>
  <2>1. pos < L /\ file[pos + 1] = "=" BY <1>3 DEF Pairs
  <2> HIDE DEF pair, L
  <2>2. pos < L /\ L \in Nat /\ pos \in 1..L BY <1>1, <2>1
  <2>3. pos + 1 \in 1..L /\ pos \in 0..L /\ pos + 1 \in 0..L /\ pos <= pos + 1 /\ pos + 2 <= L + 1
    BY <2>2
  <2>4. LineAt(pos + 1) = LineAt(pos)
    <3>1. \A k \in pos+1..pos+1 : k = pos + 1 BY <2>3
    <3>2. \A k \in pos+1..pos+1 : file[k] # "\n" BY <2>1, <3>1
    <3> QED BY <1>1, <2>3, <3>2, LineFacts DEF L
  <2>5. at \in Seq(DOMAIN file) /\ at[Len(at)] = pos + 1 /\ at # <<>>
    BY <1>1, <2>3
  <2>6. Token("SYMBOL", at, LineAfter) \in GoodTokens
    <3> HIDE DEF at
    <3>1. LineAfter = LineAt(pos) /\ LineAt(pos) = LineAt(at[Len(at)]) BY <1>1, <2>4, <2>5
    <3> QED BY <1>1, <2>3, <2>5, <3>1, OtherTokenGood DEF L
  <2>7. tokens' = Append(toks, Token("SYMBOL", at, LineAfter)) /\ pos' = pos + 2
    BY <1>2, <1>3
  <2>8. LineOf(pos + 2) = LineAfter
    <3>1. (IF pos + 2 <= L + 1 THEN (pos + 2) - 1 ELSE L) = pos + 1 BY <2>2
    <3>2. LineOf(pos + 2) = LineAt(IF pos + 2 <= L + 1 THEN (pos + 2) - 1 ELSE L)
      BY DEF LineOf, L
    <3> QED BY <1>1, <2>4, <3>1, <3>2
  <2>9. tokens' \in Seq(GoodTokens) BY <2>6, <2>7
  <2> QED BY <1>1, <2>3, <2>5, <2>6, <2>7, <2>8, <2>9
<1>4. CASE ~pair
  <2> DEFINE at == <<pos>>
  <2> HIDE DEF pair, L
  <2>1. at \in Seq(DOMAIN file) /\ at[Len(at)] = pos /\ at # <<>>
    BY <1>1
  <2>2. L \in Nat /\ pos \in 1..L BY <1>1
  <2>3. pos \in 0..L /\ pos + 1 \in 1..L+1 BY <2>2
  <2>4. Token("SYMBOL", at, LineAfter) \in GoodTokens
    <3> HIDE DEF at
    <3>1. LineAfter = LineAt(pos) /\ LineAt(pos) = LineAt(at[Len(at)]) BY <1>1, <2>1
    <3> QED BY <1>1, <2>1, <2>3, <3>1, OtherTokenGood DEF L
  <2>5. tokens' = Append(toks, Token("SYMBOL", at, LineAfter)) /\ pos' = pos + 1
    BY <1>2, <1>4
  <2>6. tokens' \in Seq(GoodTokens) BY <2>4, <2>5
  <2> QED BY <1>1, <2>1, <2>3, <2>4, <2>5, <2>6 DEF L
<1> QED BY <1>3, <1>4

-----------------------------------------------------------------------------
(***************************************************************************)
(* One turn of the loop: what it does to the characters taken so far.  It  *)
(* takes v, from those it read.                                            *)
(***************************************************************************)
Gains(v) ==
  /\ Value(tokens') \o word' = (Value(tokens) \o word) \o v
  /\ pos <= pos'
  /\ Rising(v)
  /\ \A i \in DOMAIN v : pos <= v[i] /\ v[i] < pos'
  /\ Plain => \A q \in 1..Len(file) :
                pos <= q /\ q < pos' /\ file[q] \notin Spaces => \E i \in DOMAIN v : v[i] = q

Gained == Shape' /\ file' = file /\ \E v \in Seq(DOMAIN file) : Gains(v)

LEMMA SameFile ==
  ASSUME file' = file
  PROVE  /\ \A a, b : Newlines(a, b)' = Newlines(a, b)
         /\ GoodTokens' = GoodTokens
<1>1. ASSUME NEW a, NEW b PROVE Newlines(a, b)' = Newlines(a, b)
  BY DEF Newlines
<1>2. ASSUME NEW a PROVE LineAt(a)' = LineAt(a)
  BY <1>1 DEF LineAt
<1>3. Plain' <=> Plain BY DEF Plain
<1>4. TypedTokens' = TypedTokens BY DEF TypedTokens, TokenTypes
<1>5. ASSUME NEW t PROVE GoodLine(t)' <=> GoodLine(t)
  <2> DEFINE last == t.at[Len(t.at)]
  <2>1. LineAt(last)' = LineAt(last) BY <1>2
  <2> QED BY <2>1 DEF GoodLine
<1>6. ASSUME NEW t PROVE GoodNumber(t)' <=> GoodNumber(t)
  BY <1>3 DEF GoodNumber
<1>7. GoodTokens' = {t \in TypedTokens' : GoodLine(t)' /\ GoodNumber(t)'}
  BY DEF GoodTokens
<1> QED BY <1>1, <1>4, <1>5, <1>6, <1>7 DEF GoodTokens

LEMMA ShapeKept ==
  ASSUME Shape, file' = file,
         pos' \in 1..Len(file)+2,
         state' \in {"START", "TEXT", "NUMBER"},
         word' \in Seq(DOMAIN file),
         tokens' \in Seq(GoodTokens),
         finished' \in BOOLEAN,
         line' = LineOf(pos'),
         WordAt(state', word', pos')
  PROVE  Shape'
<1>1. GoodTokens' = GoodTokens /\ \A a, b : Newlines(a, b)' = Newlines(a, b)
  BY SameFile
<1>2. LineOf(pos)' = LineOf(pos')
  <2> DEFINE p == IF pos' <= Len(file) + 1 THEN pos' - 1 ELSE Len(file)
  <2>1. LineOf(pos)' = 1 + Cardinality({k \in 1..p : file'[k] = "\n"})
    BY DEF LineOf, LineAt, Newlines
  <2>2. LineOf(pos') = 1 + Newlines(1, p) BY DEF LineOf, LineAt
  <2>3. Cardinality({k \in 1..p : file'[k] = "\n"}) = Newlines(1, p) BY DEF Newlines
  <2> QED BY <2>1, <2>2, <2>3
<1>3. WordAt(state, word, pos)'
  <2>1. Plain' <=> Plain BY DEF Plain
  <2> QED BY <2>1 DEF WordAt
<1>4. tokens' \in Seq(GoodTokens') BY <1>1
<1>5. file' \in Seq(Chars) BY DEF Shape
<1> QED BY <1>2, <1>3, <1>4, <1>5 DEF Shape

LEMMA ValueOfTokens ==
  ASSUME file \in Seq(Chars), NEW toks \in Seq(GoodTokens)
  PROVE  Value(toks) \in Seq(DOMAIN file)
<1>1. \A t \in GoodTokens : t.at \in Seq(DOMAIN file)
  BY DEF GoodTokens, TypedTokens
<1> QED BY <1>1, ValueTyped

LEMMA FlushedValue ==
  ASSUME Shape, NEW ln
  PROVE  Value(Flushed(ln)) = Value(tokens) \o word
<1>1. tokens \in Seq(GoodTokens) /\ file \in Seq(Chars) BY DEF Shape
<1>2. Value(tokens) \in Seq(DOMAIN file) BY <1>1, ValueOfTokens
<1>3. CASE word = <<>>
  <2>1. Value(tokens) \o <<>> = Value(tokens) BY <1>2, ConcatEmptySeq
  <2> QED BY <1>3, <2>1 DEF Flushed
<1>4. CASE word # <<>>
  <2> DEFINE t == WordToken(ln)  T == GoodTokens \cup {t}
  <2>1. t \in T /\ t.at = word BY DEF WordToken, Token
  <2>2. tokens \in Seq(T) BY <1>1
  <2> HIDE DEF t, T
  <2>3. Value(Append(tokens, t)) = Value(tokens) \o t.at BY <2>1, <2>2, ValueAppend
  <2> QED BY <1>4, <2>1, <2>3 DEF Flushed, t
<1> QED BY <1>3, <1>4

(* Nothing is taken of spaces.                                             *)
LEMMA GainNothing ==
  ASSUME Shape, pos' \in Nat, pos <= pos',
         Value(tokens') \o word' = Value(tokens) \o word,
         Plain => \A q \in 1..Len(file) : pos <= q /\ q < pos' => file[q] \in Spaces
  PROVE  \E v \in Seq(DOMAIN file) : Gains(v)
<1> DEFINE v == <<>>  before == Value(tokens) \o word
<1>1. v \in Seq(DOMAIN file) /\ DOMAIN v = {} OBVIOUS
<1>2. before \in Seq(DOMAIN file)
  <2>1. Value(tokens) \in Seq(DOMAIN file) BY ValueOfTokens DEF Shape
  <2>2. word \in Seq(DOMAIN file) BY DEF Shape
  <2> QED BY <2>1, <2>2, ConcatProperties
<1>3. before \o v = before
  <2> HIDE DEF before
  <2> QED BY <1>2, ConcatEmptySeq
<1>4. Value(tokens') \o word' = before \o v BY <1>3
<1> HIDE DEF v
<1>5. Rising(v) BY <1>1 DEF Rising
<1> QED BY <1>1, <1>4, <1>5 DEF Gains

LEMMA GainOne ==
  ASSUME Shape, Reading, pos' = pos + 1,
         Value(tokens') \o word' = (Value(tokens) \o word) \o <<pos>>
  PROVE  \E v \in Seq(DOMAIN file) : Gains(v)
<1> DEFINE v == <<pos>>
<1>1. pos \in DOMAIN file /\ pos \in Nat BY DEF Shape, Reading
<1>2. v \in Seq(DOMAIN file) /\ DOMAIN v = {1} /\ v[1] = pos BY <1>1
<1>3. Value(tokens') \o word' = (Value(tokens) \o word) \o v OBVIOUS
<1> HIDE DEF v
<1>4. Rising(v) BY <1>2 DEF Rising
<1>5. pos <= pos' /\ \A i \in DOMAIN v : pos <= v[i] /\ v[i] < pos'
  <2>1. pos <= pos' /\ pos <= pos /\ pos < pos' BY <1>1
  <2> QED BY <1>2, <2>1
<1>6. \A q \in 1..Len(file) : pos <= q /\ q < pos' => \E i \in DOMAIN v : v[i] = q
  <2>1. \A q \in Nat : pos <= q /\ q < pos' => q = pos BY <1>1
  <2> QED BY <1>2, <2>1
<1> QED BY <1>2, <1>3, <1>4, <1>5, <1>6 DEF Gains

LEMMA GainTwo ==
  ASSUME Shape, Reading, pos' = pos + 2, pos + 1 \in DOMAIN file,
         Value(tokens') \o word' = (Value(tokens) \o word) \o <<pos, pos + 1>>
  PROVE  \E v \in Seq(DOMAIN file) : Gains(v)
<1> DEFINE v == <<pos, pos + 1>>
<1>1. pos \in DOMAIN file /\ pos \in Nat BY DEF Shape, Reading
<1>2. v \in Seq(DOMAIN file) /\ DOMAIN v = {1, 2} /\ v[1] = pos /\ v[2] = pos + 1 BY <1>1
<1>3. Value(tokens') \o word' = (Value(tokens) \o word) \o v OBVIOUS
<1> HIDE DEF v
<1>4. Rising(v)
  <2>1. ASSUME NEW i \in DOMAIN v, NEW j \in DOMAIN v, i < j PROVE v[i] < v[j]
    <3>1. i \in {1, 2} /\ j \in {1, 2} BY <1>2
    <3>2. i = 1 /\ j = 2 BY <2>1, <3>1
    <3>3. pos < pos + 1 BY <1>1
    <3> QED BY <1>2, <3>2, <3>3
  <2> QED BY <2>1 DEF Rising
<1>5. pos <= pos' /\ \A i \in DOMAIN v : pos <= v[i] /\ v[i] < pos'
  <2>1. pos <= pos' /\ pos <= pos /\ pos < pos' /\ pos <= pos + 1 /\ pos + 1 < pos' BY <1>1
  <2> QED BY <1>2, <2>1
<1>6. \A q \in 1..Len(file) : pos <= q /\ q < pos' => \E i \in DOMAIN v : v[i] = q
  <2>1. \A q \in Nat : pos <= q /\ q < pos' => q = pos \/ q = pos + 1 BY <1>1
  <2> QED BY <1>2, <2>1
<1> QED BY <1>2, <1>3, <1>4, <1>5, <1>6 DEF Gains

-----------------------------------------------------------------------------
(***************************************************************************)
(* The actions, one by one.                                                *)
(***************************************************************************)
LEMMA FlushedState ==
  ASSUME Shape
  PROVE  StateFlushed \in {"START", "TEXT"} /\ \A p : WordAt(StateFlushed, <<>>, p)
<1>1. StateFlushed \in {"START", "TEXT"} /\ (Plain => StateFlushed = "START")
  BY DEF Shape, WordAt, StateFlushed
<1> QED BY <1>1 DEF WordAt

(* A word of one character.                                                *)
LEMMA NewWord ==
  ASSUME Shape, Reading, NEW st \in {"TEXT", "NUMBER"},
         st = "NUMBER" <=> c \in Digits
  PROVE  WordAt(st, <<pos>>, pos + 1) /\ <<pos>> \in Seq(DOMAIN file)
<1>1. pos \in DOMAIN file /\ pos \in Nat /\ Len(file) \in Nat /\ pos <= Len(file)
  BY DEF Shape, Reading
<1>2. <<pos>> \in Seq(DOMAIN file) /\ <<pos>> # <<>> /\ <<pos>>[1] = pos /\ Len(<<pos>>) = 1
  BY <1>1
<1>3. pos < pos + 1 /\ pos + 1 <= Len(file) + 1 /\ \A q \in pos+1..(pos+1)-1 : FALSE
  BY <1>1
<1> DEFINE w == <<pos>>
<1> HIDE DEF w
<1>4. w # <<>> /\ w[1] = pos /\ Len(w) = 1 BY <1>2 DEF w
<1>5. WordAt(st, w, pos + 1)
  <2>1. st = "NUMBER" <=> file[w[1]] \in Digits BY <1>4 DEF c
  <2>2. w[Len(w)] = pos BY <1>4
  <2> QED BY <1>3, <1>4, <2>1, <2>2 DEF WordAt
<1> QED BY <1>2, <1>5 DEF w

LEMMA ReadOneKept ==
  ASSUME Shape, Reading, NEW st \in {"START", "TEXT", "NUMBER"}, NEW w \in Seq(DOMAIN file),
         NEW toks \in Seq(GoodTokens), WordAt(st, w, pos + 1), ReadOne(st, w, toks)
  PROVE  /\ Shape' /\ file' = file /\ pos' = pos + 1 /\ pos' \in Nat /\ pos <= pos'
         /\ tokens' = toks /\ word' = w
         /\ \A q \in 1..Len(file) : pos <= q /\ q < pos' => q = pos
<1>1. /\ state' = st /\ word' = w /\ tokens' = toks /\ line' = LineAfter
      /\ pos' = pos + 1 /\ file' = file /\ finished' = finished
  BY DEF ReadOne
<1>2. Len(file) \in Nat /\ pos \in 1..Len(file) /\ LineOf(pos + 1) = LineAfter
  BY ReadingFacts
<1>3. pos' \in 1..Len(file)+2 /\ pos' \in Nat /\ pos <= pos' BY <1>1, <1>2
<1>4. line' = LineOf(pos') /\ WordAt(state', word', pos') /\ finished' \in BOOLEAN
  BY <1>1, <1>2 DEF Shape
<1>5. Shape' BY <1>1, <1>3, <1>4, ShapeKept
<1>6. \A q \in 1..Len(file) : pos <= q /\ q < pos' => q = pos
  BY <1>1, <1>2
<1> QED BY <1>1, <1>3, <1>5, <1>6

LEMMA StartSpaceGains == ASSUME Shape, StartSpace PROVE Gained
<1>1. Reading /\ state = "START" /\ c \in Spaces /\ ReadOne(state, word, tokens)
  BY DEF StartSpace
<1>2. WordAt(state, word, pos + 1) BY <1>1 DEF Shape, WordAt
<1>3. word \in Seq(DOMAIN file) /\ tokens \in Seq(GoodTokens)
  BY DEF Shape
<1>4. /\ Shape' /\ file' = file /\ pos' \in Nat /\ pos <= pos'
      /\ tokens' = tokens /\ word' = word
      /\ \A q \in 1..Len(file) : pos <= q /\ q < pos' => q = pos
  BY <1>1, <1>2, <1>3, ReadOneKept
<1>5. \A q \in 1..Len(file) : pos <= q /\ q < pos' => file[q] \in Spaces
  BY <1>1, <1>4 DEF c
<1>6. \E v \in Seq(DOMAIN file) : Gains(v) BY <1>4, <1>5, GainNothing
<1> QED BY <1>4, <1>6 DEF Gained

LEMMA SingleColonGains == ASSUME Shape, SingleColon PROVE Gained
<1>1. Reading /\ state = "TEXT" /\ c = ":" /\ ReadOne(state, word, tokens)
  BY DEF SingleColon
<1>2. pos \in DOMAIN file /\ pos \in Nat /\ Len(file) \in Nat /\ pos <= Len(file)
  BY <1>1 DEF Shape, Reading
<1>3. ~Plain BY <1>1, <1>2 DEF Plain, c
<1>4. WordAt(state, word, pos + 1)
  <2>1. ASSUME word # <<>>
        PROVE  /\ word[Len(word)] < pos + 1 /\ pos + 1 <= Len(file) + 1
               /\ \A q \in word[Len(word)]+1..(pos+1)-1 : file[q] = ":"
    <3> DEFINE last == word[Len(word)]
    <3>1. last < pos /\ \A q \in last+1..pos-1 : file[q] = ":" BY <2>1 DEF Shape, WordAt
    <3>2. last \in Nat
      <4>1. word \in Seq(DOMAIN file) /\ DOMAIN file \subseteq Nat BY DEF Shape
      <4>2. Len(word) \in 1..Len(word) BY <2>1, <4>1
      <4> QED BY <4>1, <4>2
    <3>3. file[pos] = ":" BY <1>1 DEF c
    <3> HIDE DEF last
    <3>4. last < pos BY <3>1
    <3>5. last < pos + 1 /\ pos + 1 <= Len(file) + 1
          /\ \A q \in last+1..(pos+1)-1 : q \in last+1..pos-1 \/ q = pos
      BY <1>2, <3>2, <3>4
    <3> QED BY <3>1, <3>3, <3>5 DEF last
  <2> QED BY <1>1, <1>3, <2>1 DEF WordAt
<1>5. word \in Seq(DOMAIN file) /\ tokens \in Seq(GoodTokens) /\ state \in {"START", "TEXT", "NUMBER"}
  BY DEF Shape
<1>6. /\ Shape' /\ file' = file /\ pos' \in Nat /\ pos <= pos'
      /\ tokens' = tokens /\ word' = word
  BY <1>1, <1>4, <1>5, ReadOneKept
<1>7. \E v \in Seq(DOMAIN file) : Gains(v) BY <1>3, <1>6, GainNothing
<1> QED BY <1>6, <1>7 DEF Gained

LEMMA StartWordGains == ASSUME Shape, StartWord PROVE Gained
<1>1. Reading /\ state = "START" /\ ReadOne(WordState, <<pos>>, tokens)
  BY DEF StartWord
<1>2. WordState \in {"TEXT", "NUMBER"} /\ (WordState = "NUMBER" <=> c \in Digits)
  BY DEF WordState
<1>3. WordAt(WordState, <<pos>>, pos + 1) /\ <<pos>> \in Seq(DOMAIN file)
  BY <1>1, <1>2, NewWord
<1>4. tokens \in Seq(GoodTokens) /\ word = <<>>
  BY <1>1 DEF Shape, WordAt
<1>5. /\ Shape' /\ file' = file /\ pos' = pos + 1
      /\ tokens' = tokens /\ word' = <<pos>>
  BY <1>1, <1>2, <1>3, <1>4, ReadOneKept
<1>6. Value(tokens') \o word' = (Value(tokens) \o word) \o <<pos>>
  <2>1. Value(tokens) \in Seq(DOMAIN file) BY <1>4, ValueOfTokens DEF Shape
  <2>2. Value(tokens) \o <<>> = Value(tokens) BY <2>1, ConcatEmptySeq
  <2> QED BY <1>4, <1>5, <2>2
<1>7. \E v \in Seq(DOMAIN file) : Gains(v) BY <1>1, <1>5, <1>6, GainOne
<1> QED BY <1>5, <1>7 DEF Gained

LEMMA ContinueWordGains == ASSUME Shape, ContinueWord PROVE Gained
<1> DEFINE w == Append(word, pos)
<1>1. Reading /\ state \in {"NUMBER", "TEXT"} /\ ReadOne(state, w, tokens)
  BY DEF ContinueWord
<1>2. pos \in DOMAIN file /\ pos \in Nat /\ Len(file) \in Nat /\ pos <= Len(file)
  BY <1>1 DEF Shape, Reading
<1>3. word \in Seq(DOMAIN file) /\ tokens \in Seq(GoodTokens)
  BY DEF Shape
<1>4. /\ w \in Seq(DOMAIN file) /\ w # <<>> /\ w[Len(w)] = pos
      /\ word # <<>> => w[1] = word[1]
  <2>1. w \in Seq(DOMAIN file) /\ w # <<>> BY <1>2, <1>3, AppendProperties
  <2>2. Len(w) = Len(word) + 1 /\ w[Len(word) + 1] = pos /\ \A i \in 1..Len(word) : w[i] = word[i]
    BY <1>2, <1>3, AppendProperties
  <2>3. word # <<>> => 1 \in 1..Len(word) BY <1>3
  <2> QED BY <2>1, <2>2, <2>3
<1> HIDE DEF w
<1>5. WordAt(state, w, pos + 1)
  <2>1. pos < pos + 1 /\ pos + 1 <= Len(file) + 1 /\ \A q \in pos+1..(pos+1)-1 : FALSE
    BY <1>2
  <2>2. /\ state = "NUMBER" => word # <<>> /\ file[word[1]] \in Digits
        /\ Plain /\ state = "TEXT" => word # <<>> /\ file[word[1]] \notin Digits
    BY DEF Shape, WordAt
  <2>3. state # "START" BY <1>1
  <2> QED BY <1>4, <2>1, <2>2, <2>3 DEF WordAt
<1>6. /\ Shape' /\ file' = file /\ pos' = pos + 1
      /\ tokens' = tokens /\ word' = w
  BY <1>1, <1>3, <1>4, <1>5, ReadOneKept
<1>7. Value(tokens') \o word' = (Value(tokens) \o word) \o <<pos>>
  <2>1. Value(tokens) \in Seq(DOMAIN file) BY <1>3, ValueOfTokens DEF Shape
  <2>2. w = word \o <<pos>> BY <1>2, <1>3, AppendIsConcat DEF w
  <2>3. <<pos>> \in Seq(DOMAIN file) BY <1>2
  <2>4. (Value(tokens) \o word) \o <<pos>> = Value(tokens) \o (word \o <<pos>>)
    BY <1>3, <2>1, <2>3, ConcatAssociative
  <2> QED BY ONLY <1>6, <2>2, <2>4
<1>8. \E v \in Seq(DOMAIN file) : Gains(v) BY <1>1, <1>6, <1>7, GainOne
<1> QED BY <1>6, <1>8 DEF Gained

(* What flush_token leaves when a character ends a word.                   *)
LEMMA EndsWordFacts ==
  ASSUME Shape, EndsWord
  PROVE  /\ Reading /\ (state = "NUMBER" => c \notin Digits) /\ (state = "TEXT" => c \notin Digits)
         /\ state \in {"NUMBER", "TEXT"}
         /\ Flushed(LineAfter) \in Seq(GoodTokens)
         /\ Value(Flushed(LineAfter)) = Value(tokens) \o word
         /\ Value(tokens) \o word \in Seq(DOMAIN file)
         /\ (Value(tokens) \o word) \o <<>> = Value(tokens) \o word
<1>1. /\ Reading /\ (state = "NUMBER" => c \notin Digits) /\ (state = "TEXT" => c \notin Digits)
      /\ state \in {"NUMBER", "TEXT"}
  BY DEF EndsWord, isalnum
<1>2. pos <= Len(file) /\ LineAfter = LineAt(pos) BY <1>1, ReadingFacts DEF Reading
<1>3. Flushed(LineAfter) \in Seq(GoodTokens) BY <1>2, FlushedGood
<1>4. Value(Flushed(LineAfter)) = Value(tokens) \o word BY FlushedValue
<1>5. Value(tokens) \o word \in Seq(DOMAIN file)
  <2>1. Value(tokens) \in Seq(DOMAIN file) BY ValueOfTokens DEF Shape
  <2>2. word \in Seq(DOMAIN file) BY DEF Shape
  <2> QED BY <2>1, <2>2, ConcatProperties
<1>6. (Value(tokens) \o word) \o <<>> = Value(tokens) \o word
  BY <1>5, ConcatEmptySeq
<1> QED BY <1>1, <1>3, <1>4, <1>5, <1>6

LEMMA EndWordSpaceGains == ASSUME Shape, EndWordSpace PROVE Gained
<1> DEFINE toks == Flushed(LineAfter)
<1>1. EndsWord /\ c \in Spaces /\ ReadOne(StateFlushed, <<>>, toks)
  BY DEF EndWordSpace
<1>2. /\ Reading /\ toks \in Seq(GoodTokens)
      /\ Value(toks) = Value(tokens) \o word
      /\ (Value(tokens) \o word) \o <<>> = Value(tokens) \o word
  BY <1>1, EndsWordFacts
<1>3. StateFlushed \in {"START", "TEXT", "NUMBER"} /\ WordAt(StateFlushed, <<>>, pos + 1)
  BY FlushedState
<1>4. <<>> \in Seq(DOMAIN file) OBVIOUS
<1> HIDE DEF toks
<1>5. /\ Shape' /\ file' = file /\ pos' \in Nat /\ pos <= pos'
      /\ tokens' = toks /\ word' = <<>>
      /\ \A q \in 1..Len(file) : pos <= q /\ q < pos' => q = pos
  BY <1>1, <1>2, <1>3, <1>4, ReadOneKept
<1>6. \A q \in 1..Len(file) : pos <= q /\ q < pos' => file[q] \in Spaces
  BY <1>1, <1>5 DEF c
<1>7. Value(tokens') \o word' = Value(tokens) \o word
  BY ONLY <1>2, <1>5
<1>8. \E v \in Seq(DOMAIN file) : Gains(v) BY <1>5, <1>6, <1>7, GainNothing
<1> QED BY <1>5, <1>8 DEF Gained

LEMMA EndWordWordGains == ASSUME Shape, EndWordWord PROVE Gained
<1> DEFINE toks == Flushed(LineAfter)
<1>1. EndsWord /\ ReadOne("TEXT", <<pos>>, toks)
  BY DEF EndWordWord
<1>2. /\ Reading /\ toks \in Seq(GoodTokens) /\ c \notin Digits
      /\ Value(toks) = Value(tokens) \o word
  BY <1>1, EndsWordFacts
<1>3. WordAt("TEXT", <<pos>>, pos + 1) /\ <<pos>> \in Seq(DOMAIN file)
  <2>1. "TEXT" = "NUMBER" <=> c \in Digits BY <1>2
  <2> QED BY <1>2, <2>1, NewWord
<1> HIDE DEF toks
<1>4. /\ Shape' /\ file' = file /\ pos' = pos + 1
      /\ tokens' = toks /\ word' = <<pos>>
  BY <1>1, <1>2, <1>3, ReadOneKept
<1>5. Value(tokens') \o word' = (Value(tokens) \o word) \o <<pos>>
  BY ONLY <1>2, <1>4
<1>6. \E v \in Seq(DOMAIN file) : Gains(v) BY <1>2, <1>4, <1>5, GainOne
<1> QED BY <1>4, <1>6 DEF Gained

(* A symbol after tokens that hold all that was taken.                     *)
LEMMA SymbolGains ==
  ASSUME Shape, Reading, c \in Symbols, NEW toks \in Seq(GoodTokens),
         Value(toks) = Value(tokens) \o word,
         handle_symbole(toks, LineAfter), word' = <<>>, file' = file, finished' = finished,
         line' = LineAfter, state' \in {"START", "TEXT", "NUMBER"},
         \A p : WordAt(state', <<>>, p)
  PROVE  Gained
<1>1. PICK at \in Seq(DOMAIN file) :
           /\ tokens' = Append(toks, Token("SYMBOL", at, LineAfter))
           /\ tokens' \in Seq(GoodTokens)
           /\ Token("SYMBOL", at, LineAfter) \in GoodTokens
           /\ \/ at = <<pos>> /\ pos' = pos + 1 /\ pos' \in 1..Len(file)+1
              \/ at = <<pos, pos + 1>> /\ pos' = pos + 2 /\ pos + 1 \in DOMAIN file
           /\ LineOf(pos') = LineAfter
  BY SymbolFacts
<1>2. Len(file) \in Nat /\ pos \in 1..Len(file) /\ DOMAIN file = 1..Len(file)
  BY ReadingFacts DEF Shape
<1>3. pos' \in 1..Len(file)+2 BY <1>1, <1>2
<1>4. /\ <<>> \in Seq(DOMAIN file) /\ finished' \in BOOLEAN /\ WordAt(state', <<>>, pos')
      /\ Shape
  BY DEF Shape
<1>5. Shape'
  <2>1. word' \in Seq(DOMAIN file) /\ WordAt(state', word', pos') /\ line' = LineOf(pos')
    BY <1>1, <1>4
  <2> QED BY <1>1, <1>3, <1>4, <2>1, ShapeKept
<1>6. Value(tokens') \o word' = (Value(tokens) \o word) \o at
  <2> DEFINE t == Token("SYMBOL", at, LineAfter)
  <2>1. t \in GoodTokens /\ t.at = at BY <1>1 DEF Token
  <2>2. tokens' = Append(toks, t) BY <1>1
  <2> HIDE DEF t
  <2>3. Value(tokens') = Value(toks) \o at BY <2>1, <2>2, ValueAppend
  <2>4. Value(tokens') \in Seq(DOMAIN file) BY <1>1, ValueOfTokens DEF Shape
  <2>5. Value(tokens') \o <<>> = Value(tokens') BY <2>4, ConcatEmptySeq
  <2> QED BY ONLY <2>3, <2>5, word' = <<>>, Value(toks) = Value(tokens) \o word
<1>7. \E v \in Seq(DOMAIN file) : Gains(v)
  <2>1. CASE at = <<pos>> /\ pos' = pos + 1 BY <1>6, <2>1, GainOne
  <2>2. CASE at = <<pos, pos + 1>> /\ pos' = pos + 2 /\ pos + 1 \in DOMAIN file
    BY <1>6, <2>2, GainTwo
  <2> QED BY <1>1, <2>1, <2>2
<1> QED BY <1>5, <1>7 DEF Gained

LEMMA StartSymbolGains == ASSUME Shape, StartSymbol PROVE Gained
<1>1. /\ Reading /\ state = "START" /\ c \in Symbols
      /\ handle_symbole(tokens, LineAfter)
      /\ line' = LineAfter /\ file' = file /\ state' = state /\ word' = word
      /\ finished' = finished
  BY DEF StartSymbol
<1>2. word = <<>> /\ tokens \in Seq(GoodTokens) BY <1>1 DEF Shape, WordAt
<1>3. Value(tokens) = Value(tokens) \o word
  <2>1. Value(tokens) \in Seq(DOMAIN file) BY <1>2, ValueOfTokens DEF Shape
  <2> QED BY <1>2, <2>1, ConcatEmptySeq
<1>4. word' = <<>> /\ state' \in {"START", "TEXT", "NUMBER"} /\ \A p : WordAt(state', <<>>, p)
  BY <1>1, <1>2 DEF WordAt
<1> QED BY <1>1, <1>2, <1>3, <1>4, SymbolGains

LEMMA EndWordSymbolGains == ASSUME Shape, EndWordSymbol PROVE Gained
<1> DEFINE toks == Flushed(LineAfter)
<1>1. /\ EndsWord /\ c \in Symbols
      /\ handle_symbole(toks, LineAfter)
      /\ line' = LineAfter /\ file' = file /\ state' = StateFlushed /\ word' = <<>>
      /\ finished' = finished
  BY DEF EndWordSymbol
<1>2. /\ Reading /\ toks \in Seq(GoodTokens)
      /\ Value(toks) = Value(tokens) \o word
  BY <1>1, EndsWordFacts
<1>3. state' \in {"START", "TEXT", "NUMBER"} /\ \A p : WordAt(state', <<>>, p)
  BY <1>1, FlushedState
<1> HIDE DEF toks
<1> QED BY <1>1, <1>2, <1>3, SymbolGains

LEMMA DoubleColonGains == ASSUME Shape, DoubleColon PROVE Gained
<1> DEFINE L == Len(file)  toks == Flushed(line)  at == <<pos, pos + 1>>
           t == Token("DOUBLEDOT", at, line)
<1>1. /\ Reading /\ c = ":" /\ pos < L /\ file[pos + 1] = ":"
      /\ tokens' = Append(toks, t) /\ state' = "TEXT" /\ word' = <<>> /\ pos' = pos + 2
      /\ file' = file /\ line' = line /\ finished' = finished
  BY DEF DoubleColon
<1>2. /\ L \in Nat /\ pos \in 1..L /\ DOMAIN file = 1..L /\ file \in Seq(Chars)
      /\ line = LineAt(pos - 1) /\ LineAt(pos) = LineAt(pos - 1)
  BY <1>1, ReadingFacts DEF Shape
<1>3. ~Plain BY <1>1, <1>2 DEF Plain, c
<1>4. toks \in Seq(GoodTokens) /\ Value(toks) = Value(tokens) \o word
  BY <1>2, FlushedGood, FlushedValue
<1> HIDE DEF L
<1>5. pos < L BY <1>1
<1>6. pos + 1 \in 1..L /\ pos \in 0..L /\ pos + 1 \in 0..L /\ pos <= pos + 1
      /\ pos + 2 \in 1..L+2 /\ pos + 2 <= L + 1
  <2>1. L \in Nat /\ pos \in 1..L BY <1>2
  <2> QED BY <1>5, <2>1
<1>7. LineAt(pos + 1) = LineAt(pos)
  <2>1. \A k \in pos+1..pos+1 : k = pos + 1 BY <1>6
  <2>2. \A k \in pos+1..pos+1 : file[k] # "\n" BY <1>1, <2>1
  <2> QED BY <1>2, <1>6, <2>2, LineFacts DEF L
<1>8. at \in Seq(DOMAIN file) /\ at[Len(at)] = pos + 1 /\ at # <<>> /\ <<>> \in Seq(DOMAIN file)
  BY <1>2, <1>6
<1> HIDE DEF at, toks
<1>9. t \in GoodTokens /\ t.at = at
  <2>1. line = LineAt(pos) /\ LineAt(pos) = LineAt(at[Len(at)]) BY <1>2, <1>7, <1>8
  <2>2. Token("DOUBLEDOT", at, LineAt(pos)) \in GoodTokens
    BY <1>2, <1>6, <1>8, <2>1, OtherTokenGood DEF L
  <2> QED BY <2>1, <2>2 DEF Token
<1> HIDE DEF t
<1>10. Shape'
  <2>1. line' = LineOf(pos')
    <3>1. LineOf(pos + 2) = LineAt(IF pos + 2 <= L + 1 THEN (pos + 2) - 1 ELSE L) BY DEF LineOf, L
    <3>2. (IF pos + 2 <= L + 1 THEN (pos + 2) - 1 ELSE L) = pos + 1 BY <1>6
    <3> QED BY ONLY <1>1, <1>2, <1>7, <3>1, <3>2
  <2>2. WordAt(state', word', pos') BY <1>1, <1>3 DEF WordAt
  <2>3. tokens' \in Seq(GoodTokens) BY <1>1, <1>4, <1>9, AppendProperties
  <2>4. pos' \in 1..Len(file)+2 BY <1>1, <1>6 DEF L
  <2>5. finished' \in BOOLEAN BY <1>1 DEF Shape
  <2>6. word' \in Seq(DOMAIN file) BY <1>1, <1>8
  <2> QED BY <1>1, <2>1, <2>2, <2>3, <2>4, <2>5, <2>6, ShapeKept
<1>11. Value(tokens') \o word' = (Value(tokens) \o word) \o at
  <2>1. Value(tokens') = Value(toks) \o at BY <1>1, <1>4, <1>9, ValueAppend
  <2>2. tokens' \in Seq(GoodTokens) BY <1>1, <1>4, <1>9, AppendProperties
  <2>3. Value(tokens') \o <<>> = Value(tokens')
    BY <1>2, <2>2, ValueOfTokens, ConcatEmptySeq
  <2> QED BY ONLY <1>1, <1>4, <2>1, <2>3
<1>12. \E v \in Seq(DOMAIN file) : Gains(v)
  BY <1>1, <1>2, <1>6, <1>11, GainTwo DEF at
<1> QED BY <1>1, <1>10, <1>12 DEF Gained

LEMMA EndOfFileGains == ASSUME Shape, EndOfFile PROVE Gained
<1> DEFINE L == Len(file)  toks == Flushed(line)  t == Token("EOFTOKEN", <<>>, line)
<1>1. /\ pos > L /\ tokens' = Append(toks, t) /\ word' = <<>> /\ state' = StateFlushed
      /\ finished' = TRUE /\ file' = file /\ pos' = pos /\ line' = line
  BY DEF EndOfFile
<1>2. /\ L \in Nat /\ pos \in 1..L+2 /\ file \in Seq(Chars) /\ line = LineOf(pos)
  BY DEF Shape
<1> HIDE DEF L
<1>3. pos - 1 \in Nat /\ (pos <= L + 1 => pos - 1 = L /\ pos - 1 \in 0..L) /\ L \in 0..L
  <2>1. L \in Nat /\ pos \in 1..L+2 /\ pos > L BY <1>1, <1>2
  <2> QED BY <2>1
<1>4. line = LineAt(L) /\ LineOf(pos) = LineAt(L)
  <2>1. LineOf(pos) = LineAt(IF pos <= L + 1 THEN pos - 1 ELSE L) BY DEF LineOf, L
  <2>2. (IF pos <= L + 1 THEN pos - 1 ELSE L) = L BY <1>3
  <2> QED BY ONLY <1>2, <2>1, <2>2
<1>5. toks \in Seq(GoodTokens) /\ Value(toks) = Value(tokens) \o word
  <2>1. word # <<>> => line = LineAt(pos - 1)
    <3>1. word # <<>> => pos <= L + 1 BY DEF Shape, WordAt, L
    <3> QED BY <1>3, <1>4, <3>1
  <2> QED BY <2>1, FlushedGood, FlushedValue
<1> HIDE DEF toks
<1>6. <<>> \in Seq(DOMAIN file) OBVIOUS
<1>7. t \in GoodTokens /\ t.at = <<>>
  <2>1. Token("EOFTOKEN", <<>>, LineAt(L)) \in GoodTokens
    BY <1>2, <1>3, <1>6, OtherTokenGood DEF L
  <2> QED BY <1>4, <2>1 DEF Token
<1> HIDE DEF t
<1>8. tokens' \in Seq(GoodTokens) BY <1>1, <1>5, <1>7, AppendProperties
<1>9. Shape'
  <2>1. state' \in {"START", "TEXT", "NUMBER"} /\ WordAt(state', word', pos')
    BY <1>1, FlushedState
  <2>2. line' = LineOf(pos') /\ finished' \in BOOLEAN /\ word' \in Seq(DOMAIN file)
    BY <1>1, <1>4, <1>6
  <2>3. pos' \in 1..Len(file)+2 BY <1>1, <1>2 DEF L
  <2> QED BY <1>1, <1>8, <2>1, <2>2, <2>3, ShapeKept
<1>10. Value(tokens') \o word' = Value(tokens) \o word
  <2>1. Value(tokens') = Value(toks) \o <<>> BY <1>1, <1>5, <1>7, ValueAppend
  <2>2. Value(toks) \in Seq(DOMAIN file) /\ Value(tokens') \in Seq(DOMAIN file)
    BY <1>2, <1>5, <1>8, ValueOfTokens
  <2>3. Value(toks) \o <<>> = Value(toks) /\ Value(tokens') \o <<>> = Value(tokens')
    BY <2>2, ConcatEmptySeq
  <2> QED BY ONLY <1>1, <1>5, <2>1, <2>3
<1>11. \E v \in Seq(DOMAIN file) : Gains(v)
  <2>1. pos' \in Nat /\ pos <= pos' BY <1>1, <1>2
  <2>2. \A q \in 1..Len(file) : pos <= q /\ q < pos' => file[q] \in Spaces
    <3>1. \A q \in 1..Len(file) : ~ (pos <= q /\ q < pos') BY <1>1, <1>2
    <3> QED BY <3>1
  <2> QED BY <1>10, <2>1, <2>2, GainNothing
<1> QED BY <1>1, <1>9, <1>11 DEF Gained

LEMMA AfterAsmFacts ==
  ASSUME Shape, AfterAsm
  PROVE  /\ Reading /\ ~Plain /\ state = "TEXT"
         /\ AsmToken \in Seq(GoodTokens)
         /\ Value(AsmToken) = Value(tokens) \o word
         /\ Value(tokens) \o word \in Seq(DOMAIN file)
         /\ (Value(tokens) \o word) \o <<>> = Value(tokens) \o word
<1> DEFINE t == Token("ASM", word, LineAfter)
<1>1. Reading /\ state = "TEXT" /\ Len(word) = 1 /\ file[word[1]] = "asm"
  BY DEF AfterAsm, IsAsm
<1>2. word \in Seq(DOMAIN file) /\ tokens \in Seq(GoodTokens) /\ file \in Seq(Chars)
  BY DEF Shape
<1>3. word # <<>> /\ word[1] \in DOMAIN file
  <2>1. Len(word) = 1 BY <1>1
  <2>2. 1 \in 1..Len(word) /\ word # <<>> BY <2>1
  <2> QED BY <1>2, <2>2
<1>4. ~Plain BY <1>1, <1>3 DEF Plain
<1>5. t \in GoodTokens /\ t.at = word
  <2>1. pos <= Len(file) /\ LineAfter = LineAt(pos) BY <1>1, ReadingFacts DEF Reading
  <2>2. "ASM" \in TokenTypes BY DEF TokenTypes
  <2>3. t \in GoodTokens BY <1>3, <2>1, <2>2, WordLine
  <2> QED BY <2>3 DEF Token
<1>6. AsmToken = Append(tokens, t) BY DEF AsmToken
<1> HIDE DEF t
<1>7. AsmToken \in Seq(GoodTokens) BY <1>2, <1>5, <1>6, AppendProperties
<1>8. Value(AsmToken) = Value(tokens) \o word BY <1>2, <1>5, <1>6, ValueAppend
<1>9. Value(AsmToken) \in Seq(DOMAIN file) BY <1>2, <1>7, ValueOfTokens
<1>10. (Value(tokens) \o word) \o <<>> = Value(tokens) \o word
  BY <1>8, <1>9, ConcatEmptySeq
<1> QED BY <1>1, <1>4, <1>7, <1>8, <1>9, <1>10

LEMMA AsmNoBodyGains == ASSUME Shape, AsmNoBody PROVE Gained
<1> DEFINE L == Len(file)  b == Brace
<1>1. /\ AfterAsm /\ tokens' = AsmToken
      /\ line' = LineAfter + Newlines(pos + 1, Brace - 1) /\ word' = <<>>
      /\ pos' = b + 1 /\ file' = file /\ state' = state /\ finished' = finished
  BY DEF AsmNoBody
<1>2. /\ Reading /\ ~Plain /\ state = "TEXT" /\ AsmToken \in Seq(GoodTokens)
      /\ Value(AsmToken) = Value(tokens) \o word
      /\ (Value(tokens) \o word) \o <<>> = Value(tokens) \o word
  BY <1>1, AfterAsmFacts
<1>3. L \in Nat /\ pos \in 1..L BY <1>2, ReadingFacts
<1>4. b \in pos+1..L+1 /\ line' = LineAt(b - 1) /\ (b <= L => LineAt(b) = LineAt(b - 1))
  BY <1>1, <1>2, AsmFacts
<1> HIDE DEF L, b
<1>5. b + 1 \in 1..L+2 /\ pos <= b + 1 /\ b + 1 \in Nat
      /\ (b <= L => (b + 1) - 1 = b /\ b + 1 <= L + 1)
      /\ (~(b <= L) => b - 1 = L /\ ~(b + 1 <= L + 1))
  <2>1. b \in pos+1..L+1 BY <1>4
  <2> QED BY <1>3, <2>1
<1>6. line' = LineOf(pos')
  <2>1. LineOf(b + 1) = LineAt(IF b + 1 <= L + 1 THEN (b + 1) - 1 ELSE L) BY DEF LineOf, L
  <2>2. (IF b + 1 <= L + 1 THEN (b + 1) - 1 ELSE L) = IF b <= L THEN b ELSE b - 1 BY <1>5
  <2> QED BY ONLY <1>1, <1>4, <2>1, <2>2
<1>7. Shape'
  <2>1. state' \in {"START", "TEXT", "NUMBER"} /\ WordAt(state', word', pos')
    BY <1>1, <1>2 DEF WordAt
  <2>2. finished' \in BOOLEAN /\ word' \in Seq(DOMAIN file) BY <1>1 DEF Shape
  <2>3. pos' \in 1..Len(file)+2 BY <1>1, <1>5 DEF L
  <2>4. tokens' \in Seq(GoodTokens) BY <1>1, <1>2
  <2> QED BY <1>1, <1>6, <2>1, <2>2, <2>3, <2>4, ShapeKept
<1>8. Value(tokens') \o word' = Value(tokens) \o word
  BY ONLY <1>1, <1>2
<1>9. \E v \in Seq(DOMAIN file) : Gains(v)
  BY <1>1, <1>2, <1>5, <1>8, GainNothing
<1> QED BY <1>1, <1>7, <1>9 DEF Gained

LEMMA ThreeOnes ==
  ASSUME NEW S, NEW a \in S, NEW b \in S, NEW d \in S
  PROVE  (<<a>> \o <<b>>) \o <<d>> = <<a, b, d>>
<1> DEFINE x == <<a>> \o <<b>>  y == x \o <<d>>  z == <<a, b, d>>
<1>1. <<a>> \in Seq(S) /\ <<b>> \in Seq(S) /\ <<d>> \in Seq(S) OBVIOUS
<1>2. x \in Seq(S) /\ Len(x) = 2 /\ x[1] = a /\ x[2] = b OBVIOUS
<1> HIDE DEF x
<1>3. y \in Seq(S) /\ Len(y) = 3 /\ y[1] = a /\ y[2] = b /\ y[3] = d
  <2>1. Len(<<d>>) = 1 /\ <<d>>[1] = d OBVIOUS
  <2> DEFINE e == <<d>>
  <2>2. e \in Seq(S) /\ Len(e) = 1 /\ e[1] = d BY <1>1, <2>1
  <2> HIDE DEF e
  <2>3. x \o e \in Seq(S) /\ Len(x \o e) = Len(x) + Len(e)
        /\ \A i \in 1..Len(x)+Len(e) : (x \o e)[i] = IF i <= Len(x) THEN x[i] ELSE e[i - Len(x)]
    BY <1>2, <2>2, ConcatProperties
  <2> QED BY <1>2, <2>2, <2>3 DEF e
<1>4. z \in Seq(S) /\ Len(z) = 3 /\ z[1] = a /\ z[2] = b /\ z[3] = d OBVIOUS
<1> HIDE DEF y, z
<1>5. \A i \in 1..3 : y[i] = z[i] 
  <2>1. \A i \in 1..3 : i = 1 \/ i = 2 \/ i = 3 OBVIOUS
  <2> QED BY <1>3, <1>4, <2>1
<1>6. y = z BY <1>3, <1>4, <1>5, SeqEqual
<1> QED BY <1>6 DEF x, y, z

(* Three tokens more.                                                      *)
LEMMA ThreeMore ==
  ASSUME file \in Seq(Chars), NEW toks \in Seq(GoodTokens),
         NEW a \in GoodTokens, NEW b \in GoodTokens, NEW d \in GoodTokens
  PROVE  /\ toks \o <<a, b, d>> \in Seq(GoodTokens)
         /\ Value(toks \o <<a, b, d>>) = Value(toks) \o (a.at \o (b.at \o d.at))
<1> DEFINE S == DOMAIN file  t1 == Append(toks, a)  t2 == Append(t1, b)  t3 == Append(t2, d)
<1>1. t1 \in Seq(GoodTokens) BY AppendProperties
<1> HIDE DEF t1
<1>2. t2 \in Seq(GoodTokens) BY <1>1, AppendProperties
<1> HIDE DEF t2
<1>3. t3 \in Seq(GoodTokens) BY <1>2, AppendProperties
<1>4. toks \o <<a, b, d>> = t3
  <2>1. <<a>> \in Seq(GoodTokens) /\ <<b>> \in Seq(GoodTokens) /\ <<d>> \in Seq(GoodTokens)
    OBVIOUS
  <2>2. t1 = toks \o <<a>> BY AppendIsConcat DEF t1
  <2>3. t2 = t1 \o <<b>> BY <1>1, AppendIsConcat DEF t2
  <2>4. t3 = t2 \o <<d>> BY <1>2, AppendIsConcat
  <2> HIDE DEF t3
  <2>5. <<a>> \o <<b>> \in Seq(GoodTokens) BY <2>1, ConcatProperties
  <2>6. t2 = toks \o (<<a>> \o <<b>>) BY <2>1, <2>2, <2>3, ConcatAssociative
  <2>7. t3 = toks \o ((<<a>> \o <<b>>) \o <<d>>) BY <2>1, <2>4, <2>5, <2>6, ConcatAssociative
  <2>8. (<<a>> \o <<b>>) \o <<d>> = <<a, b, d>> BY ThreeOnes
  <2> QED BY ONLY <2>7, <2>8
<1>5. /\ Value(t1) = Value(toks) \o a.at
      /\ Value(t2) = Value(t1) \o b.at
      /\ Value(t3) = Value(t2) \o d.at
  <2>1. Value(t1) = Value(toks) \o a.at BY ValueAppend DEF t1
  <2>2. Value(t2) = Value(t1) \o b.at BY <1>1, ValueAppend DEF t2
  <2>3. Value(t3) = Value(t2) \o d.at BY <1>2, ValueAppend
  <2> QED BY <2>1, <2>2, <2>3
<1>6. /\ Value(toks) \in Seq(S) /\ Value(t1) \in Seq(S) /\ Value(t2) \in Seq(S)
      /\ a.at \in Seq(S) /\ b.at \in Seq(S) /\ d.at \in Seq(S)
  <2>1. Value(toks) \in Seq(S) /\ Value(t1) \in Seq(S) /\ Value(t2) \in Seq(S)
    BY <1>1, <1>2, ValueOfTokens
  <2>2. a.at \in Seq(S) /\ b.at \in Seq(S) /\ d.at \in Seq(S)
    BY DEF GoodTokens, TypedTokens
  <2> QED BY <2>1, <2>2
<1> HIDE DEF S, t3
<1> DEFINE x == Value(toks)  u == a.at  v == b.at  w == d.at  y == Value(t1)  z == Value(t2)
<1>7. x \in Seq(S) /\ u \in Seq(S) /\ v \in Seq(S) /\ w \in Seq(S) BY <1>6
<1>8. y = x \o u /\ z = y \o v /\ Value(t3) = z \o w /\ y \in Seq(S) BY <1>5, <1>6
<1> HIDE DEF x, u, v, w, y, z
<1>9. Value(t3) = x \o (u \o (v \o w))
  <2>1. v \o w \in Seq(S) BY <1>7, ConcatProperties
  <2> HIDE DEF S
  <2>0. \A f, g, h \in Seq(S) : (f \o g) \o h = f \o (g \o h) BY ConcatAssociative
  <2>2. (y \o v) \o w = y \o (v \o w) BY <1>7, <1>8, <2>0
  <2>3. (x \o u) \o (v \o w) = x \o (u \o (v \o w)) BY <1>7, <2>0, <2>1
  <2> QED BY ONLY <1>8, <2>2, <2>3
<1> QED BY ONLY <1>3, <1>4, <1>9 DEF x, u, v, w

(* asm at the end of the file: three tokens without characters.            *)
LEMMA AsmUninitialisedGains == ASSUME Shape, AsmUninitialised PROVE Gained
<1> DEFINE L == Len(file)  n == Token("SYMBOL", <<>>, LineAfter)
           m == Token("ASM_INSTRUCTIONS", <<>>, LineAfter)
<1>1. /\ AfterAsm /\ pos = L /\ tokens' = AsmToken \o <<n, m, n>>
      /\ line' = LineAfter /\ state' = "START" /\ word' = <<>>
      /\ pos' = pos + 1 /\ file' = file /\ finished' = finished
  BY DEF AsmUninitialised
<1>2. /\ Reading /\ ~Plain /\ AsmToken \in Seq(GoodTokens)
      /\ Value(AsmToken) = Value(tokens) \o word
      /\ (Value(tokens) \o word) \o <<>> = Value(tokens) \o word
  BY <1>1, AfterAsmFacts
<1>3. /\ L \in Nat /\ pos \in 1..L /\ LineAfter = LineAt(pos) /\ LineOf(pos + 1) = LineAfter
      /\ file \in Seq(Chars)
  BY <1>2, ReadingFacts DEF Shape
<1>4. pos + 1 \in 1..L+2 /\ pos <= pos + 1 /\ pos + 1 \in Nat /\ pos \in 0..L BY <1>3
<1>5. n \in GoodTokens /\ m \in GoodTokens /\ n.at = <<>> /\ m.at = <<>>
  <2>1. <<>> \in Seq(DOMAIN file) OBVIOUS
  <2>2. Token("SYMBOL", <<>>, LineAt(pos)) \in GoodTokens BY <1>3, <1>4, <2>1, OtherTokenGood
  <2>3. Token("ASM_INSTRUCTIONS", <<>>, LineAt(pos)) \in GoodTokens
    BY <1>3, <1>4, <2>1, OtherTokenGood
  <2> QED BY <1>3, <2>2, <2>3 DEF Token
<1> HIDE DEF L, n, m
<1>6. tokens' \in Seq(GoodTokens) /\ Value(tokens') = Value(AsmToken) \o (n.at \o (m.at \o n.at))
  BY <1>1, <1>2, <1>3, <1>5, ThreeMore
<1>7. Shape'
  <2>1. WordAt(state', word', pos') BY <1>1 DEF WordAt
  <2>2. finished' \in BOOLEAN /\ word' \in Seq(DOMAIN file) BY <1>1 DEF Shape
  <2>3. pos' \in 1..Len(file)+2 BY <1>1, <1>4 DEF L
  <2>4. line' = LineOf(pos') /\ state' \in {"START", "TEXT", "NUMBER"} BY <1>1, <1>3
  <2> QED BY <1>1, <1>6, <2>1, <2>2, <2>3, <2>4, ShapeKept
<1>8. Value(tokens') \o word' = Value(tokens) \o word
  <2>1. <<>> \o <<>> = <<>> BY ConcatEmptySeq
  <2> QED BY ONLY <1>1, <1>2, <1>5, <1>6, <2>1
<1>9. \E v \in Seq(DOMAIN file) : Gains(v)
  BY <1>1, <1>2, <1>4, <1>8, GainNothing
<1> QED BY <1>1, <1>7, <1>9 DEF Gained

(* A rising list after a rising list.                                      *)
LEMMA RisingConcat ==
  ASSUME NEW u \in Seq(Nat), NEW v \in Seq(Nat), NEW a \in Nat, NEW m \in Nat, NEW b \in Nat,
         a <= m, m <= b,
         Rising(u), \A i \in DOMAIN u : a <= u[i] /\ u[i] < m,
         Rising(v), \A i \in DOMAIN v : m <= v[i] /\ v[i] < b
  PROVE  /\ u \o v \in Seq(Nat) /\ Rising(u \o v)
         /\ \A i \in DOMAIN (u \o v) : a <= (u \o v)[i] /\ (u \o v)[i] < b
         /\ \A i \in DOMAIN u : \E j \in DOMAIN (u \o v) : (u \o v)[j] = u[i]
         /\ \A i \in DOMAIN v : \E j \in DOMAIN (u \o v) : (u \o v)[j] = v[i]
<1> DEFINE x == u \o v  k == Len(u)  n == Len(v)
<1>1. /\ k \in Nat /\ n \in Nat /\ DOMAIN u = 1..k /\ DOMAIN v = 1..n
      /\ x \in Seq(Nat) /\ Len(x) = k + n
      /\ \A i \in 1..k+n : x[i] = IF i <= k THEN u[i] ELSE v[i - k]
  BY ConcatProperties
<1>2. DOMAIN x = 1..k+n BY <1>1
<1>3. \A i \in 1..k : u[i] \in Nat BY <1>1
<1>4. \A i \in 1..n : v[i] \in Nat BY <1>1
<1> HIDE DEF x, k, n
<1>5. /\ \A i \in 1..k : i \in 1..k+n /\ x[i] = u[i]
      /\ \A i \in 1..n : k + i \in 1..k+n /\ x[k + i] = v[i]
  <2>1. ASSUME NEW i \in 1..k PROVE i \in 1..k+n /\ x[i] = u[i]
    <3>1. k \in Nat /\ n \in Nat BY <1>1
    <3>2. i \in 1..k+n /\ i <= k BY <3>1
    <3> QED BY <1>1, <3>2
  <2>2. ASSUME NEW i \in 1..n PROVE k + i \in 1..k+n /\ x[k + i] = v[i]
    <3>1. k \in Nat /\ n \in Nat BY <1>1
    <3>2. k + i \in 1..k+n /\ ~(k + i <= k) /\ (k + i) - k = i BY <3>1
    <3> QED BY <1>1, <3>2
  <2> QED BY <2>1, <2>2
<1>6. \A i \in 1..k+n : i \in 1..k \/ \E j \in 1..n : i = k + j
  <2>1. k \in Nat /\ n \in Nat BY <1>1
  <2>2. ASSUME NEW i \in 1..k+n, ~(i \in 1..k) PROVE \E j \in 1..n : i = k + j
    <3>1. i - k \in 1..n /\ i = k + (i - k) BY <2>1, <2>2
    <3> QED BY <3>1
  <2> QED BY <2>2
<1>7. ASSUME NEW i \in 1..k+n PROVE a <= x[i] /\ x[i] < b
  <2>1. CASE i \in 1..k
    <3>1. x[i] = u[i] /\ a <= u[i] /\ u[i] < m BY <1>1, <1>5, <2>1
    <3>2. u[i] \in Nat BY <1>3, <2>1
    <3>3. u[i] < b
      <4> DEFINE e == u[i]
      <4>1. e \in Nat /\ e < m BY <3>1, <3>2
      <4> HIDE DEF e
      <4>2. e < b BY <4>1
      <4> QED BY <4>2 DEF e
    <3> QED BY <3>1, <3>3
  <2>2. CASE \E j \in 1..n : i = k + j
    <3>1. PICK j \in 1..n : i = k + j BY <2>2
    <3>2. x[i] = v[j] /\ m <= v[j] /\ v[j] < b BY <1>1, <1>5, <3>1
    <3>3. v[j] \in Nat BY <1>4
    <3>4. a <= v[j]
      <4> DEFINE e == v[j]
      <4>1. e \in Nat /\ m <= e BY <3>2, <3>3
      <4> HIDE DEF e
      <4>2. a <= e BY <4>1
      <4> QED BY <4>2 DEF e
    <3> QED BY <3>2, <3>4
  <2> QED BY <1>6, <2>1, <2>2
<1>8. ASSUME NEW i \in 1..k+n, NEW j \in 1..k+n, i < j PROVE x[i] < x[j]
  <2>0. k \in Nat /\ n \in Nat BY <1>1
  <2>1. CASE i \in 1..k /\ j \in 1..k BY <1>1, <1>5, <1>8, <2>1 DEF Rising
  <2>2. CASE i \in 1..k /\ \E f \in 1..n : j = k + f
    <3>1. PICK f \in 1..n : j = k + f BY <2>2
    <3>2. x[i] = u[i] /\ u[i] < m /\ x[j] = v[f] /\ m <= v[f] BY <1>1, <1>5, <2>2, <3>1
    <3>3. u[i] \in Nat /\ v[f] \in Nat BY <1>3, <1>4, <2>2
    <3> DEFINE e == u[i]  g == v[f]
    <3>4. e \in Nat /\ g \in Nat /\ e < m /\ m <= g /\ x[i] = e /\ x[j] = g BY <3>2, <3>3
    <3> HIDE DEF e, g
    <3>5. e < g BY <3>4
    <3> QED BY <3>4, <3>5
  <2>3. CASE (\E f \in 1..n : i = k + f) /\ j \in 1..k BY <1>8, <2>0, <2>3
  <2>4. CASE (\E f \in 1..n : i = k + f) /\ \E f \in 1..n : j = k + f
    <3>1. PICK f \in 1..n : i = k + f BY <2>4
    <3>2. PICK g \in 1..n : j = k + g BY <2>4
    <3>3. f < g BY <1>8, <2>0, <3>1, <3>2
    <3>4. v[f] < v[g] BY <1>1, <3>3 DEF Rising
    <3> QED BY <1>5, <3>1, <3>2, <3>4
  <2> QED BY <1>6, <2>1, <2>2, <2>3, <2>4
<1>9. Rising(x) BY <1>2, <1>8 DEF Rising
<1> QED BY <1>1, <1>2, <1>5, <1>7, <1>9 DEF x

LEMMA SpanFacts ==
  ASSUME NEW a \in Nat, a >= 1, NEW b \in Nat, a <= b + 1
  PROVE  /\ Span(a, b) \in Seq(a..b) /\ Span(a, b) \in Seq(Nat)
         /\ Rising(Span(a, b))
         /\ \A i \in DOMAIN Span(a, b) : a <= Span(a, b)[i] /\ Span(a, b)[i] < b + 1
         /\ Span(a, b) # <<>> => Span(a, b)[Len(Span(a, b))] = b
<1> DEFINE n == b - a + 1  s == Span(a, b)
<1>1. n \in Nat OBVIOUS
<1>2. s = [i \in 1..n |-> a + i - 1] BY DEF Span
<1>3. \A i \in 1..n : a + i - 1 \in a..b /\ a + i - 1 \in Nat OBVIOUS
<1>4. n # 0 => n \in 1..n /\ a + n - 1 = b OBVIOUS
<1>5. \A i, j \in 1..n : i < j => a + i - 1 < a + j - 1 OBVIOUS
<1> HIDE DEF n, s
<1>6. s \in Seq(a..b) /\ s \in Seq(Nat) /\ DOMAIN s = 1..n /\ Len(s) = n
      /\ \A i \in 1..n : s[i] = a + i - 1
  BY <1>1, <1>2, <1>3
<1>7. Rising(s)
  BY <1>5, <1>6 DEF Rising
<1>8. \A i \in 1..n : a <= s[i] /\ s[i] < b + 1
  <2>1. \A i \in 1..n : a <= a + i - 1 /\ a + i - 1 < b + 1 BY <1>3
  <2> QED BY <1>6, <2>1
<1>9. s # <<>> => s[Len(s)] = b
  <2>1. n = 0 => s = <<>> BY <1>6
  <2> QED BY <1>4, <1>6, <2>1
<1> QED BY <1>6, <1>7, <1>8, <1>9 DEF s

(* What is between the braces is one token, and the braces are its         *)
(* neighbours.                                                             *)
LEMMA AsmBodyGains == ASSUME Shape, AsmBody PROVE Gained
<1> DEFINE L == Len(file)  b == Brace  e == EndBrace
           l1 == LineAfter + Newlines(pos + 1, b - 1)
           l2 == l1 + Newlines(b + 1, e - 1)
           body == Span(b + 1, e - 1)
           close == IF e <= L THEN <<e>> ELSE <<>>
           t1 == Token("SYMBOL", <<b>>, l1)
           t2 == Token("ASM_INSTRUCTIONS", body, l2)
           t3 == Token("SYMBOL", close, l2)
<1>1. /\ AfterAsm /\ b <= L /\ tokens' = AsmToken \o <<t1, t2, t3>>
      /\ line' = l2 /\ state' = "START" /\ word' = <<>>
      /\ pos' = e + 1 /\ file' = file /\ finished' = finished
  BY DEF AsmBody
<1>2. /\ Reading /\ ~Plain /\ AsmToken \in Seq(GoodTokens)
      /\ Value(AsmToken) = Value(tokens) \o word
  BY <1>1, AfterAsmFacts
<1>3. L \in Nat /\ pos \in 1..L /\ file \in Seq(Chars) /\ DOMAIN file = 1..L
  BY <1>2, ReadingFacts DEF Shape
<1>4. /\ b \in pos+1..L+1 /\ l1 = LineAt(b - 1) /\ LineAt(b) = LineAt(b - 1)
      /\ e \in b+1..L+1 /\ LineAt(b) + Newlines(b + 1, e - 1) = LineAt(e - 1)
      /\ e <= L => LineAt(e) = LineAt(e - 1)
  BY <1>1, <1>2, AsmFacts
<1>5. l1 = LineAt(b) /\ l2 = LineAt(e - 1)
  <2> HIDE DEF l1
  <2> QED BY <1>4
<1>6. /\ t1.at = <<b>> /\ t2.at = body /\ t3.at = close
      /\ t1 = Token("SYMBOL", <<b>>, LineAt(b))
      /\ t2 = Token("ASM_INSTRUCTIONS", body, LineAt(e - 1))
      /\ t3 = Token("SYMBOL", close, LineAt(e - 1))
  <2> HIDE DEF l1, l2, body, close
  <2> QED BY <1>5 DEF Token
<1>7. b <= L BY <1>1
<1>8. body = Span(b + 1, e - 1) /\ close = IF e <= L THEN <<e>> ELSE <<>> OBVIOUS
<1> HIDE DEF L, b, e, l1, l2, t1, t2, t3, body, close
<1>9. /\ b \in 1..L /\ e - 1 \in 1..L /\ b \in 0..L /\ e - 1 \in 0..L /\ e \in Nat /\ b \in Nat
      /\ pos \in Nat /\ pos <= b /\ b + 1 <= e /\ (e <= L => e \in 1..L /\ e \in 0..L)
      /\ e + 1 \in 1..L+2 /\ pos <= e + 1 /\ e - 1 \in Nat /\ b + 1 \in Nat /\ b + 1 >= 1
      /\ b + 1 <= (e - 1) + 1 /\ (e - 1) + 1 = e /\ (b + 1)..(e - 1) \subseteq 1..L
  <2>1. L \in Nat /\ pos \in 1..L /\ b \in pos+1..L+1 /\ e \in b+1..L+1 BY <1>3, <1>4
  <2>2. b \in 1..L BY <1>7, <2>1
  <2> QED BY <2>1, <2>2
<1>10. /\ body \in Seq(1..L) /\ body \in Seq(Nat) /\ Rising(body)
       /\ \A i \in DOMAIN body : b + 1 <= body[i] /\ body[i] < e
       /\ body # <<>> => body[Len(body)] = e - 1
  <2>1. /\ body \in Seq((b + 1)..(e - 1)) /\ body \in Seq(Nat) /\ Rising(body)
        /\ \A i \in DOMAIN body : b + 1 <= body[i] /\ body[i] < (e - 1) + 1
        /\ body # <<>> => body[Len(body)] = e - 1
    BY <1>8, <1>9, SpanFacts
  <2>2. body \in Seq(1..L) BY <1>9, <2>1, SeqMonotonic
  <2> QED BY <1>9, <2>1, <2>2
<1>11. /\ <<b>> \in Seq(1..L) /\ <<b>> # <<>> /\ <<b>>[Len(<<b>>)] = b
       /\ <<b>> \in Seq(Nat) /\ Rising(<<b>>)
       /\ \A i \in DOMAIN <<b>> : pos <= <<b>>[i] /\ <<b>>[i] < b + 1
  <2>1. DOMAIN <<b>> = {1} /\ <<b>>[1] = b /\ Len(<<b>>) = 1 OBVIOUS
  <2>2. Rising(<<b>>) BY <2>1 DEF Rising
  <2>3. pos <= b /\ b < b + 1 BY <1>9
  <2>4. <<b>> \in Seq(1..L) /\ <<b>> \in Seq(Nat) /\ <<b>> # <<>> BY <1>9
  <2>5. \A i \in DOMAIN <<b>> : pos <= <<b>>[i] /\ <<b>>[i] < b + 1 BY <2>1, <2>3
  <2> QED BY <2>1, <2>2, <2>4, <2>5
<1>12. /\ close \in Seq(1..L) /\ close \in Seq(Nat) /\ Rising(close)
       /\ close # <<>> => LineAt(e - 1) = LineAt(close[Len(close)])
       /\ \A i \in DOMAIN close : e <= close[i] /\ close[i] < e + 1
  <2>1. CASE e <= L
    <3>1. close = <<e>> BY <1>8, <2>1
    <3>2. DOMAIN close = {1} /\ close[1] = e /\ Len(close) = 1 BY <3>1
    <3>3. close \in Seq(1..L) /\ close \in Seq(Nat) BY <1>9, <2>1, <3>1
    <3>4. Rising(close) BY <3>2 DEF Rising
    <3>5. e <= e /\ e < e + 1 BY <1>9
    <3> QED BY <1>4, <2>1, <3>2, <3>3, <3>4, <3>5
  <2>2. CASE ~(e <= L)
    <3>1. close = <<>> BY <1>8, <2>2
    <3>2. DOMAIN close = {} /\ close \in Seq(1..L) /\ close \in Seq(Nat) BY <3>1
    <3> QED BY <3>1, <3>2 DEF Rising
  <2> QED BY <2>1, <2>2
<1>13. t1 \in GoodTokens /\ t2 \in GoodTokens /\ t3 \in GoodTokens
  <2>1. t1 \in GoodTokens BY <1>3, <1>6, <1>9, <1>11, OtherTokenGood DEF L
  <2>2. t2 \in GoodTokens
    <3>1. body # <<>> => LineAt(e - 1) = LineAt(body[Len(body)]) BY <1>10
    <3> QED BY <1>3, <1>6, <1>9, <1>10, <3>1, OtherTokenGood DEF L
  <2>3. t3 \in GoodTokens BY <1>3, <1>6, <1>9, <1>12, OtherTokenGood DEF L
  <2> QED BY <2>1, <2>2, <2>3
<1>14. tokens' \in Seq(GoodTokens) /\ Value(tokens') = Value(AsmToken) \o (<<b>> \o (body \o close))
  <2>1. /\ AsmToken \o <<t1, t2, t3>> \in Seq(GoodTokens)
        /\ Value(AsmToken \o <<t1, t2, t3>>) = Value(AsmToken) \o (t1.at \o (t2.at \o t3.at))
    BY <1>2, <1>3, <1>13, ThreeMore
  <2> QED BY ONLY <1>1, <1>6, <2>1
<1>15. line' = LineOf(pos')
  <2>1. LineOf(e + 1) = LineAt(IF e + 1 <= L + 1 THEN (e + 1) - 1 ELSE L) BY DEF LineOf, L
  <2>2. (IF e + 1 <= L + 1 THEN (e + 1) - 1 ELSE L) = IF e <= L THEN e ELSE e - 1
    <3>1. L \in Nat /\ e \in b+1..L+1 BY <1>3, <1>4
    <3> QED BY <1>9, <3>1
  <2> QED BY ONLY <1>1, <1>4, <1>5, <2>1, <2>2
<1>16. Shape'
  <2>1. WordAt(state', word', pos') BY <1>1 DEF WordAt
  <2>2. finished' \in BOOLEAN /\ word' \in Seq(DOMAIN file) BY <1>1 DEF Shape
  <2>3. pos' \in 1..Len(file)+2 BY <1>1, <1>9 DEF L
  <2>4. state' \in {"START", "TEXT", "NUMBER"} BY <1>1
  <2> QED BY <1>1, <1>14, <1>15, <2>1, <2>2, <2>3, <2>4, ShapeKept
<1> DEFINE u == body \o close  v == <<b>> \o u
<1>17. /\ u \in Seq(Nat) /\ Rising(u)
       /\ \A i \in DOMAIN u : b + 1 <= u[i] /\ u[i] < e + 1
       /\ u \in Seq(1..L)
  <2>1. e + 1 \in Nat /\ e <= e + 1 BY <1>9
  <2>2. u \in Seq(1..L) BY <1>10, <1>12, ConcatProperties
  <2>3. /\ body \in Seq(Nat) /\ close \in Seq(Nat) /\ Rising(body) /\ Rising(close)
        /\ \A i \in DOMAIN body : b + 1 <= body[i] /\ body[i] < e
        /\ \A i \in DOMAIN close : e <= close[i] /\ close[i] < e + 1
        /\ b + 1 \in Nat /\ e \in Nat /\ b + 1 <= e
    BY <1>9, <1>10, <1>12
  <2>4. /\ u \in Seq(Nat) /\ Rising(u)
        /\ \A i \in DOMAIN u : b + 1 <= u[i] /\ u[i] < e + 1
    BY ONLY <2>1, <2>3, RisingConcat
  <2> QED BY <2>2, <2>4
<1> HIDE DEF u
<1>18. /\ Rising(v) /\ \A i \in DOMAIN v : pos <= v[i] /\ v[i] < e + 1
       /\ v \in Seq(1..L)
  <2>1. e + 1 \in Nat /\ b + 1 <= e + 1 /\ pos <= b + 1 BY <1>9
  <2> DEFINE w == <<b>>
  <2>2. /\ w \in Seq(1..L) /\ w \in Seq(Nat) /\ Rising(w)
        /\ \A i \in DOMAIN w : pos <= w[i] /\ w[i] < b + 1
    BY <1>11
  <2>3. v = w \o u OBVIOUS
  <2> HIDE DEF w, v
  <2>4. v \in Seq(1..L) BY <1>17, <2>2, <2>3, ConcatProperties
  <2> QED BY <1>9, <1>17, <2>1, <2>2, <2>3, <2>4, RisingConcat
<1> HIDE DEF v
<1>19. Value(tokens') \o word' = (Value(tokens) \o word) \o v
  <2>1. Value(tokens') \in Seq(DOMAIN file) BY <1>3, <1>14, ValueOfTokens
  <2>2. Value(tokens') \o <<>> = Value(tokens') BY <2>1, ConcatEmptySeq
  <2> QED BY ONLY <1>1, <1>2, <1>14, <2>2 DEF u, v
<1>20. Gains(v)
  <2>1. pos <= pos' BY <1>1, <1>9
  <2>2. \A i \in DOMAIN v : pos <= v[i] /\ v[i] < pos' BY <1>1, <1>18
  <2> QED BY <1>2, <1>18, <1>19, <2>1, <2>2 DEF Gains
<1> QED BY <1>1, <1>3, <1>16, <1>18, <1>20 DEF Gained

-----------------------------------------------------------------------------
(***************************************************************************)
(* The invariant, and what it gives.                                       *)
(***************************************************************************)

(* Every turn of the loop takes characters further on.                     *)
LEMMA StepGains ==
  ASSUME Shape, Next
  PROVE  Gained
BY StartSpaceGains, StartSymbolGains, StartWordGains, ContinueWordGains, EndWordSymbolGains,
   EndWordSpaceGains, EndWordWordGains, DoubleColonGains, SingleColonGains, AsmBodyGains,
   AsmNoBodyGains, AsmUninitialisedGains, EndOfFileGains DEF Next

(* Whatever is taken lies behind the position, so what follows comes after *)
(* it.                                                                     *)
LEMMA TakenMore ==
  ASSUME NEW u \in Seq(DOMAIN file), NEW v \in Seq(DOMAIN file), NEW p \in Nat, NEW q \in Nat,
         p <= q, file \in Seq(Chars), Taken(u, p),
         Rising(v), \A i \in DOMAIN v : p <= v[i] /\ v[i] < q,
         Plain => \A k \in 1..Len(file) :
                    p <= k /\ k < q /\ file[k] \notin Spaces => \E i \in DOMAIN v : v[i] = k
  PROVE  Taken(u \o v, q)
<1> DEFINE x == u \o v
<1>1. u \in Seq(Nat) /\ v \in Seq(Nat)
  <2>1. DOMAIN file \subseteq Nat OBVIOUS
  <2> QED BY <2>1, SeqMonotonic
<1>2. \A i \in DOMAIN u : 0 <= u[i] /\ u[i] < p
  <2>1. \A i \in DOMAIN u : u[i] \in Nat BY <1>1
  <2>2. \A k \in Nat : 0 <= k OBVIOUS
  <2> QED BY <2>1, <2>2 DEF Taken
<1>3. Rising(u) /\ 0 \in Nat /\ 0 <= p BY DEF Taken
<1>4. /\ Rising(x) /\ \A i \in DOMAIN x : 0 <= x[i] /\ x[i] < q
      /\ \A i \in DOMAIN u : \E j \in DOMAIN x : x[j] = u[i]
      /\ \A i \in DOMAIN v : \E j \in DOMAIN x : x[j] = v[i]
  BY <1>1, <1>2, <1>3, RisingConcat
<1> HIDE DEF x
<1>5. ASSUME Plain, NEW k \in 1..Len(file), k < q, file[k] \notin Spaces
      PROVE  \E j \in DOMAIN x : x[j] = k
  <2>1. CASE k < p
    <3>1. PICK i \in DOMAIN u : u[i] = k BY <1>5, <2>1 DEF Taken
    <3> QED BY <1>4, <3>1
  <2>2. CASE p <= k
    <3>1. PICK i \in DOMAIN v : v[i] = k BY <1>5, <2>2
    <3> QED BY <1>4, <3>1
  <2>3. k \in Nat OBVIOUS
  <2> QED BY <2>1, <2>2, <2>3
<1>6. Taken(x, q)
  BY <1>4, <1>5 DEF Taken
<1> QED BY <1>6 DEF x

LEMMA UsedTyped ==
  ASSUME Shape
  PROVE  Used = Value(tokens) \o word /\ Used \in Seq(DOMAIN file)
<1>1. Value(tokens) \in Seq(DOMAIN file) BY ValueOfTokens DEF Shape
<1>2. word \in Seq(DOMAIN file) BY DEF Shape
<1> QED BY <1>1, <1>2, UsedIs, ConcatProperties

LEMMA UsedNext == Used' = Value(tokens') \o word'
<1>1. (Used = Value(tokens) \o word)' BY UsedIs, PTL
<1> QED BY <1>1 DEF Value, ValuesOf

LEMMA InvStart == Init => LexInv
<1> SUFFICES ASSUME Init PROVE LexInv
  OBVIOUS
<1>1. /\ pos = 1 /\ state = "START" /\ word = <<>> /\ tokens = <<>> /\ line = 1
      /\ finished = FALSE
  BY DEF Init
<1>2. file \in Seq(Chars)
  <2>1. PICK n \in 0..MaxLength : file \in [1..n -> Chars] BY DEF Init
  <2>2. n \in Nat BY LexerAssumption
  <2> QED BY <2>1, <2>2
<1>3. Len(file) \in Nat BY <1>2
<1>4. line = LineOf(pos)
  <2>1. LineOf(1) = LineAt(0)
    <3>1. LineOf(1) = LineAt(IF 1 <= Len(file) + 1 THEN 1 - 1 ELSE Len(file)) BY DEF LineOf
    <3>2. (IF 1 <= Len(file) + 1 THEN 1 - 1 ELSE Len(file)) = 0 BY <1>3
    <3> QED BY ONLY <3>1, <3>2
  <2>2. LineAt(0) = 1
    <3>1. \A p \in 1..0 : file[p] # "\n" OBVIOUS
    <3>2. Newlines(1, 0) = 0 BY <3>1, NewlinesFacts
    <3> QED BY <3>2 DEF LineAt
  <2> QED BY <1>1, <2>1, <2>2
<1>5. WordAt(state, word, pos) BY <1>1 DEF WordAt
<1>6. Shape
  <2>1. pos \in 1..Len(file)+2 BY <1>1, <1>3
  <2>2. word \in Seq(DOMAIN file) /\ tokens \in Seq(GoodTokens) BY <1>1, EmptySeq
  <2>3. state \in {"START", "TEXT", "NUMBER"} /\ finished \in BOOLEAN BY <1>1
  <2> QED BY <1>2, <1>4, <1>5, <2>1, <2>2, <2>3 DEF Shape
<1>7. Used = <<>>
  <2>1. <<>> \o <<>> = <<>> BY ConcatEmptySeq
  <2> QED BY <1>1, <2>1, UsedIs, NoValue
<1>8. Taken(<<>>, 1)
  <2>1. Rising(<<>>) BY DEF Rising
  <2>2. \A q \in 1..Len(file) : ~(q < 1) BY <1>3
  <2> QED BY <2>1, <2>2 DEF Taken
<1> QED BY <1>1, <1>6, <1>7, <1>8 DEF LexInv

LEMMA InvStep == LexInv /\ [Next]_vars => LexInv'
<1> SUFFICES ASSUME LexInv, [Next]_vars PROVE LexInv'
  OBVIOUS
<1>1. Shape /\ Taken(Used, pos) BY DEF LexInv
<1>2. CASE Next
  <2>1. Gained BY <1>1, <1>2, StepGains
  <2>2. PICK v \in Seq(DOMAIN file) : Gains(v) BY <2>1 DEF Gained
  <2>3. Shape' /\ file' = file BY <2>1 DEF Gained
  <2>4. Used = Value(tokens) \o word /\ Used \in Seq(DOMAIN file) BY <1>1, UsedTyped
  <2>5. Used' = Used \o v BY <2>2, <2>4, UsedNext DEF Gains
  <2>6. pos \in Nat /\ pos' \in Nat /\ file \in Seq(Chars)
    <3>1. pos \in 1..Len(file)+2 /\ file \in Seq(Chars) BY <1>1 DEF Shape
    <3>2. pos' \in 1..Len(file')+2 BY <2>3 DEF Shape
    <3> QED BY <3>1, <3>2
  <2>7. /\ pos <= pos' /\ Rising(v) /\ \A i \in DOMAIN v : pos <= v[i] /\ v[i] < pos'
        /\ Plain => \A k \in 1..Len(file) :
             pos <= k /\ k < pos' /\ file[k] \notin Spaces => \E i \in DOMAIN v : v[i] = k
    BY <2>2 DEF Gains
  <2> DEFINE u == Used
  <2>8. u \in Seq(DOMAIN file) /\ Taken(u, pos) BY <1>1, <2>4
  <2> HIDE DEF u
  <2>9. Taken(u \o v, pos') BY <2>6, <2>7, <2>8, TakenMore
  <2>10. Taken(Used, pos)'
    <3>1. Taken(Used', pos') BY <2>5, <2>9 DEF u
    <3> QED BY <2>3, <3>1 DEF Taken, Plain, Rising
  <2> QED BY <2>3, <2>10 DEF LexInv
<1>3. CASE UNCHANGED vars
  <2>1. /\ file' = file /\ pos' = pos /\ state' = state /\ word' = word /\ tokens' = tokens
        /\ line' = line /\ finished' = finished
    BY <1>3 DEF vars
  <2>2. Shape'
    <3>1. /\ pos' \in 1..Len(file)+2 /\ state' \in {"START", "TEXT", "NUMBER"}
          /\ word' \in Seq(DOMAIN file) /\ tokens' \in Seq(GoodTokens)
          /\ finished' \in BOOLEAN /\ line' = LineOf(pos') /\ WordAt(state', word', pos')
      BY <1>1, <2>1 DEF Shape
    <3> QED BY <1>1, <2>1, <3>1, ShapeKept
  <2>3. Used' = Used BY <2>1, UsedIs, UsedNext
  <2>4. Taken(Used, pos)'
    <3>1. Taken(Used', pos') BY <1>1, <2>1, <2>3
    <3> QED BY <2>1, <3>1 DEF Taken, Plain, Rising
  <2> QED BY <2>2, <2>4 DEF LexInv
<1> QED BY <1>2, <1>3

(* The invariant of the loop: where the position, the line counter, the    *)
(* word and the characters taken stand to one another.                     *)
THEOREM PositionAgrees == Spec => []LexInv
BY InvStart, InvStep, PTL DEF Spec

(* Tokens carry words of the file and one of its lines.                    *)
THEOREM TypeCorrect == Spec => []TypeOK
<1>1. LexInv => TypeOK
  <2> SUFFICES ASSUME LexInv PROVE TypeOK
    OBVIOUS
  <2>1. Shape BY DEF LexInv
  <2>2. Len(file) \in Nat /\ pos \in 1..Len(file)+2 /\ file \in Seq(Chars) /\ line = LineOf(pos)
    BY <2>1 DEF Shape
  <2>3. line \in 1..Len(file)+1
    <3> DEFINE k == IF pos <= Len(file) + 1 THEN pos - 1 ELSE Len(file)
    <3>1. k \in 0..Len(file) BY <2>2
    <3>2. line = LineAt(k) BY <2>2 DEF LineOf
    <3> HIDE DEF k
    <3> QED BY <2>2, <3>1, <3>2, LineFacts
  <2>4. tokens \in Seq([type : TokenTypes, at : Seq(DOMAIN file), line : 1..Len(file)+1])
    <3>1. GoodTokens \subseteq TypedTokens BY DEF GoodTokens
    <3>2. tokens \in Seq(GoodTokens) BY <2>1 DEF Shape
    <3>3. tokens \in Seq(TypedTokens) BY <3>1, <3>2, SeqMonotonic
    <3> QED BY <3>3 DEF TypedTokens
  <2> QED BY <2>1, <2>2, <2>3, <2>4 DEF TypeOK, Shape
<1> QED BY <1>1, PositionAgrees, PTL

(* Tokens follow the order of the file and no character is in two of them, *)
(* although the loop puts characters back: EachCharacterOnce.              *)
THEOREM NoCharacterTwice == Spec => []EachCharacterOnce
<1>1. LexInv => EachCharacterOnce
  BY DEF LexInv, Taken, Rising, EachCharacterOnce
<1> QED BY <1>1, PositionAgrees, PTL

(* Without colons and asm the loop drops nothing but spaces, however far   *)
(* it has come: OnlySpacesDropped.                                         *)
THEOREM NothingElseDropped == Spec => []OnlySpacesDropped
<1>1. LexInv => OnlySpacesDropped
  BY DEF LexInv, Taken, OnlySpacesDropped
<1> QED BY <1>1, PositionAgrees, PTL

LEMMA TokensAreGood ==
  ASSUME LexInv, NEW i \in DOMAIN tokens
  PROVE  GoodLine(tokens[i]) /\ GoodNumber(tokens[i])
<1>1. tokens \in Seq(GoodTokens) BY DEF LexInv, Shape
<1>2. tokens[i] \in GoodTokens BY <1>1
<1> QED BY <1>2 DEF GoodTokens

(* A number starts with a digit and an identifier does not, for any file   *)
(* without colons and asm: NumbersStartWithDigits.                         *)
THEOREM StateKnowsTheDigit == Spec => []NumbersStartWithDigits
<1>1. LexInv => NumbersStartWithDigits
  <2> SUFFICES ASSUME LexInv, Plain, NEW i \in DOMAIN tokens,
                      tokens[i].type \in {"INT", "FLOAT", "IDENTIFIER"}
               PROVE  file[tokens[i].at[1]] \in Digits <=> tokens[i].type # "IDENTIFIER"
    BY DEF NumbersStartWithDigits
  <2>1. GoodNumber(tokens[i]) BY TokensAreGood
  <2> QED BY <2>1 DEF GoodNumber
<1> QED BY <1>1, PositionAgrees, PTL

(* A token's line is the one it ends on, or the next if a newline ends it: *)
(* LinesRight, with the text of an asm block and dropped colons as well.   *)
THEOREM LinesAreCounted == Spec => []LinesRight
<1>1. LexInv => LinesRight
  <2> SUFFICES ASSUME LexInv PROVE LinesRight
    OBVIOUS
  <2>1. \A i \in DOMAIN tokens : GoodLine(tokens[i]) BY TokensAreGood
  <2> QED BY <2>1 DEF LinesRight, GoodLine, LineAt
<1> QED BY <1>1, PositionAgrees, PTL

=============================================================================
