----------------------- MODULE ExpressionParserProofs -----------------------
(***************************************************************************)
(* What is proved of the expression parser, for expressions of any length  *)
(* over any set of operators.                                              *)
(***************************************************************************)
EXTENDS ExpressionParser, FiniteSetTheorems, SequenceTheorems, WellFoundedInduction, TLAPS

-----------------------------------------------------------------------------
(***************************************************************************)
(* Tokens.                                                                 *)
(***************************************************************************)

Operands == {"x", ")"}                      (* the last token of an operand *)
Starts   == {"x"} \cup Prefixes \cup Openings   (* and the first            *)

(* Only operators have a precedence, and none is above that of prefix      *)
(* operators.                                                              *)
LEMMA Precedences ==
  /\ \A s \in AllOperators : Precedence(s) \in 1..PREFIX
  /\ \A s : s \notin AllOperators => Precedence(s) = 0
  /\ \A s : Precedence(s) \in 0..PREFIX
<1>1. DOMAIN Level = 1..12 BY DEF Level
<1>2. ASSUME NEW s \in AllOperators PROVE Precedence(s) \in 1..PREFIX
  <2>1. \E i \in DOMAIN Level : s \in Level[i] BY DEF AllOperators
  <2>2. (CHOOSE i \in DOMAIN Level : s \in Level[i]) \in DOMAIN Level
    <3> HIDE DEF Level
    <3> QED BY <2>1
  <2> QED BY <1>1, <1>2, <2>2 DEF Precedence, PREFIX
<1>3. \A s : s \notin AllOperators => Precedence(s) = 0 BY DEF Precedence, LOWEST
<1> QED BY <1>2, <1>3 DEF PREFIX

(* An operator is none of the other tokens.                                *)
LEMMA AllApart ==
  AllOperators \cap (Openings \cup {"x", ")", ",", "end"}) = {}
<1> DEFINE all == {"||", "&&", "^^", "|", "^", "&", "==", "!=", "<", "<=", ">", ">=", "<<", ">>",
                   "+", "-", "*", "/", "%", "!", "~"}
<1>1. ASSUME NEW i \in 1..12 PROVE Level[i] \subseteq all
  <2>1. CASE i = 1 BY <2>1 DEF Level
  <2>2. CASE i = 2 BY <2>2 DEF Level
  <2>3. CASE i = 3 BY <2>3 DEF Level
  <2>4. CASE i = 4 BY <2>4 DEF Level
  <2>5. CASE i = 5 BY <2>5 DEF Level
  <2>6. CASE i = 6 BY <2>6 DEF Level
  <2>7. CASE i = 7 BY <2>7 DEF Level
  <2>8. CASE i = 8 BY <2>8 DEF Level
  <2>9. CASE i = 9 BY <2>9 DEF Level
  <2>10. CASE i = 10 BY <2>10 DEF Level
  <2>11. CASE i = 11 BY <2>11 DEF Level
  <2>12. CASE i = 12 BY <2>12 DEF Level
  <2> QED BY <2>1, <2>2, <2>3, <2>4, <2>5, <2>6, <2>7, <2>8, <2>9, <2>10, <2>11, <2>12
<1>2. all \cap (Openings \cup {"x", ")", ",", "end"}) = {}
  BY DEF Openings
<1>3. DOMAIN Level = 1..12 BY DEF Level
<1>4. AllOperators \cap (Openings \cup {"x", ")", ",", "end"}) = {}
  <2> HIDE DEF all
  <2> QED BY <1>1, <1>2, <1>3 DEF AllOperators
<1> QED BY <1>4

LEMMA OperatorsApart ==
  \A s \in Operators : s \in AllOperators /\ s \notin Openings \cup {"x", ")", ",", "end"}
BY AllApart, ParserAssumption

-----------------------------------------------------------------------------
(***************************************************************************)
(* Parentheses.  The operators of the specification, of any text t.        *)
(***************************************************************************)
OpensIn(t, a, p)  == {i \in a..p-1 : t[i] \in Openings}
ClosesIn(t, a, p) == {i \in a..p-1 : t[i] = ")"}
DepthOf(t, a, p)  == Cardinality(OpensIn(t, a, p)) - Cardinality(ClosesIn(t, a, p))

LEMMA DepthIs == \A a, p : depth(a, p) = DepthOf(tokens, a, p)
BY DEF depth, DepthOf, OpensIn, ClosesIn

(* How many of a text are in a first part and in the rest.                 *)
LEMMA SplitCount ==
  ASSUME NEW a \in Nat, NEW p \in Nat, NEW q \in Nat, a <= p, p <= q, NEW S, S \subseteq a..q-1
  PROVE  /\ Cardinality(S) \in Nat
         /\ Cardinality(S) = Cardinality(S \cap (a..p-1)) + Cardinality(S \cap (p..q-1))
         /\ Cardinality(S \cap (a..p-1)) \in Nat /\ Cardinality(S \cap (p..q-1)) \in Nat
<1> DEFINE L == S \cap (a..p-1)  R == S \cap (p..q-1)
<1>1. IsFiniteSet(a..q-1) BY FS_Interval
<1>2. IsFiniteSet(S) BY <1>1, FS_Subset
<1>3. L \subseteq S /\ R \subseteq S OBVIOUS
<1>4. IsFiniteSet(L) /\ IsFiniteSet(R) BY <1>2, <1>3, FS_Subset
<1>5. L \cap R = {} OBVIOUS
<1>6. S = L \cup R
  <2>1. ASSUME NEW s \in S PROVE s \in L \cup R
    <3>1. s \in a..q-1 OBVIOUS
    <3>2. s \in a..p-1 \/ s \in p..q-1 BY <3>1
    <3> QED BY <3>2
  <2> QED BY <2>1, <1>3
<1> HIDE DEF L, R
<1>7. Cardinality(L \cap R) = 0 BY <1>5, FS_EmptySet
<1>8. Cardinality(L \cup R) = Cardinality(L) + Cardinality(R) - Cardinality(L \cap R)
  BY <1>4, FS_Union
<1>9. Cardinality(L) \in Nat /\ Cardinality(R) \in Nat /\ Cardinality(S) \in Nat
  BY <1>2, <1>4, FS_CardinalityType
<1>10. Cardinality(S) = Cardinality(L) + Cardinality(R) BY <1>6, <1>7, <1>8, <1>9
<1> QED BY <1>9, <1>10 DEF L, R

(* Depths add up.                                                          *)
LEMMA DepthSum ==
  ASSUME NEW t, NEW a \in Nat, NEW p \in Nat, NEW q \in Nat, a <= p, p <= q
  PROVE  /\ DepthOf(t, a, q) = DepthOf(t, a, p) + DepthOf(t, p, q)
         /\ DepthOf(t, a, q) \in Int /\ DepthOf(t, a, p) \in Int /\ DepthOf(t, p, q) \in Int
<1>1. /\ OpensIn(t, a, q) \cap (a..p-1) = OpensIn(t, a, p)
      /\ OpensIn(t, a, q) \cap (p..q-1) = OpensIn(t, p, q)
      /\ OpensIn(t, a, q) \subseteq a..q-1
  BY DEF OpensIn
<1>2. /\ ClosesIn(t, a, q) \cap (a..p-1) = ClosesIn(t, a, p)
      /\ ClosesIn(t, a, q) \cap (p..q-1) = ClosesIn(t, p, q)
      /\ ClosesIn(t, a, q) \subseteq a..q-1
  BY DEF ClosesIn
<1> DEFINE o == Cardinality(OpensIn(t, a, q))  ol == Cardinality(OpensIn(t, a, p))
           or == Cardinality(OpensIn(t, p, q))
           c == Cardinality(ClosesIn(t, a, q)) cl == Cardinality(ClosesIn(t, a, p))
           cr == Cardinality(ClosesIn(t, p, q))
<1>3. o \in Nat /\ ol \in Nat /\ or \in Nat /\ o = ol + or
  <2> DEFINE S == OpensIn(t, a, q)
  <2>1. S \subseteq a..q-1 BY <1>1
  <2> HIDE DEF S
  <2>2. /\ Cardinality(S) \in Nat
        /\ Cardinality(S) = Cardinality(S \cap (a..p-1)) + Cardinality(S \cap (p..q-1))
        /\ Cardinality(S \cap (a..p-1)) \in Nat /\ Cardinality(S \cap (p..q-1)) \in Nat
    BY <2>1, SplitCount
  <2> QED BY <1>1, <2>2, Zenon DEF S
<1>4. c \in Nat /\ cl \in Nat /\ cr \in Nat /\ c = cl + cr
  <2> DEFINE S == ClosesIn(t, a, q)
  <2>1. S \subseteq a..q-1 BY <1>2
  <2> HIDE DEF S
  <2>2. /\ Cardinality(S) \in Nat
        /\ Cardinality(S) = Cardinality(S \cap (a..p-1)) + Cardinality(S \cap (p..q-1))
        /\ Cardinality(S \cap (a..p-1)) \in Nat /\ Cardinality(S \cap (p..q-1)) \in Nat
    BY <2>1, SplitCount
  <2> QED BY <1>2, <2>2, Zenon DEF S
<1>5. DepthOf(t, a, q) = o - c /\ DepthOf(t, a, p) = ol - cl /\ DepthOf(t, p, q) = or - cr
  BY DEF DepthOf
<1> HIDE DEF o, ol, or, c, cl, cr
<1> QED BY <1>3, <1>4, <1>5

(* The depth after no and after one token.                                 *)
LEMMA DepthOne ==
  ASSUME NEW t, NEW p \in Nat
  PROVE  /\ DepthOf(t, p, p) = 0
         /\ t[p] \in Openings => DepthOf(t, p, p + 1) = 1
         /\ t[p] = ")" => DepthOf(t, p, p + 1) = -1
         /\ t[p] \notin Openings \cup {")"} => DepthOf(t, p, p + 1) = 0
<1>1. p..p-1 = {} /\ p..(p+1)-1 = {p} OBVIOUS
<1>2. Cardinality({}) = 0 /\ Cardinality({p}) = 1
  BY FS_EmptySet, FS_Singleton
<1>3. OpensIn(t, p, p) = {} /\ ClosesIn(t, p, p) = {} BY <1>1 DEF OpensIn, ClosesIn
<1>4. /\ OpensIn(t, p, p + 1) = IF t[p] \in Openings THEN {p} ELSE {}
      /\ ClosesIn(t, p, p + 1) = IF t[p] = ")" THEN {p} ELSE {}
  BY <1>1 DEF OpensIn, ClosesIn
<1>5. ")" \notin Openings BY DEF Openings
<1> QED BY <1>2, <1>3, <1>4, <1>5 DEF DepthOf

LEMMA DepthRest ==
  ASSUME NEW t, NEW a \in Nat, NEW b \in Nat
  PROVE  \A q \in a+1..b : /\ DepthOf(t, a, q) = DepthOf(t, a, a + 1) + DepthOf(t, a + 1, q)
                          /\ DepthOf(t, a + 1, q) \in Int
<1> SUFFICES ASSUME NEW q \in a+1..b
             PROVE  /\ DepthOf(t, a, q) = DepthOf(t, a, a + 1) + DepthOf(t, a + 1, q)
                    /\ DepthOf(t, a + 1, q) \in Int
  OBVIOUS
<1>1. a + 1 \in Nat /\ q \in Nat /\ a <= a + 1 /\ a + 1 <= q OBVIOUS
<1> QED BY <1>1, DepthSum

LEMMA DepthNext ==
  ASSUME NEW t, NEW a \in Nat, NEW p \in Nat, a <= p
  PROVE  /\ DepthOf(t, a, p) \in Int
         /\ t[p] \in Openings => DepthOf(t, a, p + 1) = DepthOf(t, a, p) + 1
         /\ t[p] = ")" => DepthOf(t, a, p + 1) = DepthOf(t, a, p) - 1
         /\ t[p] \notin Openings \cup {")"} => DepthOf(t, a, p + 1) = DepthOf(t, a, p)
<1>1. p + 1 \in Nat /\ p <= p + 1 OBVIOUS
<1>2. /\ DepthOf(t, a, p + 1) = DepthOf(t, a, p) + DepthOf(t, p, p + 1)
      /\ DepthOf(t, a, p) \in Int
  BY <1>1, DepthSum
<1> QED BY <1>2, DepthOne

(* The depth does not depend on what follows.                              *)
LEMMA DepthStays ==
  ASSUME NEW t, NEW u, NEW a, NEW p, \A i \in a..p-1 : u[i] = t[i]
  PROVE  DepthOf(u, a, p) = DepthOf(t, a, p)
BY DEF DepthOf, OpensIn, ClosesIn

-----------------------------------------------------------------------------
(***************************************************************************)
(* Whole operands.                                                         *)
(***************************************************************************)

Comma(t, q) == t[q] = ","

(* The infix operators of a..b that are in no parenthesis.                 *)
Ops(t, a, b) ==
  {p \in a+1..b : t[p] \in Operators /\ t[p-1] \in Operands /\ DepthOf(t, a, p) = 0}

(* The commas between a parenthesis at a and one at b that belong to them. *)
Commas(t, a, b) == {p \in a+1..b-1 : Comma(t, p) /\ DepthOf(t, a + 1, p) = 0}

(* a..b can be an operand: what it opens it closes, and nothing else, and  *)
(* its commas are in parentheses.                                          *)
Whole(t, a, b) ==
  /\ a <= b
  /\ DepthOf(t, a, b + 1) = 0
  /\ \A q \in a..b : DepthOf(t, a, q) >= 0
  /\ \A q \in a..b : Comma(t, q) => DepthOf(t, a, q) # 0
  /\ t[a] \in Starts /\ t[b] \in Operands

(* A literal or a name.                                                    *)
LEMMA OneOperand ==
  ASSUME NEW t, NEW a \in Nat, t[a] = "x"
  PROVE  Whole(t, a, a) /\ Ops(t, a, a) = {}
<1>1. t[a] \notin Openings \cup {")"} /\ ~Comma(t, a) BY DEF Openings, Comma
<1>2. \A q \in a..a : q = a OBVIOUS
<1>3. a+1..a = {} OBVIOUS
<1>4. DepthOf(t, a, a) = 0 /\ DepthOf(t, a, a + 1) = 0 BY <1>1, DepthOne
<1>5. \A q \in a..a : DepthOf(t, a, q) >= 0 /\ ~Comma(t, q)
  <2> SUFFICES ASSUME NEW q \in a..a PROVE DepthOf(t, a, q) >= 0 /\ ~Comma(t, q) OBVIOUS
  <2>1. q = a BY <1>2
  <2> QED BY <1>1, <1>4, <2>1
<1>6. t[a] \in Starts /\ t[a] \in Operands BY DEF Starts, Operands
<1>7. Whole(t, a, a) BY <1>4, <1>5, <1>6 DEF Whole
<1>8. Ops(t, a, a) = {} BY <1>3 DEF Ops
<1> QED BY <1>7, <1>8

(* A prefix operator and its operand.                                      *)
LEMMA PrefixOperand ==
  ASSUME NEW t, NEW a \in Nat, NEW b \in Nat, t[a] \in Prefixes, Whole(t, a + 1, b)
  PROVE  Whole(t, a, b) /\ Ops(t, a, b) = Ops(t, a + 1, b)
<1>1. t[a] \notin Openings \cup Operands BY DEF Prefixes, Openings, Operands
<1>2. a + 1 \in Nat /\ b + 1 \in Nat /\ a + 1 <= b BY DEF Whole
<1>3. DepthOf(t, a, a) = 0 /\ DepthOf(t, a, a + 1) = 0
  BY <1>1, DepthOne DEF Operands
<1>4. ASSUME NEW q \in a+1..b+1 PROVE DepthOf(t, a, q) = DepthOf(t, a + 1, q)
  <2>1. q \in Nat /\ a + 1 <= q BY <1>2
  <2> QED BY <1>2, <1>3, <2>1, DepthSum
<1>5. ASSUME NEW q \in a..b
      PROVE  DepthOf(t, a, q) >= 0 /\ (Comma(t, q) => DepthOf(t, a, q) # 0)
  <2>1. CASE q = a
    <3>1. ~Comma(t, a) BY DEF Prefixes, Comma
    <3> QED BY <1>3, <2>1, <3>1
  <2>2. CASE q # a
    <3>1. q \in a+1..b /\ q \in a+1..b+1 BY <2>2
    <3> QED BY <1>4, <3>1 DEF Whole
  <2> QED BY <2>1, <2>2
<1>6. Whole(t, a, b)
  BY <1>2, <1>4, <1>5 DEF Whole, Starts
<1>7. ASSUME NEW p \in a+1..b PROVE p \in Ops(t, a, b) <=> p \in Ops(t, a + 1, b)
  <2>1. CASE p = a + 1
    <3>1. t[p - 1] \notin Operands BY <1>1, <2>1
    <3>2. p \notin Ops(t, a, b) BY <3>1 DEF Ops
    <3>3. p \notin Ops(t, a + 1, b) BY <2>1 DEF Ops
    <3> QED BY <3>2, <3>3
  <2>2. CASE p # a + 1
    <3>1. p \in (a+1)+1..b /\ p \in a+1..b+1 BY <2>2
    <3> QED BY <1>4, <3>1 DEF Ops
  <2> QED BY <2>1, <2>2
<1>8. Ops(t, a, b) \subseteq a+1..b /\ Ops(t, a + 1, b) \subseteq a+1..b
  BY DEF Ops
<1> QED BY <1>6, <1>7, <1>8

(* Two operands and the operator between them.                             *)
LEMMA InfixOperands ==
  ASSUME NEW t, NEW a \in Nat, NEW p \in Nat, NEW b \in Nat, t[p] \in Operators,
         Whole(t, a, p - 1), Whole(t, p + 1, b)
  PROVE  Whole(t, a, b) /\ Ops(t, a, b) = Ops(t, a, p - 1) \cup {p} \cup Ops(t, p + 1, b)
<1>1. t[p] \notin Openings \cup Operands \cup {","} BY OperatorsApart DEF Operands
<1>2. /\ a < p /\ p < b /\ p + 1 \in Nat /\ b + 1 \in Nat /\ p + 1 <= b /\ (p - 1) + 1 = p
      /\ a <= p - 1
  BY DEF Whole
<1>3. DepthOf(t, a, p) = 0 /\ DepthOf(t, a, p + 1) = 0
  <2>1. DepthOf(t, a, p) = 0 BY <1>2 DEF Whole
  <2>2. t[p] \notin Openings \cup {")"} BY <1>1 DEF Operands
  <2> HIDE DEF Openings
  <2>3. DepthOf(t, a, p + 1) = DepthOf(t, a, p) BY <1>2, <2>2, DepthNext
  <2> QED BY <2>1, <2>3
<1>4. ASSUME NEW q \in p+1..b+1 PROVE DepthOf(t, a, q) = DepthOf(t, p + 1, q)
  <2>1. q \in Nat /\ a <= p + 1 /\ p + 1 <= q BY <1>2
  <2> QED BY <1>2, <1>3, <2>1, DepthSum
<1>5. ASSUME NEW q \in a..b
      PROVE  DepthOf(t, a, q) >= 0 /\ (Comma(t, q) => DepthOf(t, a, q) # 0)
  <2>1. CASE q < p
    <3>1. q \in a..p-1 BY <2>1
    <3> QED BY <3>1 DEF Whole
  <2>2. CASE q = p
    <3>1. ~Comma(t, p) BY <1>1 DEF Comma
    <3> QED BY <1>3, <2>2, <3>1
  <2>3. CASE q > p
    <3>1. q \in p+1..b /\ q \in p+1..b+1 BY <2>3
    <3> QED BY <1>4, <3>1 DEF Whole
  <2> QED BY <2>1, <2>2, <2>3
<1>6. Whole(t, a, b)
  <2>1. b + 1 \in p+1..b+1 BY <1>2
  <2>2. DepthOf(t, a, b + 1) = 0 BY <1>4, <2>1 DEF Whole
  <2> QED BY <1>2, <1>5, <2>2 DEF Whole
<1> DEFINE both == Ops(t, a, p - 1) \cup {p} \cup Ops(t, p + 1, b)
<1>7. ASSUME NEW q \in a+1..b PROVE q \in Ops(t, a, b) <=> q \in both
  <2>1. CASE q < p
    <3>1. q \in a+1..p-1 /\ ~(q \in (p+1)+1..b) /\ q # p BY <2>1
    <3>2. q \notin Ops(t, p + 1, b) BY <3>1 DEF Ops
    <3>3. q \in Ops(t, a, b) <=> q \in Ops(t, a, p - 1) BY <3>1 DEF Ops
    <3> QED BY <3>1, <3>2, <3>3
  <2>2. CASE q = p
    <3>1. t[q - 1] \in Operands BY <2>2 DEF Whole
    <3>2. q \in Ops(t, a, b) BY <1>3, <2>2, <3>1 DEF Ops
    <3> QED BY <2>2, <3>2
  <2>3. CASE q = p + 1
    <3>0. q - 1 = p BY <2>3
    <3>1. t[q - 1] \notin Operands
      <4>1. t[p] \notin Operands BY <1>1
      <4> QED BY <3>0, <4>1, Zenon
    <3>2. q \notin Ops(t, a, b) BY <3>1 DEF Ops
    <3>3. q \notin Ops(t, p + 1, b) BY <2>3 DEF Ops
    <3>4. q \notin Ops(t, a, p - 1) /\ q # p BY <2>3 DEF Ops
    <3> QED BY <3>2, <3>3, <3>4
  <2>4. CASE q > p + 1
    <3>1. q \in (p+1)+1..b /\ q \in p+1..b+1 /\ ~(q \in a+1..p-1) /\ q # p BY <2>4
    <3>2. q \notin Ops(t, a, p - 1) BY <3>1 DEF Ops
    <3>3. q \in Ops(t, a, b) <=> q \in Ops(t, p + 1, b) BY <1>4, <3>1 DEF Ops
    <3> QED BY <3>1, <3>2, <3>3
  <2> QED BY <2>1, <2>2, <2>3, <2>4
<1>8. Ops(t, a, b) \subseteq a+1..b /\ both \subseteq a+1..b
  <2>1. a+1..p-1 \subseteq a+1..b /\ (p+1)+1..b \subseteq a+1..b /\ p \in a+1..b BY <1>2
  <2> QED BY <2>1 DEF Ops
<1> HIDE DEF both
<1>9. Ops(t, a, b) = both BY <1>7, <1>8
<1> QED BY <1>6, <1>9 DEF both

(* A parenthesis and the one that closes it.                               *)
LEMMA ParenthesisOperand ==
  ASSUME NEW t, NEW a \in Nat, NEW b \in Nat, a < b, t[a] \in Openings, t[b] = ")",
         DepthOf(t, a + 1, b) = 0, \A q \in a+1..b : DepthOf(t, a + 1, q) >= 0
  PROVE  Whole(t, a, b) /\ Ops(t, a, b) = {}
<1>1. a + 1 \in Nat /\ b + 1 \in Nat /\ a <= a + 1 /\ a + 1 <= b OBVIOUS
<1>2. DepthOf(t, a, a) = 0 /\ DepthOf(t, a, a + 1) = 1 BY DepthOne
<1>3. ASSUME NEW q \in a+1..b PROVE DepthOf(t, a, q) = 1 + DepthOf(t, a + 1, q) /\ DepthOf(t, a + 1, q) \in Int
  <2>2. /\ DepthOf(t, a, q) = DepthOf(t, a, a + 1) + DepthOf(t, a + 1, q)
        /\ DepthOf(t, a + 1, q) \in Int
    BY DepthRest
  <2> QED BY <1>2, <2>2
<1>4. ASSUME NEW q \in a+1..b PROVE DepthOf(t, a, q) \in Int /\ DepthOf(t, a, q) > 0
  BY <1>3
<1>5. DepthOf(t, a, b) = 1
  <2>1. b \in a+1..b OBVIOUS
  <2> QED BY <1>3, <2>1
<1>6. DepthOf(t, a, b + 1) = 0 BY <1>5, DepthNext
<1>7. ASSUME NEW q \in a..b
      PROVE  DepthOf(t, a, q) >= 0 /\ (Comma(t, q) => DepthOf(t, a, q) # 0)
  <2>1. CASE q = a
    <3>1. ~Comma(t, a) BY DEF Openings, Comma
    <3> QED BY <1>2, <2>1, <3>1
  <2>2. CASE q # a
    <3>1. q \in a+1..b BY <2>2
    <3> QED BY <1>4, <3>1
  <2> QED BY <2>1, <2>2
<1>8. Ops(t, a, b) = {} BY <1>4 DEF Ops
<1> QED BY <1>6, <1>7, <1>8 DEF Whole, Starts, Operands

-----------------------------------------------------------------------------
(***************************************************************************)
(* Arguments.                                                              *)
(***************************************************************************)

(* After the parenthesis at a, and before s, everything is closed again.   *)
Inside(t, a, s) ==
  /\ a < s
  /\ DepthOf(t, a + 1, s) = 0
  /\ \A q \in a+1..s : DepthOf(t, a + 1, q) >= 0

LEMMA NothingInside ==
  ASSUME NEW t, NEW a \in Nat
  PROVE  Inside(t, a, a + 1) /\ Commas(t, a, a + 1) = {}
<1>1. DepthOf(t, a + 1, a + 1) = 0 BY DepthOne
<1>2. \A q \in a+1..a+1 : q = a + 1 OBVIOUS
<1>3. a+1..(a+1)-1 = {} OBVIOUS
<1>4. Commas(t, a, a + 1) = {} BY <1>3 DEF Commas
<1>5. \A q \in a+1..a+1 : DepthOf(t, a + 1, q) >= 0 BY <1>1, <1>2
<1> QED BY <1>1, <1>4, <1>5 DEF Inside

(* An operand from s on, and a comma after it.                             *)
LEMMA InsideGrows ==
  ASSUME NEW t, NEW a \in Nat, NEW s \in Nat, NEW e \in Nat, Inside(t, a, s), Whole(t, s, e - 1)
  PROVE  /\ s < e
         /\ Inside(t, a, e)
         /\ Commas(t, a, e) = Commas(t, a, s)
         /\ Comma(t, e) => Inside(t, a, e + 1) /\ Commas(t, a, e + 1) = Commas(t, a, s) \cup {e}
<1>1. /\ a + 1 \in Nat /\ a + 1 <= s /\ s <= e - 1 /\ s < e /\ (e - 1) + 1 = e /\ a < e
      /\ e + 1 \in Nat /\ a + 1 <= e
  BY DEF Inside, Whole
<1>2. ASSUME NEW q \in s..e PROVE DepthOf(t, a + 1, q) = DepthOf(t, s, q)
  <2>1. q \in Nat /\ s <= q OBVIOUS
  <2>2. /\ DepthOf(t, a + 1, q) = DepthOf(t, a + 1, s) + DepthOf(t, s, q)
        /\ DepthOf(t, s, q) \in Int
    <3> DEFINE c == a + 1
    <3>1. c \in Nat /\ c <= s BY <1>1
    <3> HIDE DEF c
    <3>2. /\ DepthOf(t, c, q) = DepthOf(t, c, s) + DepthOf(t, s, q)
          /\ DepthOf(t, s, q) \in Int
      BY <2>1, <3>1, DepthSum
    <3> QED BY <3>2 DEF c
  <2> QED BY <2>2 DEF Inside
<1>3. DepthOf(t, a + 1, e) = 0
  <2>1. e \in s..e BY <1>1
  <2>2. DepthOf(t, s, e) = 0 BY <1>1 DEF Whole
  <2> QED BY <1>2, <2>1, <2>2
<1>4. ASSUME NEW q \in a+1..e PROVE DepthOf(t, a + 1, q) >= 0
  <2>1. CASE q <= s
    <3>1. q \in a+1..s BY <2>1
    <3> QED BY <3>1 DEF Inside
  <2>2. CASE q > s /\ q < e
    <3>1. q \in s..e-1 /\ q \in s..e BY <2>2
    <3>2. DepthOf(t, s, q) >= 0 BY <3>1 DEF Whole
    <3> QED BY <1>2, <3>1, <3>2
  <2>3. CASE q = e BY <1>3, <2>3
  <2> QED BY <2>1, <2>2, <2>3, <1>1
<1>5. Inside(t, a, e) BY <1>1, <1>3, <1>4 DEF Inside
<1>6. ASSUME NEW q \in a+1..e-1 PROVE q \in Commas(t, a, e) <=> q \in Commas(t, a, s)
  <2>1. CASE q < s
    <3>1. q \in a+1..s-1 BY <2>1
    <3> QED BY <3>1 DEF Commas
  <2>2. CASE q >= s
    <3>1. q \in s..e-1 /\ q \in s..e /\ q \notin a+1..s-1 BY <2>2
    <3>2. q \notin Commas(t, a, s) BY <3>1 DEF Commas
    <3>3. Comma(t, q) => DepthOf(t, s, q) # 0 BY <3>1 DEF Whole
    <3>4. q \notin Commas(t, a, e) BY <1>2, <3>1, <3>3 DEF Commas
    <3> QED BY <3>2, <3>4
  <2> QED BY <2>1, <2>2
<1>7. Commas(t, a, e) = Commas(t, a, s)
  <2>1. a+1..s-1 \subseteq a+1..e-1 BY <1>1
  <2>2. Commas(t, a, e) \subseteq a+1..e-1 /\ Commas(t, a, s) \subseteq a+1..e-1
    BY <2>1 DEF Commas
  <2> QED BY <1>6, <2>2
<1>8. ASSUME Comma(t, e) PROVE Inside(t, a, e + 1)
  <2>1. t[e] \notin Openings \cup {")"} BY <1>8 DEF Comma, Openings
  <2> HIDE DEF Openings
  <2>2. DepthOf(t, a + 1, e + 1) = 0 BY <1>1, <1>3, <2>1, DepthNext
  <2>3. ASSUME NEW q \in a+1..e+1 PROVE DepthOf(t, a + 1, q) >= 0
    <3>1. CASE q = e + 1 BY <2>2, <3>1
    <3>2. CASE q # e + 1
      <4>1. q \in a+1..e BY <3>2
      <4> QED BY <1>4, <4>1
    <3> QED BY <3>1, <3>2
  <2> QED BY <1>1, <2>2, <2>3 DEF Inside
<1>9. ASSUME Comma(t, e) PROVE Commas(t, a, e + 1) = Commas(t, a, s) \cup {e}
  <2>1. (e + 1) - 1 = e /\ e \in a+1..e BY <1>1
  <2>2. \A q \in a+1..e : q \in a+1..e-1 \/ q = e BY <1>1
  <2>3. a+1..e-1 \subseteq a+1..e /\ e \notin a+1..e-1 BY <1>1
  <2>4. Commas(t, a, e + 1) = Commas(t, a, e) \cup {e}
    <3>1. e \in Commas(t, a, e + 1) BY <1>3, <1>9, <2>1 DEF Commas
    <3>2. ASSUME NEW q \in a+1..e-1 PROVE q \in Commas(t, a, e + 1) <=> q \in Commas(t, a, e)
      BY <2>1, <2>3 DEF Commas
    <3>3. Commas(t, a, e + 1) \subseteq a+1..e /\ Commas(t, a, e) \subseteq a+1..e-1
      BY <2>1 DEF Commas
    <3> QED BY <2>2, <3>1, <3>2, <3>3
  <2> QED BY <1>7, <2>4
<1> QED BY <1>1, <1>5, <1>7, <1>8, <1>9

(* One operand between the parentheses.                                    *)
LEMMA OneInside ==
  ASSUME NEW t, NEW a \in Nat, NEW b \in Nat, Whole(t, a + 1, b - 1)
  PROVE  Inside(t, a, b) /\ Commas(t, a, b) = {}
<1> DEFINE c == a + 1
<1>1. c \in Nat /\ Inside(t, a, c) BY NothingInside
<1>2. Whole(t, c, b - 1) OBVIOUS
<1>3. Commas(t, a, c) = {} BY NothingInside
<1> HIDE DEF c
<1>4. Inside(t, a, b) /\ Commas(t, a, b) = Commas(t, a, c)
  BY <1>1, <1>2, InsideGrows
<1> QED BY <1>3, <1>4

(* p is the parenthesis at a, or the last comma, before e.                 *)
Previous(C, a, e, p) ==
  /\ p \in C \cup {a}
  /\ p < e
  /\ \A q \in C : q < e => q <= p

(* The parts are the operands that end at the places in E, in this order.  *)
(* span: where a node begins and ends.                                     *)
Listed(span, parts, a, C, E) ==
  /\ Len(parts) = Cardinality(E)
  /\ \A e \in E :
       LET n == parts[Cardinality({d \in E : d <= e})]
       IN  /\ n \in DOMAIN span
           /\ \E p : Previous(C, a, e, p) /\ span[n] = <<p + 1, e - 1>>

LEMMA NoneListed ==
  ASSUME NEW span, NEW a, NEW C
  PROVE  Listed(span, <<>>, a, C, {})
<1>1. Len(<<>>) = 0 /\ Cardinality({}) = 0 BY FS_EmptySet
<1> QED BY <1>1 DEF Listed

(* The rank of a number in a finite set of numbers.                        *)
LEMMA Rank ==
  ASSUME NEW E \in SUBSET Nat, IsFiniteSet(E), NEW e \in E
  PROVE  /\ Cardinality(E) \in Nat
         /\ Cardinality({d \in E : d <= e}) \in 1..Cardinality(E)
<1> DEFINE U == {d \in E : d <= e}
<1>1. U \subseteq E OBVIOUS
<1>2. e \in U OBVIOUS
<1> HIDE DEF U
<1>3. IsFiniteSet(U) /\ Cardinality(U) <= Cardinality(E) BY <1>1, FS_Subset
<1>4. Cardinality(U) \in Nat /\ Cardinality(E) \in Nat BY <1>3, FS_CardinalityType
<1>5. Cardinality(U) # 0 BY <1>2, <1>3, FS_EmptySet
<1>6. Cardinality(U) \in 1..Cardinality(E) BY <1>3, <1>4, <1>5
<1> QED BY <1>4, <1>6 DEF U

(* One more operand, behind all others.                                    *)
LEMMA OneMoreListed ==
  ASSUME NEW S, NEW parts \in Seq(S), NEW n \in S, NEW span, NEW a, NEW C, NEW D,
         NEW E \in SUBSET Nat, IsFiniteSet(E), Listed(span, parts, a, C, E),
         NEW e \in Nat, \A d \in E : d < e,
         C \subseteq D, \A q \in D : q \in C \/ q >= e, D \in SUBSET Nat,
         n \in DOMAIN span, NEW p, Previous(D, a, e, p), span[n] = <<p + 1, e - 1>>
  PROVE  Listed(span, Append(parts, n), a, D, E \cup {e})
<1>1. Cardinality(E) = Len(parts) BY DEF Listed
<1>2. e \notin E /\ \A d \in E : ~(e <= d)
  <2>1. \A d \in E : d \in Nat OBVIOUS
  <2> QED BY <2>1
<1>3. Cardinality(E \cup {e}) = Len(parts) + 1
  BY <1>1, <1>2, FS_AddElement
<1>4. Len(Append(parts, n)) = Len(parts) + 1 /\ Len(parts) \in Nat BY LenProperties, AppendProperties
<1>5. \A i \in 1..Len(parts) : Append(parts, n)[i] = parts[i] BY AppendProperties
<1>6. Append(parts, n)[Len(parts) + 1] = n BY AppendProperties
<1>7. ASSUME NEW d \in E
      PROVE  LET m == Append(parts, n)[Cardinality({c \in E \cup {e} : c <= d})]
             IN  /\ m \in DOMAIN span
                 /\ \E q : Previous(D, a, d, q) /\ span[m] = <<q + 1, d - 1>>
  <2>1. {c \in E \cup {e} : c <= d} = {c \in E : c <= d} BY <1>2
  <2> DEFINE k == Cardinality({c \in E : c <= d})
  <2>2. k \in 1..Len(parts) BY <1>1, Rank
  <2>3. /\ parts[k] \in DOMAIN span
        /\ \E q : Previous(C, a, d, q) /\ span[parts[k]] = <<q + 1, d - 1>>
    BY DEF Listed
  <2> HIDE DEF k
  <2>4. PICK q : Previous(C, a, d, q) /\ span[parts[k]] = <<q + 1, d - 1>> BY <2>3
  <2>5. Previous(D, a, d, q)
    <3>1. ASSUME NEW r \in D, r < d PROVE r <= q
      <4>1. r \in Nat /\ d \in Nat /\ d < e OBVIOUS
      <4>2. r \in C BY <3>1, <4>1
      <4> QED BY <2>4, <3>1, <4>2 DEF Previous
    <3> QED BY <2>4, <3>1 DEF Previous
  <2>6. Append(parts, n)[k] = parts[k] BY <1>5, <2>2
  <2> QED BY <2>1, <2>3, <2>4, <2>5, <2>6 DEF k
<1>8. Cardinality({c \in E \cup {e} : c <= e}) = Len(parts) + 1
  <2>1. \A c \in E : c <= e
    <3>1. \A d \in E : d \in Nat OBVIOUS
    <3> QED BY <3>1
  <2>2. \A c \in E \cup {e} : c <= e BY <2>1
  <2>3. {c \in E \cup {e} : c <= e} = E \cup {e} BY <2>2
  <2> QED BY <1>3, <2>3
<1>9. ASSUME NEW d \in E \cup {e}
      PROVE  LET m == Append(parts, n)[Cardinality({c \in E \cup {e} : c <= d})]
             IN  /\ m \in DOMAIN span
                 /\ \E q : Previous(D, a, d, q) /\ span[m] = <<q + 1, d - 1>>
  <2>1. CASE d \in E BY <1>7, <2>1
  <2>2. CASE d = e BY <1>6, <1>8, <2>2
  <2> QED BY <2>1, <2>2
<1> QED BY <1>3, <1>4, <1>9 DEF Listed

(* More nodes do not matter.                                               *)
LEMMA ListedStays ==
  ASSUME NEW span, NEW other, DOMAIN span \subseteq DOMAIN other,
         \A n \in DOMAIN span : other[n] = span[n],
         NEW parts, NEW a, NEW C, NEW E, Listed(span, parts, a, C, E)
  PROVE  Listed(other, parts, a, C, E)
BY DEF Listed

-----------------------------------------------------------------------------
(***************************************************************************)
(* What has been read is not changed by what is read next: u goes on after *)
(* t.                                                                      *)
(***************************************************************************)
Continues(t, u) == /\ Len(t) \in Nat /\ Len(u) \in Nat /\ Len(t) <= Len(u)
                   /\ \A i \in 1..Len(t) : u[i] = t[i]

LEMMA TextStays ==
  ASSUME NEW t, NEW u, Continues(t, u), NEW a \in Nat \ {0}, NEW b \in Nat, b <= Len(t)
  PROVE  /\ Ops(u, a, b) = Ops(t, a, b)
         /\ Commas(u, a, b) = Commas(t, a, b)
         /\ Whole(t, a, b) => Whole(u, a, b)
         /\ Inside(t, a, b) => Inside(u, a, b)
<1>1. ASSUME NEW c \in Nat \ {0}, NEW q \in Nat, q <= b + 1 PROVE DepthOf(u, c, q) = DepthOf(t, c, q)
  <2>1. ASSUME NEW i \in c..q-1 PROVE i \in 1..Len(t)
    <3>1. Len(t) \in Nat BY DEF Continues
    <3>2. c \in Nat /\ 1 <= c OBVIOUS
    <3>3. i \in Int /\ c <= i /\ i <= q - 1 BY <3>2
    <3>4. q - 1 <= b BY <1>1
    <3>5. i <= b /\ 1 <= i BY <3>2, <3>3, <3>4
    <3> QED BY <3>1, <3>3, <3>5
  <2>2. \A i \in c..q-1 : u[i] = t[i] BY <2>1 DEF Continues
  <2> QED BY <2>2, DepthStays
<1>2. \A q \in 1..b : u[q] = t[q] BY DEF Continues
<1>3. ASSUME NEW q \in 1..b PROVE Comma(u, q) <=> Comma(t, q)
  BY <1>2 DEF Comma
<1>4. Ops(u, a, b) = Ops(t, a, b)
  <2>1. ASSUME NEW q \in a+1..b PROVE q \in Ops(u, a, b) <=> q \in Ops(t, a, b)
    <3>1. q \in 1..b /\ q - 1 \in 1..b /\ q \in Nat /\ q <= b + 1 OBVIOUS
    <3>2. u[q] = t[q] /\ u[q - 1] = t[q - 1] BY <1>2, <3>1
    <3>3. DepthOf(u, a, q) = DepthOf(t, a, q) BY <1>1, <3>1
    <3> QED BY <3>2, <3>3 DEF Ops
  <2>2. Ops(u, a, b) \subseteq a+1..b /\ Ops(t, a, b) \subseteq a+1..b BY DEF Ops
  <2> QED BY <2>1, <2>2
<1>5. a + 1 \in Nat \ {0} OBVIOUS
<1>6. Commas(u, a, b) = Commas(t, a, b)
  <2>1. ASSUME NEW q \in a+1..b-1 PROVE q \in Commas(u, a, b) <=> q \in Commas(t, a, b)
    <3>1. q \in 1..b /\ q \in Nat /\ q <= b + 1 OBVIOUS
    <3>2. DepthOf(u, a + 1, q) = DepthOf(t, a + 1, q) BY <1>1, <1>5, <3>1
    <3> QED BY <1>3, <3>1, <3>2 DEF Commas
  <2>2. Commas(u, a, b) \subseteq a+1..b-1 /\ Commas(t, a, b) \subseteq a+1..b-1 BY DEF Commas
  <2> QED BY <2>1, <2>2
<1>7. ASSUME Whole(t, a, b) PROVE Whole(u, a, b)
  <2>1. a <= b BY <1>7 DEF Whole
  <2>2. u[a] \in Starts /\ u[b] \in Operands
    <3>1. a \in 1..b /\ b \in 1..b BY <2>1
    <3>2. u[a] = t[a] /\ u[b] = t[b] BY <1>2, <3>1
    <3> QED BY <1>7, <3>2 DEF Whole
  <2>3. DepthOf(u, a, b + 1) = 0
    <3>1. b + 1 \in Nat /\ b + 1 <= b + 1 OBVIOUS
    <3> QED BY <1>1, <1>7, <3>1 DEF Whole
  <2>4. ASSUME NEW q \in a..b PROVE DepthOf(u, a, q) = DepthOf(t, a, q) /\ (Comma(u, q) <=> Comma(t, q))
    <3>1. q \in Nat /\ q <= b + 1 /\ q \in 1..b OBVIOUS
    <3> QED BY <1>1, <1>3, <3>1
  <2>5. \A q \in a..b : DepthOf(u, a, q) >= 0 BY <1>7, <2>4 DEF Whole
  <2>6. \A q \in a..b : Comma(u, q) => DepthOf(u, a, q) # 0 BY <1>7, <2>4 DEF Whole
  <2> QED BY <2>1, <2>2, <2>3, <2>5, <2>6 DEF Whole
<1>8. ASSUME Inside(t, a, b) PROVE Inside(u, a, b)
  <2>1. ASSUME NEW q \in a+1..b PROVE DepthOf(u, a + 1, q) = DepthOf(t, a + 1, q)
    <3>1. q \in Nat /\ q <= b + 1 OBVIOUS
    <3> QED BY <1>1, <1>5, <3>1
  <2>2. b \in a+1..b BY <1>8 DEF Inside
  <2>3. DepthOf(u, a + 1, b) = 0 BY <1>8, <2>1, <2>2 DEF Inside
  <2>4. \A q \in a+1..b : DepthOf(u, a + 1, q) >= 0 BY <1>8, <2>1 DEF Inside
  <2> QED BY <1>8, <2>3, <2>4 DEF Inside
<1> QED BY <1>4, <1>6, <1>7, <1>8

-----------------------------------------------------------------------------
(***************************************************************************)
(* The nodes.                                                              *)
(***************************************************************************)

(* What is made for the operator at p, with its operands around it.        *)
Binary(t, span, parts, p, a, b) ==
  /\ p \in Ops(t, a, b)
  /\ \A q \in Ops(t, a, b) : \/ Precedence(t[p]) < Precedence(t[q])
                             \/ Precedence(t[p]) = Precedence(t[q]) /\ q <= p
  /\ \E l, r \in DOMAIN span :
       parts = <<l, r>> /\ span[l] = <<a, p - 1>> /\ span[r] = <<p + 1, b>>

Unary(t, span, parts, p, a, b) ==
  /\ Ops(t, a, b) = {} /\ p = a /\ t[a] \in Prefixes
  /\ \E r \in DOMAIN span : parts = <<r>> /\ span[r] = <<a + 1, b>>

Plain(t, parts, p, a, b) ==
  Ops(t, a, b) = {} /\ p = a /\ b = a /\ t[a] = "x" /\ parts = <<>>

(* The places the arguments between a and b end before.                    *)
EndsOf(C, a, b) == C \cup (IF b = a + 1 \/ b - 1 \in C THEN {} ELSE {b})

Parenthesised(t, span, parts, p, a, b) ==
  /\ Ops(t, a, b) = {} /\ p = a /\ a < b /\ t[a] \in Openings /\ t[b] = ")"
  /\ Listed(span, parts, a, Commas(t, a, b), EndsOf(Commas(t, a, b), a, b))

NodeOf(t, span, parts, p, a, b) ==
  \/ Binary(t, span, parts, p, a, b)
  \/ Unary(t, span, parts, p, a, b)
  \/ Plain(t, parts, p, a, b)
  \/ Parenthesised(t, span, parts, p, a, b)

(* Node p, with these parts, is a whole operand of the text.               *)
Spans(t, span, parts, p, a, b) ==
  /\ a \in Nat \ {0} /\ b \in Nat /\ b < Len(t)
  /\ p \in a..b
  /\ span[p] = <<a, b>>
  /\ Whole(t, a, b)
  /\ NodeOf(t, span, parts, p, a, b)

Placed(t, tree, span) ==
  /\ DOMAIN span = DOMAIN tree
  /\ \A p \in DOMAIN tree : \E a, b : Spans(t, span, tree[p], p, a, b)

Extends(span, other) ==
  DOMAIN span \subseteq DOMAIN other /\ \A n \in DOMAIN span : other[n] = span[n]

(* Nodes stay what they are while tokens are read and nodes are made.      *)
LEMMA SpansStay ==
  ASSUME NEW t, NEW u, Continues(t, u), NEW span, NEW other, Extends(span, other),
         NEW parts, NEW p \in DOMAIN span, NEW a, NEW b, Spans(t, span, parts, p, a, b)
  PROVE  Spans(u, other, parts, p, a, b)
<1>1. a \in Nat \ {0} /\ b \in Nat /\ b < Len(t) /\ p \in a..b /\ a <= b BY DEF Spans
<1>2. Len(t) \in Nat /\ Len(u) \in Nat /\ Len(t) <= Len(u) BY DEF Continues
<1>3. /\ Ops(u, a, b) = Ops(t, a, b)
      /\ Commas(u, a, b) = Commas(t, a, b)
      /\ Whole(u, a, b)
  <2>1. Whole(t, a, b) /\ b <= Len(t) BY <1>1, <1>2 DEF Spans
  <2> QED BY <1>1, <2>1, TextStays
<1>4. \A i \in a..b : u[i] = t[i] BY <1>1, <1>2 DEF Continues
<1>5. u[a] = t[a] /\ u[b] = t[b] /\ u[p] = t[p] BY <1>1, <1>4
<1>6. NodeOf(u, other, parts, p, a, b)
  <2>1. CASE Binary(t, span, parts, p, a, b)
    <3>1. p \in Ops(t, a, b) BY <2>1 DEF Binary
    <3>2. PICK l \in DOMAIN span, r \in DOMAIN span :
            parts = <<l, r>> /\ span[l] = <<a, p - 1>> /\ span[r] = <<p + 1, b>>
      BY <2>1 DEF Binary
    <3>3. /\ l \in DOMAIN other /\ r \in DOMAIN other
          /\ other[l] = <<a, p - 1>> /\ other[r] = <<p + 1, b>>
      BY <3>2 DEF Extends
    <3>4. ASSUME NEW q \in Ops(u, a, b)
          PROVE  \/ Precedence(u[p]) < Precedence(u[q])
                 \/ Precedence(u[p]) = Precedence(u[q]) /\ q <= p
      <4>1. q \in Ops(t, a, b) /\ q \in a..b BY <1>1, <1>3 DEF Ops
      <4>2. u[q] = t[q] BY <1>4, <4>1
      <4>3. \/ Precedence(t[p]) < Precedence(t[q])
            \/ Precedence(t[p]) = Precedence(t[q]) /\ q <= p
        BY <2>1, <4>1 DEF Binary
      <4> QED BY <1>5, <4>2, <4>3
    <3>5. Binary(u, other, parts, p, a, b) BY <1>3, <3>1, <3>2, <3>3, <3>4 DEF Binary
    <3> QED BY <3>5 DEF NodeOf
  <2>2. CASE Unary(t, span, parts, p, a, b)
    <3>1. PICK r \in DOMAIN span : parts = <<r>> /\ span[r] = <<a + 1, b>>
      BY <2>2 DEF Unary
    <3>2. r \in DOMAIN other /\ other[r] = <<a + 1, b>> BY <3>1 DEF Extends
    <3>3. Unary(u, other, parts, p, a, b) BY <1>3, <1>5, <2>2, <3>1, <3>2 DEF Unary
    <3> QED BY <3>3 DEF NodeOf
  <2>3. CASE Plain(t, parts, p, a, b)
    BY <1>3, <1>5, <2>3 DEF Plain, NodeOf
  <2>4. CASE Parenthesised(t, span, parts, p, a, b)
    <3>1. Listed(other, parts, a, Commas(u, a, b), EndsOf(Commas(u, a, b), a, b))
      BY <1>3, <2>4, ListedStays DEF Parenthesised, Extends
    <3>2. Parenthesised(u, other, parts, p, a, b)
      BY <1>3, <1>5, <2>4, <3>1 DEF Parenthesised
    <3> QED BY <3>2 DEF NodeOf
  <2> QED BY <2>1, <2>2, <2>3, <2>4 DEF NodeOf, Spans
<1>7. other[p] = <<a, b>> BY DEF Extends, Spans
<1>8. b < Len(u) BY <1>1, <1>2
<1> QED BY <1>1, <1>3, <1>6, <1>7, <1>8 DEF Spans

LEMMA PlacedStays ==
  ASSUME NEW t, NEW u, Continues(t, u), NEW tree, NEW span, Placed(t, tree, span)
  PROVE  Placed(u, tree, span)
<1>1. Extends(span, span) BY DEF Extends
<1>2. ASSUME NEW p \in DOMAIN tree PROVE \E a, b : Spans(u, span, tree[p], p, a, b)
  <2>1. PICK a, b : Spans(t, span, tree[p], p, a, b) BY DEF Placed
  <2>2. p \in DOMAIN span BY DEF Placed
  <2>3. Spans(u, span, tree[p], p, a, b) BY <1>1, <2>1, <2>2, SpansStay
  <2> QED BY <2>3
<1> QED BY <1>2 DEF Placed

(* One more node.                                                          *)
Grown(f, x, v) == [p \in DOMAIN f \cup {x} |-> IF p = x THEN v ELSE f[p]]

LEMMA GrownExtends ==
  ASSUME NEW f, NEW x, x \notin DOMAIN f, NEW v
  PROVE  /\ Extends(f, Grown(f, x, v)) /\ Grown(f, x, v)[x] = v
         /\ DOMAIN Grown(f, x, v) = DOMAIN f \cup {x}
BY DEF Extends, Grown

LEMMA PlacedMore ==
  ASSUME NEW t, NEW u, Continues(t, u), NEW tree, NEW span, Placed(t, tree, span),
         NEW x, x \notin DOMAIN tree, NEW parts, NEW a, NEW b,
         Spans(u, Grown(span, x, <<a, b>>), parts, x, a, b)
  PROVE  Placed(u, Grown(tree, x, parts), Grown(span, x, <<a, b>>))
<1> DEFINE tall == Grown(tree, x, parts)  wide == Grown(span, x, <<a, b>>)
<1>1. DOMAIN span = DOMAIN tree BY DEF Placed
<1>2. Extends(span, wide) /\ DOMAIN wide = DOMAIN tree \cup {x}
  <2>1. x \notin DOMAIN span BY <1>1
  <2>2. Extends(span, wide) /\ DOMAIN wide = DOMAIN span \cup {x} BY <2>1, GrownExtends, Zenon
  <2> QED BY <1>1, <2>2
<1>3. Extends(tree, tall) /\ tall[x] = parts /\ DOMAIN tall = DOMAIN tree \cup {x}
  BY GrownExtends
<1> HIDE DEF tall, wide
<1>4. ASSUME NEW p \in DOMAIN tall PROVE \E c, d : Spans(u, wide, tall[p], p, c, d)
  <2>1. CASE p = x BY <1>3, <2>1 DEF wide
  <2>2. CASE p # x
    <3>1. p \in DOMAIN tree /\ p \in DOMAIN span BY <1>1, <1>3, <2>2
    <3>2. PICK c, d : Spans(t, span, tree[p], p, c, d) BY <3>1 DEF Placed
    <3>3. Spans(u, wide, tree[p], p, c, d) BY <1>2, <3>1, <3>2, SpansStay
    <3>4. tall[p] = tree[p] BY <1>3, <3>1 DEF Extends
    <3> QED BY <3>3, <3>4
  <2> QED BY <2>1, <2>2
<1>5. Placed(u, tall, wide) BY <1>2, <1>3, <1>4 DEF Placed
<1> QED BY <1>5 DEF tall, wide

-----------------------------------------------------------------------------
(***************************************************************************)
(* The activations.                                                        *)
(***************************************************************************)

(* The arguments between the parenthesis at a and c, each with the comma   *)
(* after it.                                                               *)
ArgumentsTo(t, span, parts, a, c) ==
  /\ Inside(t, a, c)
  /\ c - 1 \in Commas(t, a, c) \cup {a}
  /\ Listed(span, parts, a, Commas(t, a, c), Commas(t, a, c))

PrefixFrame(t, f, a, c, q) ==
  f.phase = "prefix" /\ f.at = a /\ t[a] \in Prefixes /\ f.parts = <<>> /\ c = a + 1 /\ q = PREFIX

InfixFrame(t, span, f, a, c, q) ==
  /\ f.phase = "infix" /\ t[f.at] \in Operators /\ c = f.at + 1
  /\ q = Precedence(t[f.at]) /\ f.precedence < q
  /\ \E n \in DOMAIN span : f.parts = <<n>> /\ span[n] = <<a, f.at - 1>>
  /\ \A i \in Ops(t, a, f.at - 1) : Precedence(t[i]) >= q

AddressFrame(t, f, a, c, q) ==
  /\ f.at = a /\ f.parts = <<>> /\ c = a + 1 /\ q = LOWEST
  /\ \/ f.phase = "read" /\ t[a] = "read("
     \/ f.phase = "write" /\ t[a] = "write("

ArgumentsFrame(t, span, f, a, c, q) ==
  /\ f.phase = "args" /\ f.at = a /\ t[a] = "f(" /\ q = LOWEST
  /\ ArgumentsTo(t, span, f.parts, a, c)

(* The activation f, whose expression begins at a, waits for the operand   *)
(* that begins at c and is read at precedence q.                           *)
Waiting(t, span, f, a, c, q) ==
  /\ a \in Nat \ {0} /\ c \in Nat /\ c <= Len(t) /\ f.at \in a..c-1
  /\ f.at \notin DOMAIN span
  /\ \/ PrefixFrame(t, f, a, c, q)
     \/ InfixFrame(t, span, f, a, c, q)
     \/ AddressFrame(t, f, a, c, q)
     \/ ArgumentsFrame(t, span, f, a, c, q)

Starting(t, f, a) ==
  /\ f.phase = "start" /\ f.at = 0 /\ f.parts = <<>> /\ a = Len(t)
  /\ a > 1 => /\ t[a-1] \notin Operands
              /\ t[a-1] \in {"f(", ","} => t[a] # ")"

Having(t, span, f, a) ==
  /\ f.phase = "left" /\ f.at = 0
  /\ \E n \in DOMAIN span : f.parts = <<n>> /\ span[n] = <<a, Len(t) - 1>>
  /\ \A i \in Ops(t, a, Len(t) - 1) : /\ Precedence(t[i]) > f.precedence
                                      /\ Precedence(t[i]) >= Precedence(t[Len(t)])

(* Between two arguments, or before the closing parenthesis.               *)
Collecting(t, span, f, a) ==
  /\ f.phase = "args" /\ f.at = a /\ t[a] = "f(" /\ a < Len(t)
  /\ a \notin DOMAIN span
  /\ \/ ArgumentsTo(t, span, f.parts, a, Len(t))
     \/ LET C == Commas(t, a, Len(t))
        IN  /\ t[Len(t)] = ")" /\ Inside(t, a, Len(t))
            /\ Len(t) - 1 \notin C \cup {a}
            /\ Listed(span, f.parts, a, C, C \cup {Len(t)})

Active(t, span, f, a) ==
  \/ Starting(t, f, a)
  \/ Having(t, span, f, a)
  \/ Collecting(t, span, f, a)

(* begin: where the expressions of the activations begin.                  *)
Reading(t, tree, frames, span, begin) ==
  /\ frames # <<>> /\ frames[1].precedence = LOWEST /\ begin[1] = 1
  /\ Placed(t, tree, span)
  /\ \A k \in 1..Len(frames) : begin[k] \in Nat \ {0} /\ begin[k] <= Len(t)
  /\ \A k \in 1..Len(frames)-1 :
       Waiting(t, span, frames[k], begin[k], begin[k+1], frames[k+1].precedence)
  /\ \A j \in 1..Len(frames) : \A k \in 1..j-1 : frames[k].at < begin[j]
  /\ Active(t, span, frames[Len(frames)], begin[Len(frames)])

LEMMA ArgumentsToStay ==
  ASSUME NEW t, NEW u, Continues(t, u), NEW span, NEW other, Extends(span, other),
         NEW parts, NEW a \in Nat \ {0}, NEW c \in Nat, c <= Len(t),
         ArgumentsTo(t, span, parts, a, c)
  PROVE  ArgumentsTo(u, other, parts, a, c)
<1>1. /\ Commas(u, a, c) = Commas(t, a, c)
      /\ Inside(t, a, c) => Inside(u, a, c)
  BY TextStays
<1>2. Listed(other, parts, a, Commas(t, a, c), Commas(t, a, c))
  BY ListedStays DEF ArgumentsTo, Extends
<1> QED BY <1>1, <1>2 DEF ArgumentsTo

(* An activation goes on waiting while an operand is read for it.          *)
LEMMA WaitingStays ==
  ASSUME NEW t, NEW u, Continues(t, u), NEW span, NEW other, Extends(span, other),
         NEW f, NEW a, NEW c, NEW q, Waiting(t, span, f, a, c, q),
         f.at \notin DOMAIN other
  PROVE  Waiting(u, other, f, a, c, q)
<1>1. /\ a \in Nat \ {0} /\ c \in Nat /\ c <= Len(t) /\ f.at \in a..c-1
      /\ Len(t) \in Nat /\ Len(u) \in Nat /\ Len(t) <= Len(u)
  BY DEF Waiting, Continues
<1>2. c <= Len(u) BY <1>1
<1>3. f.at \in 1..Len(t) /\ a \in 1..Len(t) BY <1>1
<1>4. u[f.at] = t[f.at] /\ u[a] = t[a] BY <1>3 DEF Continues
<1>5. CASE PrefixFrame(t, f, a, c, q)
  <2>1. PrefixFrame(u, f, a, c, q) BY <1>4, <1>5 DEF PrefixFrame
  <2> QED BY <1>1, <1>2, <2>1 DEF Waiting
<1>6. CASE InfixFrame(t, span, f, a, c, q)
  <2>1. f.at - 1 \in Nat /\ f.at - 1 <= Len(t) BY <1>1
  <2>2. Ops(u, a, f.at - 1) = Ops(t, a, f.at - 1) BY <1>1, <2>1, TextStays
  <2>3. ASSUME NEW i \in Ops(t, a, f.at - 1) PROVE u[i] = t[i]
    <3>1. i \in a+1..f.at-1 BY DEF Ops
    <3>2. i \in 1..Len(t) BY <1>1, <3>1
    <3> QED BY <3>2 DEF Continues
  <2>4. PICK n \in DOMAIN span : f.parts = <<n>> /\ span[n] = <<a, f.at - 1>>
    BY <1>6 DEF InfixFrame
  <2>5. n \in DOMAIN other /\ other[n] = <<a, f.at - 1>> BY <2>4 DEF Extends
  <2>6. InfixFrame(u, other, f, a, c, q)
    BY <1>4, <1>6, <2>2, <2>3, <2>4, <2>5 DEF InfixFrame
  <2> QED BY <1>1, <1>2, <2>6 DEF Waiting
<1>7. CASE AddressFrame(t, f, a, c, q)
  <2>1. AddressFrame(u, f, a, c, q) BY <1>4, <1>7 DEF AddressFrame
  <2> QED BY <1>1, <1>2, <2>1 DEF Waiting
<1>8. CASE ArgumentsFrame(t, span, f, a, c, q)
  <2>1. ArgumentsTo(u, other, f.parts, a, c)
    BY <1>1, <1>8, ArgumentsToStay DEF ArgumentsFrame
  <2>2. ArgumentsFrame(u, other, f, a, c, q) BY <1>4, <1>8, <2>1 DEF ArgumentsFrame
  <2> QED BY <1>1, <1>2, <2>2 DEF Waiting
<1> QED BY <1>5, <1>6, <1>7, <1>8 DEF Waiting

(* The activation at m goes on, and those above it have returned.          *)
LEMMA GoesOn ==
  ASSUME NEW t, NEW u, Continues(t, u), NEW tree, NEW tall, NEW span, NEW other, Extends(span, other),
         NEW F, NEW frames \in Seq(F), NEW begin, Reading(t, tree, frames, span, begin),
         Placed(u, tall, other),
         NEW G, NEW new \in Seq(G), Len(new) \in 1..Len(frames),
         \A k \in 1..Len(new)-1 : new[k] = frames[k],
         new[Len(new)].precedence = frames[Len(new)].precedence,
         \A x \in DOMAIN other \ DOMAIN span : x \in Nat /\ begin[Len(new)] <= x,
         Active(u, other, new[Len(new)], begin[Len(new)])
  PROVE  Reading(u, tall, new, other, begin)
<1> DEFINE m == Len(new)  n == Len(frames)
<1>1. m \in Nat /\ n \in Nat /\ 1 <= m /\ m <= n BY LenProperties
<1>2. Len(t) \in Nat /\ Len(u) \in Nat /\ Len(t) <= Len(u) BY DEF Continues
<1>3. new # <<>> BY <1>1, EmptySeq
<1> HIDE DEF m, n
<1>4. \A k \in 1..m : new[k].precedence = frames[k].precedence
  <2>1. ASSUME NEW k \in 1..m PROVE new[k].precedence = frames[k].precedence
    <3>1. CASE k = m BY <3>1 DEF m
    <3>2. CASE k # m
      <4>1. k \in 1..m-1 BY <1>1, <3>2
      <4>2. new[k] = frames[k] BY <4>1 DEF m
      <4> QED BY <4>2
    <3> QED BY <3>1, <3>2
  <2> QED BY <2>1
<1>5. new[1].precedence = LOWEST /\ begin[1] = 1
  <2>1. 1 \in 1..m BY <1>1
  <2> QED BY <1>4, <2>1 DEF Reading
<1>6. ASSUME NEW k \in 1..m PROVE begin[k] \in Nat \ {0} /\ begin[k] <= Len(u)
  <2>1. k \in 1..n BY <1>1
  <2>2. begin[k] \in Nat \ {0} /\ begin[k] <= Len(t) BY <2>1 DEF Reading, n
  <2> QED BY <1>2, <2>2
<1>7. ASSUME NEW j \in 1..m, NEW k \in 1..j-1 PROVE new[k].at < begin[j]
  <2>1. j \in 1..n /\ k \in 1..m-1 BY <1>1
  <2>2. frames[k].at < begin[j] BY <2>1 DEF Reading, n
  <2>3. new[k] = frames[k] BY <2>1 DEF m
  <2> QED BY <2>2, <2>3
<1>8. ASSUME NEW k \in 1..m-1
      PROVE  Waiting(u, other, new[k], begin[k], begin[k+1], new[k+1].precedence)
  <2>1. k \in 1..n-1 /\ k + 1 \in 1..m /\ k \in 1..m-1 /\ m \in 1..n BY <1>1
  <2>2. Waiting(t, span, frames[k], begin[k], begin[k+1], frames[k+1].precedence)
    BY <2>1 DEF Reading, n
  <2>3. new[k] = frames[k] BY <2>1 DEF m
  <2>4. new[k+1].precedence = frames[k+1].precedence BY <1>4, <2>1
  <2>5. frames[k].at < begin[m] BY <2>1 DEF Reading, n
  <2>6. frames[k].at \notin DOMAIN span /\ frames[k].at \in Int BY <2>2 DEF Waiting
  <2>7. frames[k].at \notin DOMAIN other
    <3>1. SUFFICES ASSUME frames[k].at \in DOMAIN other PROVE FALSE OBVIOUS
    <3> DEFINE x == frames[k].at
    <3>2. x \in DOMAIN other \ DOMAIN span BY <2>6, <3>1
    <3> HIDE DEF x
    <3>3. x \in Nat /\ begin[m] <= x BY <3>2 DEF m
    <3>4. begin[m] \in Nat /\ x < begin[m]
      <4>1. m \in 1..m BY <1>1
      <4> QED BY <1>6, <2>5, <4>1 DEF x
    <3> QED BY <3>3, <3>4
  <2>8. Waiting(u, other, frames[k], begin[k], begin[k+1], frames[k+1].precedence)
    BY <2>2, <2>7, WaitingStays
  <2> QED BY <2>3, <2>4, <2>8
<1> QED BY <1>3, <1>5, <1>6, <1>7, <1>8 DEF Reading, m

(* The last activation calls another.                                      *)
LEMMA CallsAnother ==
  ASSUME NEW t, NEW u, Continues(t, u), NEW tree, NEW span,
         NEW F, NEW frames \in Seq(F), NEW begin, Reading(t, tree, frames, span, begin),
         NEW new \in Seq(F), Len(new) = Len(frames) + 1,
         \A k \in 1..Len(frames)-1 : new[k] = frames[k],
         new[Len(frames)].precedence = frames[Len(frames)].precedence,
         Waiting(u, span, new[Len(frames)], begin[Len(frames)], Len(u), new[Len(new)].precedence),
         Starting(u, new[Len(new)], Len(u))
  PROVE  \E after : Reading(u, tree, new, span, after)
<1> DEFINE n == Len(frames)
           after == [i \in 1..n+1 |-> IF i = n + 1 THEN Len(u) ELSE begin[i]]
<1>1. n \in Nat /\ 1 <= n
  <2>1. frames # <<>> BY DEF Reading
  <2> QED BY <2>1, EmptySeq
<1>2. Len(t) \in Nat /\ Len(u) \in Nat /\ Len(t) <= Len(u) BY DEF Continues
<1>3. new # <<>> BY <1>1, EmptySeq
<1>4. after[n + 1] = Len(u) /\ \A k \in 1..n : after[k] = begin[k] BY <1>1
<1> HIDE DEF n, after
<1>5. \A k \in 1..n : new[k].precedence = frames[k].precedence
  <2>1. ASSUME NEW k \in 1..n PROVE new[k].precedence = frames[k].precedence
    <3>1. CASE k = n BY <3>1 DEF n
    <3>2. CASE k # n
      <4>1. k \in 1..n-1 BY <1>1, <3>2
      <4>2. new[k] = frames[k] BY <4>1 DEF n
      <4> QED BY <4>2
    <3> QED BY <3>1, <3>2
  <2> QED BY <2>1
<1>6. new[1].precedence = LOWEST /\ after[1] = 1
  <2>1. 1 \in 1..n BY <1>1
  <2> QED BY <1>4, <1>5, <2>1 DEF Reading
<1>7. ASSUME NEW k \in 1..n PROVE begin[k] \in Nat \ {0} /\ begin[k] <= Len(t)
  BY DEF Reading, n
<1>8. new[n].at < Len(u) /\ new[n].at \in Int
  BY <1>2 DEF Waiting, n
<1>9. Len(u) \in Nat \ {0}
  <2>1. n \in 1..n BY <1>1
  <2> QED BY <1>2, <1>7, <2>1
<1>10. ASSUME NEW k \in 1..n+1 PROVE after[k] \in Nat \ {0} /\ after[k] <= Len(u)
  <2>1. CASE k = n + 1 BY <1>4, <1>9, <2>1
  <2>2. CASE k # n + 1
    <3>1. k \in 1..n BY <1>1, <2>2
    <3> QED BY <1>2, <1>4, <1>7, <3>1
  <2> QED BY <2>1, <2>2
<1>11. ASSUME NEW k \in 1..n-1
       PROVE  Waiting(u, span, frames[k], begin[k], begin[k+1], frames[k+1].precedence)
  <2>1. Waiting(t, span, frames[k], begin[k], begin[k+1], frames[k+1].precedence)
    BY DEF Reading, n
  <2>2. frames[k].at \notin DOMAIN span BY <2>1 DEF Waiting
  <2>3. Extends(span, span) BY DEF Extends
  <2> QED BY <2>1, <2>2, <2>3, WaitingStays
<1>12. ASSUME NEW k \in 1..n
       PROVE  Waiting(u, span, new[k], after[k], after[k+1], new[k+1].precedence)
  <2>1. CASE k = n BY <1>1, <1>4, <2>1 DEF n
  <2>2. CASE k # n
    <3>1. k \in 1..n-1 /\ k \in 1..n /\ k + 1 \in 1..n BY <1>1, <2>2
    <3>2. new[k] = frames[k] BY <3>1 DEF n
    <3>3. after[k] = begin[k] /\ after[k+1] = begin[k+1] BY <1>4, <3>1
    <3>4. new[k+1].precedence = frames[k+1].precedence BY <1>5, <3>1
    <3>5. Waiting(u, span, frames[k], begin[k], begin[k+1], frames[k+1].precedence)
      BY <1>11, <3>1
    <3> QED BY <3>2, <3>3, <3>4, <3>5
  <2> QED BY <2>1, <2>2
<1>13. ASSUME NEW j \in 1..n+1, NEW k \in 1..j-1 PROVE new[k].at < after[j]
  <2>1. CASE j = n + 1 /\ k = n BY <1>4, <1>8, <2>1
  <2>2. CASE k # n
    <3>1. k \in 1..n-1 BY <1>1, <2>2
    <3>2. new[k] = frames[k] BY <3>1 DEF n
    <3>3. CASE j = n + 1
      <4>1. n \in 1..n BY <1>1
      <4>2. frames[k].at < begin[n] BY <3>1, <4>1 DEF Reading, n
      <4>3. frames[k].at \in Int BY <1>11, <3>1 DEF Waiting
      <4>4. begin[n] \in Nat /\ begin[n] <= Len(u) BY <1>2, <1>7, <4>1
      <4> QED BY <1>2, <1>4, <3>2, <3>3, <4>2, <4>3, <4>4
    <3>4. CASE j # n + 1
      <4>1. j \in 1..n BY <1>1, <3>4
      <4>2. frames[k].at < begin[j] BY <4>1 DEF Reading, n
      <4> QED BY <1>4, <3>2, <4>1, <4>2
    <3> QED BY <3>3, <3>4
  <2>3. CASE j # n + 1 /\ k = n
    <3>1. FALSE BY <1>1, <2>3
    <3> QED BY <3>1
  <2> QED BY <2>1, <2>2, <2>3
<1>14. Placed(u, tree, span) BY PlacedStays DEF Reading
<1>15. Len(new) = n + 1 BY DEF n
<1>16. (n + 1) - 1 = n BY <1>1
<1>17. Active(u, span, new[n + 1], after[n + 1]) BY <1>4, <1>15 DEF Active
<1>18. Reading(u, tree, new, span, after)
  BY <1>3, <1>6, <1>10, <1>12, <1>13, <1>14, <1>15, <1>16, <1>17 DEF Reading
<1> QED BY <1>18

-----------------------------------------------------------------------------
(***************************************************************************)
(* The inductive invariant.                                                *)
(***************************************************************************)
FramesOver(D) ==
  [precedence : LOWEST..PREFIX,
   phase : {"start", "prefix", "args", "read", "write", "left", "infix"},
   at : 0..MaxTokens, parts : Seq(D)]

TreeTyped(tree) ==
  /\ DOMAIN tree \subseteq Positions
  /\ \A p \in DOMAIN tree : tree[p] \in Seq(DOMAIN tree)

(* The token for the end of the file is the last one.                      *)
TextTyped(t) ==
  /\ t \in Seq(TokenTypes) /\ Len(t) \in 1..MaxTokens+1
  /\ \A i \in 1..Len(t)-1 : t[i] # "end"
  /\ Len(t) > MaxTokens => t[Len(t)] = "end"

(* The tree below root is that of all tokens but the last.                 *)
Built(t, tree, root) ==
  /\ root \in DOMAIN tree
  /\ \E span : Placed(t, tree, span) /\ span[root] = <<1, Len(t) - 1>>

IInv ==
  /\ TextTyped(tokens) /\ TreeTyped(nodes)
  /\ stack \in Seq(FramesOver(DOMAIN nodes)) /\ result \in 0..MaxTokens+1
  /\ result = 0 => \E span, begin : Reading(tokens, nodes, stack, span, begin)
  /\ result \notin {0, Rejected} => Built(tokens, nodes, result)
  /\ RefusedTokensCannotFollow

LEMMA InvariantTyped == IInv => TypeOK
BY DEF IInv, TypeOK, TextTyped, TreeTyped, FramesOver

(* Frames are frames over more nodes.                                      *)
LEMMA FramesGrow ==
  ASSUME NEW D, NEW E, D \subseteq E
  PROVE  /\ \A s \in Seq(D) : s \in Seq(E)
         /\ \A f \in FramesOver(D) : f \in FramesOver(E)
         /\ \A s \in Seq(FramesOver(D)) : s \in Seq(FramesOver(E))
<1>1. ASSUME NEW A, NEW B, A \subseteq B, NEW s \in Seq(A) PROVE s \in Seq(B)
  BY <1>1
<1>2. \A s \in Seq(D) : s \in Seq(E) BY <1>1
<1>3. ASSUME NEW f \in FramesOver(D) PROVE f \in FramesOver(E)
  BY <1>2 DEF FramesOver
<1>4. FramesOver(D) \subseteq FramesOver(E) BY <1>3
<1> QED BY <1>1, <1>2, <1>3, <1>4

(* The stack without its top, and with another top.                        *)
LEMMA OuterFacts ==
  ASSUME NEW F, stack \in Seq(F), stack # <<>>
  PROVE  /\ Len(stack) \in Nat \ {0} /\ Top \in F
         /\ Outer \in Seq(F) /\ Len(Outer) = Len(stack) - 1
         /\ \A k \in 1..Len(stack)-1 : Outer[k] = stack[k]
<1>1. Len(stack) \in Nat \ {0} /\ \A i \in 1..Len(stack) : stack[i] \in F
  BY EmptySeq, ElementOfSeq
<1> DEFINE n == Len(stack) - 1
<1>2. n \in Int /\ \A i \in 1..n : stack[i] \in F
  BY <1>1
<1> HIDE DEF n
<1>3. /\ SubSeq(stack, 1, n) \in Seq(F)
      /\ Len(SubSeq(stack, 1, n)) = IF 1 <= n THEN n - 1 + 1 ELSE 0
      /\ \A i \in 1 .. n-1+1 : SubSeq(stack, 1, n)[i] = stack[1+i-1]
  BY <1>2, SubSeqProperties
<1>4. n \in Nat /\ n = Len(stack) - 1
  BY <1>1 DEF n
<1>5. ASSUME NEW i \in 1..n PROVE SubSeq(stack, 1, n)[i] = stack[i]
  <2>1. i \in 1..n-1+1 /\ 1 + i - 1 = i BY <1>4
  <2> QED BY <2>1, <1>3
<1>6. Len(SubSeq(stack, 1, n)) = n BY <1>3, <1>4
<1> QED BY <1>1, <1>3, <1>4, <1>5, <1>6 DEF Outer, Top

LEMMA AppendedFacts ==
  ASSUME NEW F, NEW s \in Seq(F), NEW x \in F
  PROVE  /\ Append(s, x) \in Seq(F) /\ Len(Append(s, x)) = Len(s) + 1 /\ Len(s) \in Nat
         /\ \A i \in 1..Len(s) : Append(s, x)[i] = s[i]
         /\ Append(s, x)[Len(s) + 1] = x
BY LenProperties, AppendProperties

(* consume: the next token is seen, as long as the last was not the end.   *)
LEMMA NextToken ==
  ASSUME TextTyped(tokens), peek # "end", consume
  PROVE  /\ TextTyped(tokens') /\ Continues(tokens, tokens')
         /\ Len(tokens') = cursor + 1 /\ cursor \in 1..MaxTokens /\ cursor \in Nat
<1>1. PICK s \in IF cursor < MaxTokens THEN TokenTypes ELSE {"end"} : tokens' = Append(tokens, s)
  BY DEF consume
<1>2. s \in TokenTypes BY <1>1 DEF TokenTypes
<1>3. /\ tokens' \in Seq(TokenTypes) /\ Len(tokens') = cursor + 1 /\ cursor \in Nat
      /\ \A i \in 1..cursor : tokens'[i] = tokens[i]
      /\ tokens'[cursor + 1] = s
  BY <1>1, <1>2, AppendedFacts DEF TextTyped, cursor
<1>4. MaxTokens \in Nat BY ParserAssumption
<1>5. cursor \in 1..MaxTokens
  BY <1>3, <1>4 DEF TextTyped, peek, cursor
<1>6. cursor + 1 \in 1..MaxTokens+1 BY <1>4, <1>5
<1>7. ASSUME NEW i \in 1..cursor PROVE tokens'[i] # "end"
  <2>1. tokens'[i] = tokens[i] BY <1>3
  <2>2. CASE i = cursor BY <2>1, <2>2 DEF peek
  <2>3. CASE i # cursor
    <3>1. i \in 1..cursor-1 BY <1>5, <2>3
    <3> QED BY <2>1, <3>1 DEF TextTyped, cursor
  <2> QED BY <2>2, <2>3
<1>8. cursor + 1 > MaxTokens => s = "end"
  <2>1. cursor + 1 > MaxTokens => ~(cursor < MaxTokens) BY <1>4, <1>5
  <2> QED BY <1>1, <2>1
<1>9. (cursor + 1) - 1 = cursor BY <1>3
<1>10. TextTyped(tokens') BY <1>3, <1>6, <1>7, <1>8, <1>9 DEF TextTyped
<1>11. Continues(tokens, tokens') BY <1>3 DEF Continues, cursor
<1> QED BY <1>3, <1>5, <1>10, <1>11

LEMMA SameText ==
  ASSUME TextTyped(tokens), tokens' = tokens
  PROVE  TextTyped(tokens') /\ Continues(tokens, tokens')
<1>1. Len(tokens) \in Nat BY DEF TextTyped
<1> QED BY <1>1 DEF Continues

(* Where the last activation is.                                           *)
LEMMA AtTop ==
  ASSUME IInv, result = 0
  PROVE  \E span, begin :
           /\ Reading(tokens, nodes, stack, span, begin)
           /\ stack # <<>> /\ Len(stack) \in Nat \ {0}
           /\ begin[Len(stack)] \in Nat \ {0} /\ begin[Len(stack)] <= cursor
           /\ Top \in FramesOver(DOMAIN nodes)
           /\ Active(tokens, span, Top, begin[Len(stack)])
<1>1. PICK span, begin : Reading(tokens, nodes, stack, span, begin) BY DEF IInv
<1>2. stack # <<>> /\ Len(stack) \in Nat \ {0} /\ Top \in FramesOver(DOMAIN nodes)
  BY <1>1, OuterFacts DEF IInv, Reading
<1>3. Len(stack) \in 1..Len(stack) BY <1>2
<1>4. begin[Len(stack)] \in Nat \ {0} /\ begin[Len(stack)] <= cursor
  BY <1>1, <1>3 DEF Reading, cursor
<1>5. Active(tokens, span, Top, begin[Len(stack)]) BY <1>1 DEF Reading, Top
<1> QED BY <1>1, <1>2, <1>4, <1>5

(* Nodes are in front of the cursor.                                       *)
LEMMA NodesBehind ==
  ASSUME NEW t, NEW tree, NEW span, Placed(t, tree, span), NEW p \in DOMAIN tree
  PROVE  p \in Nat /\ p < Len(t)
<1>1. PICK a, b : Spans(t, span, tree[p], p, a, b) BY DEF Placed
<1>2. /\ a \in Nat /\ b \in Nat /\ b < Len(t) /\ p \in a..b /\ Len(t) \in Int
  BY <1>1 DEF Spans
<1> QED BY <1>2

-----------------------------------------------------------------------------
(***************************************************************************)
(* Steps.                                                                  *)
(***************************************************************************)

(* A step that goes on reading.                                            *)
LEMMA StillReading ==
  ASSUME result' = 0, TextTyped(tokens'), TreeTyped(nodes'),
         stack' \in Seq(FramesOver(DOMAIN nodes')),
         \E span, begin : Reading(tokens', nodes', stack', span, begin)
  PROVE  IInv'
<1>1. Rejected # 0 /\ MaxTokens \in Nat BY ParserAssumption DEF Rejected
<1>2. RefusedTokensCannotFollow' BY <1>1 DEF RefusedTokensCannotFollow
<1> QED BY <1>1, <1>2 DEF IInv

(* The last activation becomes frame and calls one that reads an operand   *)
(* at precedence q.                                                        *)
LEMMA CallStep ==
  ASSUME IInv, result = 0, NEW span, NEW begin, Reading(tokens, nodes, stack, span, begin),
         NEW frame \in FramesOver(DOMAIN nodes), frame.precedence = Top.precedence,
         NEW q \in LOWEST..PREFIX, Call(frame, q), UNCHANGED <<nodes, result>>,
         TextTyped(tokens'), Continues(tokens, tokens'),
         Waiting(tokens', span, frame, begin[Len(stack)], Len(tokens'), q),
         Starting(tokens', Activation(q), Len(tokens'))
  PROVE  IInv'
<1> DEFINE F == FramesOver(DOMAIN nodes)  n == Len(stack)
<1>1. stack \in Seq(F) /\ stack # <<>> BY DEF IInv, Reading
<1>2. n \in Nat \ {0} /\ Outer \in Seq(F) /\ Len(Outer) = n - 1
      /\ \A k \in 1..n-1 : Outer[k] = stack[k]
  BY <1>1, OuterFacts
<1>3. Activation(q) \in F
  <2>1. 0 \in 0..MaxTokens BY ParserAssumption
  <2>2. <<>> \in Seq(DOMAIN nodes) OBVIOUS
  <2> QED BY <2>1, <2>2 DEF Activation, FramesOver
<1>4. stack' = Append(Append(Outer, frame), Activation(q)) BY DEF Call
<1> DEFINE s == Append(Outer, frame)
<1> HIDE DEF F, n
<1>5. /\ s \in Seq(F) /\ Len(s) = n
      /\ \A k \in 1..n-1 : s[k] = stack[k]
      /\ s[n] = frame
  <2>1. /\ s \in Seq(F) /\ Len(s) = Len(Outer) + 1
        /\ \A k \in 1..Len(Outer) : s[k] = Outer[k]
        /\ s[Len(Outer) + 1] = frame
    <3>1. frame \in F BY DEF F
    <3> QED BY <1>2, <3>1, AppendedFacts
  <2>2. (n - 1) + 1 = n BY <1>2
  <2> QED BY <1>2, <2>1, <2>2
<1> HIDE DEF s
<1>6. /\ stack' \in Seq(F) /\ Len(stack') = n + 1
      /\ \A k \in 1..n : stack'[k] = s[k]
      /\ stack'[n + 1] = Activation(q)
  BY <1>3, <1>4, <1>5, AppendedFacts DEF s
<1>7. n \in 1..n /\ \A k \in 1..n-1 : k \in 1..n BY <1>2
<1>8. /\ \A k \in 1..n-1 : stack'[k] = stack[k]
      /\ stack'[n] = frame
  BY <1>5, <1>6, <1>7
<1>9. stack[n].precedence = frame.precedence BY DEF Top, n
<1>10. Activation(q).precedence = q BY DEF Activation
<1>11. \E after : Reading(tokens', nodes, stack', span, after)
  BY <1>1, <1>6, <1>8, <1>9, <1>10, CallsAnother DEF n
<1>12. DOMAIN nodes' = DOMAIN nodes /\ TreeTyped(nodes') BY DEF IInv
<1> QED BY <1>6, <1>11, <1>12, StillReading DEF F

(* The activation at m goes on as frame, without a new node.               *)
LEMMA GoStep ==
  ASSUME IInv, result = 0, NEW span, NEW begin, Reading(tokens, nodes, stack, span, begin),
         NEW m \in 1..Len(stack), NEW frame \in FramesOver(DOMAIN nodes),
         stack' \in Seq(FramesOver(DOMAIN nodes)), Len(stack') = m,
         \A k \in 1..m-1 : stack'[k] = stack[k], stack'[m] = frame,
         frame.precedence = stack[m].precedence, UNCHANGED <<nodes, result>>,
         TextTyped(tokens'), Continues(tokens, tokens'),
         Active(tokens', span, frame, begin[m])
  PROVE  IInv'
<1>1. Placed(tokens', nodes, span) BY PlacedStays DEF Reading
<1>2. Extends(span, span) BY DEF Extends
<1>3. DOMAIN span \ DOMAIN span = {} OBVIOUS
<1>4. stack \in Seq(FramesOver(DOMAIN nodes)) BY DEF IInv
<1>5. Reading(tokens', nodes, stack', span, begin)
  BY <1>1, <1>2, <1>3, <1>4, GoesOn
<1>6. DOMAIN nodes' = DOMAIN nodes /\ TreeTyped(nodes') BY DEF IInv
<1> QED BY <1>5, <1>6, StillReading

LeftFrame(frame, x) == [frame EXCEPT !.phase = "left", !.at = 0, !.parts = <<x>>]

(* A node is made for the token at x, and is what the activation at m has  *)
(* read.                                                                   *)
LEMMA NodeStep ==
  ASSUME IInv, result = 0, NEW span, NEW begin, Reading(tokens, nodes, stack, span, begin),
         NEW m \in 1..Len(stack), NEW x, x \notin DOMAIN nodes, NEW parts \in Seq(DOMAIN nodes),
         nodes' = Grown(nodes, x, parts), result' = result,
         NEW F, stack' \in Seq(F), Len(stack') = m,
         \A k \in 1..m-1 : stack'[k] = stack[k], stack'[m] = LeftFrame(stack[m], x),
         TextTyped(tokens'), Continues(tokens, tokens'),
         Spans(tokens', Grown(span, x, <<begin[m], Len(tokens') - 1>>), parts, x,
               begin[m], Len(tokens') - 1),
         \A i \in Ops(tokens', begin[m], Len(tokens') - 1) :
           /\ Precedence(tokens'[i]) > stack[m].precedence
           /\ Precedence(tokens'[i]) >= Precedence(tokens'[Len(tokens')])
  PROVE  IInv'
<1> DEFINE a == begin[m]  b == Len(tokens') - 1  wide == Grown(span, x, <<a, b>>)
           D == DOMAIN nodes \cup {x}
<1>1. DOMAIN span = DOMAIN nodes BY DEF Reading, Placed
<1>2. DOMAIN nodes' = D /\ nodes'[x] = parts /\ Extends(nodes, nodes')
  <2> DEFINE tall == Grown(nodes, x, parts)
  <2>1. Extends(nodes, tall) /\ tall[x] = parts /\ DOMAIN tall = DOMAIN nodes \cup {x}
    BY GrownExtends, Zenon
  <2>2. nodes' = tall OBVIOUS
  <2> HIDE DEF tall
  <2> QED BY <2>1, <2>2
<1>3. Extends(span, wide) /\ wide[x] = <<a, b>> /\ DOMAIN wide = DOMAIN span \cup {x}
  <2>1. x \notin DOMAIN span BY <1>1
  <2> QED BY <2>1, GrownExtends, Zenon
<1>4. /\ a \in Nat \ {0} /\ b \in Nat /\ b < Len(tokens') /\ x \in a..b
  BY DEF Spans
<1>5. Placed(tokens', nodes', wide)
  BY PlacedMore DEF Reading
<1> HIDE DEF a, b, wide, D
<1>6. TreeTyped(nodes')
  <2>1. x \in Positions
    <3>1. Len(tokens') \in 1..MaxTokens+1 /\ MaxTokens \in Nat BY ParserAssumption DEF TextTyped
    <3> QED BY <1>4, <3>1 DEF Positions, b
  <2>2. D \subseteq Positions BY <2>1 DEF D, IInv, TreeTyped
  <2>3. DOMAIN nodes \subseteq D BY DEF D
  <2>4. ASSUME NEW p \in D PROVE nodes'[p] \in Seq(D)
    <3>1. CASE p = x BY <1>2, <2>3, <3>1, FramesGrow
    <3>2. CASE p # x
      <4>1. p \in DOMAIN nodes BY <3>2 DEF D
      <4>2. nodes'[p] = nodes[p] /\ nodes[p] \in Seq(DOMAIN nodes)
        BY <1>2, <4>1 DEF Extends, IInv, TreeTyped
      <4> QED BY <2>3, <4>2, FramesGrow
    <3> QED BY <3>1, <3>2
  <2> QED BY <1>2, <2>2, <2>4 DEF TreeTyped
<1>7. /\ stack \in Seq(FramesOver(DOMAIN nodes)) /\ Len(stack) \in Nat
      /\ \A k \in 1..Len(stack) : stack[k] \in FramesOver(DOMAIN nodes)
  BY ElementOfSeq, LenProperties DEF IInv
<1>8. stack[m] \in FramesOver(DOMAIN nodes) BY <1>7
<1>9. /\ LeftFrame(stack[m], x).phase = "left" /\ LeftFrame(stack[m], x).at = 0
      /\ LeftFrame(stack[m], x).parts = <<x>>
      /\ LeftFrame(stack[m], x).precedence = stack[m].precedence
      /\ LeftFrame(stack[m], x) \in FramesOver(D)
  <2>1. <<x>> \in Seq(D) BY DEF D
  <2>2. 0 \in 0..MaxTokens BY ParserAssumption
  <2> QED BY <1>8, <2>1, <2>2 DEF LeftFrame, FramesOver
<1>10. stack' \in Seq(FramesOver(D))
  <2>1. ASSUME NEW k \in 1..m PROVE stack'[k] \in FramesOver(D)
    <3>1. CASE k = m BY <1>9, <3>1
    <3>2. CASE k # m
      <4>1. k \in 1..m-1 /\ k \in 1..Len(stack) BY <1>7, <3>2
      <4>2. stack'[k] = stack[k] BY <4>1
      <4>3. stack[k] \in FramesOver(DOMAIN nodes) BY <1>7, <4>1
      <4>4. DOMAIN nodes \subseteq D BY DEF D
      <4> QED BY <4>2, <4>3, <4>4, FramesGrow
    <3> QED BY <3>1, <3>2
  <2>2. stack' = [k \in 1..m |-> stack'[k]] BY LenProperties
  <2>3. m \in Nat OBVIOUS
  <2>4. \A k \in 1..m : stack'[k] \in FramesOver(D) BY <2>1
  <2> QED BY <2>2, <2>3, <2>4
<1>11. Having(tokens', wide, LeftFrame(stack[m], x), a)
  <2>1. x \in DOMAIN wide BY <1>3
  <2> QED BY <1>3, <1>9, <2>1 DEF Having, a, b
<1>12. \A y \in DOMAIN wide \ DOMAIN span : y \in Nat /\ begin[m] <= y
  BY <1>3, <1>4 DEF a
<1>13. Reading(tokens', nodes', stack', wide, begin)
  <2>1. Active(tokens', wide, stack'[m], begin[m]) BY <1>11 DEF Active, a
  <2>2. Len(stack') \in 1..Len(stack) OBVIOUS
  <2>3. stack'[m].precedence = stack[m].precedence BY <1>9
  <2> QED BY <1>3, <1>5, <1>7, <1>10, <1>12, <2>1, <2>2, <2>3, GoesOn
<1>14. result' = 0 OBVIOUS
<1> QED BY <1>2, <1>6, <1>10, <1>13, <1>14, StillReading DEF D

-----------------------------------------------------------------------------
(***************************************************************************)
(* The actions.                                                            *)
(***************************************************************************)

(* What an activation is when it is said to be in a phase.                 *)
LEMMA PhaseTells ==
  ASSUME NEW t, NEW span, NEW f, NEW a, Active(t, span, f, a)
  PROVE  /\ f.phase = "start" => Starting(t, f, a)
         /\ f.phase = "left"  => Having(t, span, f, a)
         /\ f.phase = "args"  => Collecting(t, span, f, a)
BY DEF Active, Starting, Having, Collecting

LEMMA FrameMade ==
  ASSUME NEW D, Top \in FramesOver(D), NEW at \in 0..MaxTokens, NEW parts \in Seq(D),
         NEW phase \in {"prefix", "infix", "args", "read", "write"},
         NEW f, f = With(phase, at, parts)
  PROVE  /\ f \in FramesOver(D) /\ f.phase = phase /\ f.at = at
         /\ f.parts = parts /\ f.precedence = Top.precedence
BY DEF With, FramesOver

(* An operand begins after an operator or the parenthesis of a read.       *)
Leads(s) == s \notin Operands \cup {"f(", ",", "end"}

LEMMA OperandBegins ==
  ASSUME TextTyped(tokens), consume, Leads(peek), NEW q
  PROVE  Starting(tokens', Activation(q), Len(tokens'))
<1>1. /\ Continues(tokens, tokens') /\ Len(tokens') = cursor + 1 /\ cursor \in Nat
      /\ cursor \in 1..cursor
  <2>1. /\ Continues(tokens, tokens') /\ Len(tokens') = cursor + 1 /\ cursor \in Nat
        /\ cursor \in 1..MaxTokens
    BY NextToken DEF Leads
  <2>2. MaxTokens \in Nat BY ParserAssumption
  <2>3. cursor \in 1..cursor BY <2>1, <2>2
  <2> QED BY <2>1, <2>3
<1>2. tokens'[cursor] = peek BY <1>1 DEF Continues, cursor, peek
<1>3. Len(tokens') - 1 = cursor
  <2>1. (cursor + 1) - 1 = cursor BY <1>1
  <2> QED BY <1>1, <2>1
<1>4. /\ Activation(q).phase = "start" /\ Activation(q).at = 0 /\ Activation(q).parts = <<>>
  BY DEF Activation
<1>5. tokens'[Len(tokens')-1] = peek BY <1>2, <1>3
<1> QED BY <1>4, <1>5 DEF Starting, Leads

(* The token at the cursor is no node yet.                                 *)
LEMMA CursorFree ==
  ASSUME NEW begin, NEW span, Reading(tokens, nodes, stack, span, begin), cursor \in Nat
  PROVE  cursor \notin DOMAIN nodes /\ cursor \notin DOMAIN span
<1>1. DOMAIN span = DOMAIN nodes BY DEF Reading, Placed
<1>2. \A p \in DOMAIN nodes : p \in Nat /\ p < cursor
  BY NodesBehind DEF Reading, cursor
<1> QED BY <1>1, <1>2

LEMMA PrefixStep ==
  ASSUME IInv, Prefix PROVE IInv'
<1> DEFINE n == Len(stack)  f == With("prefix", cursor, <<>>)
<1>1. /\ result = 0 /\ Top.phase = "start" /\ peek \in Prefixes /\ consume
      /\ Call(f, PREFIX) /\ UNCHANGED <<nodes, result>>
  BY DEF Prefix, Running
<1>2. PICK span, begin :
         /\ Reading(tokens, nodes, stack, span, begin)
         /\ begin[n] \in Nat \ {0}
         /\ Top \in FramesOver(DOMAIN nodes)
         /\ Active(tokens, span, Top, begin[n])
  BY <1>1, AtTop
<1>3. begin[n] = cursor BY <1>1, <1>2, PhaseTells DEF Starting, cursor
<1>4. TextTyped(tokens) BY DEF IInv
<1>5. peek \notin Operands \cup {"f(", ",", "end"} BY <1>1 DEF Prefixes, Operands
<1>6. /\ TextTyped(tokens') /\ Continues(tokens, tokens')
      /\ Len(tokens') = cursor + 1 /\ cursor \in 1..MaxTokens /\ cursor \in Nat
  BY <1>1, <1>4, <1>5, NextToken
<1>7. Starting(tokens', Activation(PREFIX), Len(tokens')) BY <1>1, <1>4, <1>5, OperandBegins DEF Leads
<1>8. /\ f \in FramesOver(DOMAIN nodes) /\ f.phase = "prefix" /\ f.at = cursor
      /\ f.parts = <<>> /\ f.precedence = Top.precedence
  <2> DEFINE none == <<>>
  <2>1. cursor \in 0..MaxTokens /\ none \in Seq(DOMAIN nodes) BY <1>6
  <2>2. f = With("prefix", cursor, none) OBVIOUS
  <2>3. "prefix" \in {"prefix", "infix", "args", "read", "write"} OBVIOUS
  <2> HIDE DEF f, none
  <2>4. /\ f \in FramesOver(DOMAIN nodes) /\ f.phase = "prefix" /\ f.at = cursor
        /\ f.parts = none /\ f.precedence = Top.precedence
    BY <1>2, <2>1, <2>2, <2>3, FrameMade
  <2> QED BY <2>4 DEF none
<1>9. cursor \notin DOMAIN span BY <1>2, <1>6, CursorFree
<1> HIDE DEF f
<1>10. tokens'[cursor] \in Prefixes BY <1>1, <1>6 DEF Continues, cursor, peek
<1>11. PrefixFrame(tokens', f, cursor, cursor + 1, PREFIX) BY <1>8, <1>10 DEF PrefixFrame
<1>12. Waiting(tokens', span, f, begin[n], Len(tokens'), PREFIX)
  BY <1>3, <1>6, <1>8, <1>9, <1>11 DEF Waiting
<1>13. PREFIX \in LOWEST..PREFIX BY DEF PREFIX, LOWEST
<1> QED BY <1>1, <1>2, <1>6, <1>7, <1>8, <1>12, <1>13, CallStep

LEMMA ReadOrWriteStep ==
  ASSUME IInv, ReadOrWrite PROVE IInv'
<1> DEFINE n == Len(stack)  kind == IF peek = "read(" THEN "read" ELSE "write"
           f == With(kind, cursor, <<>>)
<1>1. /\ result = 0 /\ Top.phase = "start" /\ peek \in {"read(", "write("} /\ consume
      /\ Call(f, LOWEST) /\ UNCHANGED <<nodes, result>>
  BY DEF ReadOrWrite, Running
<1>2. PICK span, begin :
         /\ Reading(tokens, nodes, stack, span, begin)
         /\ begin[n] \in Nat \ {0}
         /\ Top \in FramesOver(DOMAIN nodes)
         /\ Active(tokens, span, Top, begin[n])
  BY <1>1, AtTop
<1>3. begin[n] = cursor BY <1>1, <1>2, PhaseTells DEF Starting, cursor
<1>4. TextTyped(tokens) BY DEF IInv
<1>5. peek \notin Operands \cup {"f(", ",", "end"} BY <1>1 DEF Operands
<1>6. /\ TextTyped(tokens') /\ Continues(tokens, tokens')
      /\ Len(tokens') = cursor + 1 /\ cursor \in 1..MaxTokens /\ cursor \in Nat
  BY <1>1, <1>4, <1>5, NextToken
<1>7. Starting(tokens', Activation(LOWEST), Len(tokens')) BY <1>1, <1>4, <1>5, OperandBegins DEF Leads
<1>8. /\ f \in FramesOver(DOMAIN nodes) /\ f.phase = kind /\ f.at = cursor
      /\ f.parts = <<>> /\ f.precedence = Top.precedence
  <2> DEFINE none == <<>>
  <2>1. cursor \in 0..MaxTokens /\ none \in Seq(DOMAIN nodes) BY <1>6
  <2>2. kind \in {"prefix", "infix", "args", "read", "write"} OBVIOUS
  <2>3. f = With(kind, cursor, none) OBVIOUS
  <2> HIDE DEF kind, f, none
  <2>4. /\ f \in FramesOver(DOMAIN nodes) /\ f.phase = kind /\ f.at = cursor
        /\ f.parts = none /\ f.precedence = Top.precedence
    BY <1>2, <2>1, <2>2, <2>3, FrameMade
  <2> QED BY <2>4 DEF none
<1>9. cursor \notin DOMAIN span BY <1>2, <1>6, CursorFree
<1> HIDE DEF f
<1>10. tokens'[cursor] = peek BY <1>6 DEF Continues, cursor, peek
<1>11. \/ f.phase = "read" /\ tokens'[cursor] = "read("
       \/ f.phase = "write" /\ tokens'[cursor] = "write("
  BY <1>1, <1>8, <1>10
<1>12. AddressFrame(tokens', f, cursor, cursor + 1, LOWEST) BY <1>8, <1>11 DEF AddressFrame
<1>13. Waiting(tokens', span, f, begin[n], Len(tokens'), LOWEST)
  BY <1>3, <1>6, <1>8, <1>9, <1>12 DEF Waiting
<1>14. LOWEST \in LOWEST..PREFIX BY DEF PREFIX, LOWEST
<1> QED BY <1>1, <1>2, <1>6, <1>7, <1>8, <1>13, <1>14, CallStep

LEMMA InfixStep ==
  ASSUME IInv, Infix PROVE IInv'
<1> DEFINE n == Len(stack)  f == With("infix", cursor, Top.parts)  q == Precedence(peek)
<1>1. /\ result = 0 /\ Top.phase = "left" /\ Top.precedence < q /\ consume
      /\ Call(f, q) /\ UNCHANGED <<nodes, result>>
  BY DEF Infix, Running
<1>2. PICK span, begin :
         /\ Reading(tokens, nodes, stack, span, begin)
         /\ begin[n] \in Nat \ {0} /\ begin[n] <= cursor
         /\ Top \in FramesOver(DOMAIN nodes)
         /\ Active(tokens, span, Top, begin[n])
  BY <1>1, AtTop
<1> DEFINE a == begin[n]
<1>3. Having(tokens, span, Top, a) BY <1>1, <1>2, PhaseTells
<1>4. TextTyped(tokens) BY DEF IInv
<1>5. q \in LOWEST..PREFIX /\ q # 0
  <2>1. Top.precedence \in 0..PREFIX BY <1>2 DEF FramesOver, LOWEST
  <2>2. q \in 0..PREFIX BY Precedences
  <2> HIDE DEF q
  <2> QED BY <1>1, <2>1, <2>2 DEF LOWEST, PREFIX
<1>6. peek \in Operators
  <2>1. peek \in AllOperators BY <1>5, Precedences
  <2>2. peek \in TokenTypes
    <3>1. Len(tokens) \in 1..Len(tokens) BY <1>4 DEF TextTyped
    <3> QED BY <1>4, <3>1, ElementOfSeq DEF TextTyped, peek, cursor
  <2>3. AllOperators \cap (Openings \cup {"x", ")", ",", "end"}) = {} BY AllApart
  <2> QED BY <2>1, <2>2, <2>3 DEF TokenTypes
<1>7. peek \notin Operands \cup {"f(", ",", "end"}
  BY <1>6, OperatorsApart DEF Operands, Openings
<1>8. /\ TextTyped(tokens') /\ Continues(tokens, tokens')
      /\ Len(tokens') = cursor + 1 /\ cursor \in 1..MaxTokens /\ cursor \in Nat
  BY <1>1, <1>4, <1>7, NextToken
<1>9. Starting(tokens', Activation(q), Len(tokens')) BY <1>1, <1>4, <1>7, OperandBegins DEF Leads
<1>10. PICK v \in DOMAIN span : Top.parts = <<v>> /\ span[v] = <<a, cursor - 1>>
  BY <1>3 DEF Having, cursor
<1>11. DOMAIN span = DOMAIN nodes BY <1>2 DEF Reading, Placed
<1>12. /\ f \in FramesOver(DOMAIN nodes) /\ f.phase = "infix" /\ f.at = cursor
       /\ f.parts = <<v>> /\ f.precedence = Top.precedence
  <2>1. cursor \in 0..MaxTokens /\ Top.parts \in Seq(DOMAIN nodes) BY <1>8, <1>10, <1>11
  <2>2. f = With("infix", cursor, Top.parts) OBVIOUS
  <2> HIDE DEF f
  <2> QED BY <1>2, <1>10, <2>1, <2>2, FrameMade
<1>13. cursor \notin DOMAIN span BY <1>2, <1>8, CursorFree
<1> HIDE DEF f, a, q
<1>14. tokens'[cursor] = peek BY <1>8 DEF Continues, cursor, peek
<1>15. a \in Nat \ {0} /\ a <= cursor - 1
  <2>1. PICK c, d : Spans(tokens, span, nodes[v], v, c, d) BY <1>2, <1>11 DEF Reading, Placed
  <2>2. span[v] = <<c, d>> /\ c <= d BY <2>1 DEF Spans
  <2>3. c = a /\ d = cursor - 1 BY <1>10, <2>2
  <2> QED BY <1>2, <2>2, <2>3 DEF a
<1>16. ASSUME NEW i \in Ops(tokens', a, cursor - 1) PROVE Precedence(tokens'[i]) >= q
  <2>1. cursor - 1 \in Nat /\ cursor - 1 <= Len(tokens) BY <1>8 DEF cursor
  <2>2. Ops(tokens', a, cursor - 1) = Ops(tokens, a, cursor - 1)
    BY <1>8, <1>15, <2>1, TextStays
  <2>3. i \in Ops(tokens, a, cursor - 1) BY <2>2
  <2>4. i \in a+1..cursor-1 BY DEF Ops
  <2>5. i \in 1..Len(tokens) BY <1>8, <1>15, <2>4 DEF cursor
  <2>6. tokens'[i] = tokens[i] BY <1>8, <2>5 DEF Continues
  <2> QED BY <1>3, <2>3, <2>6 DEF Having, q, peek, cursor
<1>17. InfixFrame(tokens', span, f, a, cursor + 1, q)
  BY <1>1, <1>6, <1>10, <1>12, <1>14, <1>16 DEF InfixFrame, q
<1>18. cursor \in a..cursor
  BY <1>2, <1>8, <1>15 DEF a
<1>19. Waiting(tokens', span, f, a, Len(tokens'), q)
  <2>1. (cursor + 1) - 1 = cursor /\ cursor + 1 \in Nat /\ cursor + 1 <= cursor + 1 BY <1>8
  <2> QED BY <1>8, <1>12, <1>13, <1>15, <1>17, <1>18, <2>1 DEF Waiting
<1> QED BY <1>1, <1>2, <1>5, <1>8, <1>9, <1>12, <1>19, CallStep DEF a

LEMMA ArgumentStep ==
  ASSUME IInv, Argument PROVE IInv'
<1> DEFINE n == Len(stack)  f == Top
<1>1. /\ result = 0 /\ Top.phase = "args" /\ peek # ")"
      /\ Call(f, LOWEST) /\ UNCHANGED <<tokens, nodes, result>>
  BY DEF Argument, Running
<1>2. PICK span, begin :
         /\ Reading(tokens, nodes, stack, span, begin)
         /\ begin[n] \in Nat \ {0} /\ begin[n] <= cursor
         /\ Top \in FramesOver(DOMAIN nodes)
         /\ Active(tokens, span, Top, begin[n])
  BY <1>1, AtTop
<1> DEFINE a == begin[n]
<1>3. Collecting(tokens, span, Top, a) BY <1>1, <1>2, PhaseTells
<1>4. TextTyped(tokens') /\ Continues(tokens, tokens')
  BY <1>1, SameText DEF IInv
<1>5. ArgumentsTo(tokens, span, Top.parts, a, cursor)
  BY <1>1, <1>3 DEF Collecting, cursor, peek
<1>6. /\ Top.at = a /\ tokens[a] = "f(" /\ a < cursor /\ a \notin DOMAIN span
  BY <1>3 DEF Collecting, cursor
<1>7. cursor \in Nat BY <1>4 DEF Continues, cursor
<1>8. Waiting(tokens', span, f, a, Len(tokens'), LOWEST)
  <2>1. ArgumentsFrame(tokens, span, f, a, cursor, LOWEST)
    BY <1>1, <1>5, <1>6 DEF ArgumentsFrame
  <2>2. a \in a..cursor-1 /\ cursor <= cursor BY <1>2, <1>6, <1>7
  <2>3. Waiting(tokens, span, f, a, cursor, LOWEST)
    BY <1>2, <1>6, <1>7, <2>1, <2>2 DEF Waiting, cursor
  <2> QED BY <1>1, <2>3 DEF cursor
<1>9. tokens[cursor - 1] \in {"f(", ","}
  <2>1. cursor - 1 = a \/ cursor - 1 \in Commas(tokens, a, cursor) BY <1>5 DEF ArgumentsTo
  <2> QED BY <1>6, <2>1 DEF Commas, Comma
<1>10. Starting(tokens', Activation(LOWEST), Len(tokens'))
  <2>1. /\ Activation(LOWEST).phase = "start" /\ Activation(LOWEST).at = 0
        /\ Activation(LOWEST).parts = <<>>
    BY DEF Activation
  <2>2. tokens[cursor - 1] \notin Operands BY <1>9 DEF Operands
  <2> QED BY <1>1, <2>1, <2>2 DEF Starting, cursor, peek
<1>11. LOWEST \in LOWEST..PREFIX BY DEF PREFIX, LOWEST
<1>12. UNCHANGED <<nodes, result>> BY <1>1
<1> QED BY <1>1, <1>2, <1>4, <1>8, <1>10, <1>11, <1>12, CallStep

(* The stack with another frame on top.                                    *)
LEMMA TopReplaced ==
  ASSUME NEW F, stack \in Seq(F), stack # <<>>, NEW G, F \subseteq G, NEW f \in G
  PROVE  /\ Append(Outer, f) \in Seq(G) /\ Len(Append(Outer, f)) = Len(stack)
         /\ \A k \in 1..Len(stack)-1 : Append(Outer, f)[k] = stack[k]
         /\ Append(Outer, f)[Len(stack)] = f
         /\ Len(stack) \in 1..Len(stack)
<1> DEFINE n == Len(stack)
<1>1. n \in Nat \ {0} /\ Outer \in Seq(F) /\ Len(Outer) = n - 1
      /\ \A k \in 1..n-1 : Outer[k] = stack[k]
  BY OuterFacts
<1>2. Outer \in Seq(G) BY <1>1
<1> HIDE DEF n
<1>3. /\ Append(Outer, f) \in Seq(G) /\ Len(Append(Outer, f)) = Len(Outer) + 1
      /\ \A k \in 1..Len(Outer) : Append(Outer, f)[k] = Outer[k]
      /\ Append(Outer, f)[Len(Outer) + 1] = f
  BY <1>2, AppendedFacts
<1>4. (n - 1) + 1 = n /\ n \in 1..n BY <1>1
<1>5. Len(Append(Outer, f)) = n BY <1>1, <1>3, <1>4
<1>6. \A k \in 1..n-1 : Append(Outer, f)[k] = stack[k] BY <1>1, <1>3
<1>7. Append(Outer, f)[n] = f BY <1>1, <1>3, <1>4
<1> QED BY <1>3, <1>4, <1>5, <1>6, <1>7 DEF n

(* The last of a sequence replaced.                                        *)
LEMMA LastReplaced ==
  ASSUME NEW F, NEW G, F \subseteq G, NEW o \in Seq(F), Len(o) \in Nat \ {0}, NEW f \in G,
         NEW s, s = [o EXCEPT ![Len(o)] = f]
  PROVE  /\ s \in Seq(G) /\ Len(s) = Len(o)
         /\ \A k \in 1..Len(o)-1 : s[k] = o[k]
         /\ s[Len(o)] = f
<1> DEFINE m == Len(o)
<1>1. m \in 1..m /\ o \in Seq(G) OBVIOUS
<1>2. s = [o EXCEPT ![m] = f] OBVIOUS
<1> HIDE DEF m
<1>3. s \in Seq(G) /\ Len(s) = Len(o) /\ \A j \in 1..Len(o) : s[j] = IF j = m THEN f ELSE o[j]
  BY <1>1, <1>2, ExceptSeq DEF m
<1>4. \A k \in 1..Len(o)-1 : k \in 1..Len(o) /\ k # m BY <1>1 DEF m
<1> QED BY <1>1, <1>3, <1>4 DEF m

(* What the text of a node is.                                             *)
LEMMA NodeText ==
  ASSUME NEW t, NEW tree, NEW span, Placed(t, tree, span), NEW v \in DOMAIN span,
         NEW c, NEW d, span[v] = <<c, d>>
  PROVE  Whole(t, c, d) /\ c \in Nat \ {0} /\ d \in Nat /\ c <= d /\ d < Len(t)
<1>1. v \in DOMAIN tree BY DEF Placed
<1>2. PICK a, b : Spans(t, span, tree[v], v, a, b) BY <1>1 DEF Placed
<1>3. span[v] = <<a, b>> BY <1>2 DEF Spans
<1>4. a = c /\ b = d BY <1>3
<1> QED BY <1>2, <1>4 DEF Spans, Whole

(* The last activation makes a node.                                       *)
LEMMA LeftStep ==
  ASSUME IInv, result = 0, NEW span, NEW begin, Reading(tokens, nodes, stack, span, begin),
         NEW x, x \notin DOMAIN nodes, NEW parts \in Seq(DOMAIN nodes),
         Left(Top, x, parts), result' = result,
         TextTyped(tokens'), Continues(tokens, tokens'),
         NEW a, a = begin[Len(stack)], a \in Nat \ {0},
         NEW b, b = Len(tokens') - 1, b \in Nat, x \in a..b,
         Whole(tokens', a, b), Ops(tokens', a, b) = {},
         NodeOf(tokens', Grown(span, x, <<a, b>>), parts, x, a, b)
  PROVE  IInv'
<1> DEFINE n == Len(stack)  D == DOMAIN nodes \cup {x}
<1>1. stack \in Seq(FramesOver(DOMAIN nodes)) /\ stack # <<>> BY DEF IInv, Reading
<1>2. Top \in FramesOver(DOMAIN nodes) BY <1>1, OuterFacts
<1>3. LeftFrame(Top, x) \in FramesOver(D)
  <2>1. <<x>> \in Seq(D) OBVIOUS
  <2>2. 0 \in 0..MaxTokens BY ParserAssumption
  <2> QED BY <1>2, <2>1, <2>2 DEF LeftFrame, FramesOver
<1>4. FramesOver(DOMAIN nodes) \subseteq FramesOver(D)
  <2>1. DOMAIN nodes \subseteq D OBVIOUS
  <2> HIDE DEF D
  <2> QED BY <2>1, FramesGrow
<1>5. stack' = Append(Outer, LeftFrame(Top, x)) /\ nodes' = Grown(nodes, x, parts)
  BY DEF Left, LeftFrame, Grown
<1>6. Top = stack[n] BY DEF Top
<1> HIDE DEF D
<1> DEFINE f == LeftFrame(Top, x)
<1>7. f \in FramesOver(D) BY <1>3
<1> HIDE DEF f
<1>8. /\ Append(Outer, f) \in Seq(FramesOver(D)) /\ Len(Append(Outer, f)) = n
      /\ \A k \in 1..n-1 : Append(Outer, f)[k] = stack[k]
      /\ Append(Outer, f)[n] = f /\ n \in 1..n
  BY <1>1, <1>4, <1>7, TopReplaced
<1>9. stack' = Append(Outer, f) BY <1>5 DEF f
<1>10. f = LeftFrame(stack[n], x) BY <1>6 DEF f
<1>11. x \notin DOMAIN span BY DEF Reading, Placed
<1>12. Grown(span, x, <<a, b>>)[x] = <<a, b>> BY DEF Grown
<1>13. b < Len(tokens')
  <2>1. Len(tokens') \in Nat BY DEF Continues
  <2> QED BY <2>1
<1>14. Spans(tokens', Grown(span, x, <<a, b>>), parts, x, a, b)
  BY <1>12, <1>13 DEF Spans
<1> HIDE DEF n
<1>15. stack' \in Seq(FramesOver(D)) /\ Len(stack') = n /\ n \in 1..n
       /\ \A k \in 1..n-1 : stack'[k] = stack[k]
  BY <1>8, <1>9
<1>16. stack'[n] = LeftFrame(stack[n], x) BY <1>8, <1>9, <1>10
<1>17. n \in 1..Len(stack) BY <1>8 DEF n
<1>18. a = begin[n] BY DEF n
<1>19. \A i \in Ops(tokens', begin[n], Len(tokens') - 1) :
         /\ Precedence(tokens'[i]) > stack[n].precedence
         /\ Precedence(tokens'[i]) >= Precedence(tokens'[Len(tokens')])
  BY <1>18
<1>20. Spans(tokens', Grown(span, x, <<begin[n], Len(tokens') - 1>>), parts, x,
             begin[n], Len(tokens') - 1)
  BY <1>14, <1>18
<1> QED BY <1>5, <1>15, <1>16, <1>17, <1>19, <1>20, NodeStep

LEMMA OperandStep ==
  ASSUME IInv, Operand PROVE IInv'
<1> DEFINE n == Len(stack)
<1>1. /\ result = 0 /\ Top.phase = "start" /\ peek = "x" /\ consume
      /\ Left(Top, cursor, <<>>) /\ result' = result
  BY DEF Operand, Running
<1>2. PICK span, begin :
         /\ Reading(tokens, nodes, stack, span, begin)
         /\ begin[n] \in Nat \ {0}
         /\ Active(tokens, span, Top, begin[n])
  BY <1>1, AtTop
<1>3. begin[n] = cursor BY <1>1, <1>2, PhaseTells DEF Starting, cursor
<1>4. TextTyped(tokens) BY DEF IInv
<1>5. peek # "end" BY <1>1
<1>6. /\ TextTyped(tokens') /\ Continues(tokens, tokens')
      /\ Len(tokens') = cursor + 1 /\ cursor \in 1..MaxTokens /\ cursor \in Nat
  BY <1>1, <1>4, <1>5, NextToken
<1>7. cursor \notin DOMAIN nodes BY <1>2, <1>6, CursorFree
<1>8. tokens'[cursor] = "x" BY <1>1, <1>6 DEF Continues, cursor, peek
<1>9. Whole(tokens', cursor, cursor) /\ Ops(tokens', cursor, cursor) = {}
  BY <1>6, <1>8, OneOperand
<1>10. NodeOf(tokens', Grown(span, cursor, <<cursor, cursor>>), <<>>, cursor, cursor, cursor)
  BY <1>8, <1>9 DEF NodeOf, Plain
<1>11. cursor = Len(tokens') - 1
  <2>1. (cursor + 1) - 1 = cursor BY <1>6
  <2> QED BY <1>6, <2>1
<1>12. cursor \in Nat \ {0} /\ cursor \in cursor..cursor BY <1>2, <1>3
<1>13. <<>> \in Seq(DOMAIN nodes) OBVIOUS
<1> DEFINE none == <<>>
<1>14. /\ none \in Seq(DOMAIN nodes) /\ Left(Top, cursor, none)
       /\ NodeOf(tokens', Grown(span, cursor, <<cursor, cursor>>), none, cursor, cursor, cursor)
  BY <1>1, <1>10, <1>13
<1> HIDE DEF none
<1> QED BY <1>1, <1>2, <1>3, <1>6, <1>7, <1>9, <1>11, <1>12, <1>14, LeftStep

LEMMA FunctionCallStep ==
  ASSUME IInv, FunctionCall PROVE IInv'
<1> DEFINE n == Len(stack)  f == With("args", cursor, <<>>)
<1>1. /\ result = 0 /\ Top.phase = "start" /\ peek = "f(" /\ consume
      /\ Go(f) /\ UNCHANGED <<nodes, result>>
  BY DEF FunctionCall, Running
<1>2. PICK span, begin :
         /\ Reading(tokens, nodes, stack, span, begin)
         /\ begin[n] \in Nat \ {0}
         /\ stack # <<>>
         /\ Top \in FramesOver(DOMAIN nodes)
         /\ Active(tokens, span, Top, begin[n])
  BY <1>1, AtTop
<1>3. begin[n] = cursor BY <1>1, <1>2, PhaseTells DEF Starting, cursor
<1>4. TextTyped(tokens) BY DEF IInv
<1>5. peek # "end" BY <1>1
<1>6. /\ TextTyped(tokens') /\ Continues(tokens, tokens')
      /\ Len(tokens') = cursor + 1 /\ cursor \in 1..MaxTokens /\ cursor \in Nat
  BY <1>1, <1>4, <1>5, NextToken
<1>7. cursor \notin DOMAIN span BY <1>2, <1>6, CursorFree
<1>8. tokens'[cursor] = "f(" BY <1>1, <1>6 DEF Continues, cursor, peek
<1>9. /\ f \in FramesOver(DOMAIN nodes) /\ f.phase = "args" /\ f.at = cursor
      /\ f.parts = <<>> /\ f.precedence = Top.precedence
  <2> DEFINE none == <<>>
  <2>1. cursor \in 0..MaxTokens /\ none \in Seq(DOMAIN nodes) BY <1>6
  <2>2. f = With("args", cursor, none) OBVIOUS
  <2>3. "args" \in {"prefix", "infix", "args", "read", "write"} OBVIOUS
  <2> HIDE DEF f, none
  <2>4. /\ f \in FramesOver(DOMAIN nodes) /\ f.phase = "args" /\ f.at = cursor
        /\ f.parts = none /\ f.precedence = Top.precedence
    BY <1>2, <2>1, <2>2, <2>3, FrameMade
  <2> QED BY <2>4 DEF none
<1> HIDE DEF f
<1>10. ArgumentsTo(tokens', span, f.parts, cursor, cursor + 1)
  <2>1. Inside(tokens', cursor, cursor + 1) /\ Commas(tokens', cursor, cursor + 1) = {}
    BY <1>6, NothingInside
  <2>2. Listed(span, f.parts, cursor, {}, {}) BY <1>9, NoneListed
  <2>3. (cursor + 1) - 1 = cursor BY <1>6
  <2> QED BY <2>1, <2>2, <2>3 DEF ArgumentsTo
<1>11. cursor < cursor + 1 BY <1>6
<1>12. Collecting(tokens', span, f, cursor)
  BY <1>6, <1>7, <1>8, <1>9, <1>10, <1>11 DEF Collecting
<1>13. stack \in Seq(FramesOver(DOMAIN nodes)) BY DEF IInv
<1>14. /\ Append(Outer, f) \in Seq(FramesOver(DOMAIN nodes)) /\ Len(Append(Outer, f)) = n
       /\ \A k \in 1..n-1 : Append(Outer, f)[k] = stack[k]
       /\ Append(Outer, f)[n] = f /\ n \in 1..n
  BY <1>2, <1>9, <1>13, TopReplaced
<1>15. stack' = Append(Outer, f) BY <1>1 DEF Go
<1>16. f.precedence = stack[n].precedence BY <1>9 DEF Top
<1>17. Active(tokens', span, f, begin[n]) BY <1>3, <1>12 DEF Active
<1> QED BY <1>1, <1>2, <1>6, <1>9, <1>14, <1>15, <1>16, <1>17, GoStep

LEMMA EndCallStep ==
  ASSUME IInv, EndCall PROVE IInv'
<1> DEFINE n == Len(stack)
<1>1. /\ result = 0 /\ Top.phase = "args" /\ peek = ")" /\ consume
      /\ Left(Top, Top.at, Top.parts) /\ result' = result
  BY DEF EndCall, Running
<1>2. PICK span, begin :
         /\ Reading(tokens, nodes, stack, span, begin)
         /\ begin[n] \in Nat \ {0}
         /\ Top \in FramesOver(DOMAIN nodes)
         /\ Active(tokens, span, Top, begin[n])
  BY <1>1, AtTop
<1> DEFINE x == begin[n]
<1>3. Collecting(tokens, span, Top, x) BY <1>1, <1>2, PhaseTells
<1> HIDE DEF n, x
<1>4. TextTyped(tokens) BY DEF IInv
<1>5. peek # "end" BY <1>1
<1>6. /\ TextTyped(tokens') /\ Continues(tokens, tokens')
      /\ Len(tokens') = cursor + 1 /\ cursor \in 1..MaxTokens /\ cursor \in Nat
  BY <1>1, <1>4, <1>5, NextToken
<1>7. x \in Nat \ {0} BY <1>2 DEF x
<1>8. Top.at = x /\ tokens[x] = "f(" /\ x < cursor /\ x \notin DOMAIN span
  BY <1>3 DEF Collecting, cursor
<1>9. x \notin DOMAIN nodes BY <1>2, <1>8 DEF Reading, Placed
<1>10. tokens'[cursor] = ")" BY <1>1, <1>6 DEF Continues, cursor, peek
<1>11. tokens'[x] = "f("
  <2>1. x \in 1..Len(tokens) BY <1>6, <1>7, <1>8 DEF cursor
  <2> QED BY <1>6, <1>8, <2>1 DEF Continues
<1> DEFINE C == Commas(tokens, x, cursor)
<1>12. Inside(tokens, x, cursor) BY <1>3 DEF Collecting, ArgumentsTo, cursor
<1>13. Listed(span, Top.parts, x, C, EndsOf(C, x, cursor))
  <2>1. CASE ArgumentsTo(tokens, span, Top.parts, x, cursor)
    <3>1. cursor - 1 \in C \cup {x} /\ Listed(span, Top.parts, x, C, C)
      BY <2>1 DEF ArgumentsTo
    <3>2. cursor - 1 = x => cursor = x + 1 BY <1>6, <1>7
    <3>3. EndsOf(C, x, cursor) = C
      <4> HIDE DEF C
      <4> QED BY <3>1, <3>2 DEF EndsOf
    <3> QED BY <3>1, <3>3
  <2>2. CASE cursor - 1 \notin C \cup {x} /\ Listed(span, Top.parts, x, C, C \cup {cursor})
    <3>1. cursor # x + 1 BY <1>6, <1>7, <2>2
    <3>2. EndsOf(C, x, cursor) = C \cup {cursor}
      <4> HIDE DEF C
      <4> QED BY <2>2, <3>1 DEF EndsOf
    <3> QED BY <2>2, <3>2
  <2> QED BY <1>3, <2>1, <2>2 DEF Collecting, cursor
<1>14. Commas(tokens', x, cursor) = C /\ Inside(tokens', x, cursor)
  <2>1. cursor <= Len(tokens) BY <1>6 DEF cursor
  <2> QED BY <1>6, <1>7, <1>12, <2>1, TextStays
<1> DEFINE wide == Grown(span, x, <<x, cursor>>)
<1>15. Listed(wide, Top.parts, x, C, EndsOf(C, x, cursor))
  <2>1. Extends(span, wide) BY <1>8, GrownExtends, Zenon
  <2> HIDE DEF C, wide
  <2> QED BY <1>13, <2>1, ListedStays DEF Extends
<1>16. Whole(tokens', x, cursor) /\ Ops(tokens', x, cursor) = {}
  <2>1. tokens'[x] \in Openings BY <1>11 DEF Openings
  <2>2. DepthOf(tokens', x + 1, cursor) = 0 /\ \A q \in x+1..cursor : DepthOf(tokens', x + 1, q) >= 0
    BY <1>14 DEF Inside
  <2>3. x \in Nat BY <1>7
  <2> QED BY <1>6, <1>8, <1>10, <2>1, <2>2, <2>3, ParenthesisOperand
<1>17. NodeOf(tokens', wide, Top.parts, x, x, cursor)
  <2>1. tokens'[x] \in Openings BY <1>11 DEF Openings
  <2> HIDE DEF C, wide
  <2>2. Parenthesised(tokens', wide, Top.parts, x, x, cursor)
    BY <1>8, <1>10, <1>14, <1>15, <1>16, <2>1 DEF Parenthesised
  <2> QED BY <2>2 DEF NodeOf
<1>18. cursor = Len(tokens') - 1
  <2>1. (cursor + 1) - 1 = cursor BY <1>6
  <2> QED BY <1>6, <2>1
<1>19. x \in x..cursor BY <1>6, <1>7, <1>8
<1>20. Top.parts \in Seq(DOMAIN nodes) BY <1>2 DEF FramesOver
<1>21. Left(Top, x, Top.parts) BY <1>1, <1>8
<1>22. x = begin[Len(stack)] BY DEF x, n
<1> QED BY <1>1, <1>2, <1>6, <1>7, <1>9, <1>16, <1>17, <1>18, <1>19, <1>20, <1>21, <1>22, LeftStep

(* What a return finds: the operand that was read for the activation below.*)
LEMMA AtReturn ==
  ASSUME IInv, NEW phase, Returns(phase)
  PROVE  /\ result = 0 /\ Len(stack) > 1 /\ TextTyped(tokens) /\ cursor \in Nat
         /\ stack \in Seq(FramesOver(DOMAIN nodes))
         /\ Below.phase = phase /\ Top.precedence >= Precedence(peek)
         /\ Below \in FramesOver(DOMAIN nodes) /\ Below = stack[Len(stack) - 1]
         /\ Len(stack) - 1 \in 1..Len(stack)
         /\ \E span, begin, a, c :
              /\ Reading(tokens, nodes, stack, span, begin)
              /\ a = begin[Len(stack) - 1] /\ a \in Nat \ {0} /\ c \in Nat
              /\ Waiting(tokens, span, Below, a, c, Top.precedence)
              /\ Having(tokens, span, Top, c)
              /\ Value \in DOMAIN nodes /\ Value \in DOMAIN span /\ span[Value] = <<c, cursor - 1>>
<1> DEFINE n == Len(stack)  m == n - 1
<1>1. /\ result = 0 /\ Top.phase = "left" /\ Top.precedence >= Precedence(peek)
      /\ n > 1 /\ Below.phase = phase
  BY DEF Returns, Running, Below
<1>2. PICK span, begin :
         /\ Reading(tokens, nodes, stack, span, begin)
         /\ n \in Nat \ {0}
         /\ begin[n] \in Nat \ {0}
         /\ Active(tokens, span, Top, begin[n])
  BY <1>1, AtTop
<1>3. Having(tokens, span, Top, begin[n]) BY <1>1, <1>2, PhaseTells
<1>4. stack \in Seq(FramesOver(DOMAIN nodes)) BY DEF IInv
<1>5. m \in 1..n /\ Below = stack[m] /\ Below \in FramesOver(DOMAIN nodes)
  <2>1. stack # <<>> BY <1>2 DEF Reading
  <2>2. /\ Outer \in Seq(FramesOver(DOMAIN nodes)) /\ Len(Outer) = m
        /\ \A k \in 1..m : Outer[k] = stack[k]
    BY <1>4, <2>1, OuterFacts
  <2>3. m \in 1..n /\ m \in 1..m BY <1>1, <1>2
  <2> HIDE DEF m, n
  <2>4. Outer[m] = stack[m] /\ Outer[m] \in FramesOver(DOMAIN nodes)
    BY <2>2, <2>3, ElementOfSeq
  <2> QED BY <2>2, <2>3, <2>4 DEF Below
<1>6. /\ begin[m] \in Nat \ {0}
      /\ Waiting(tokens, span, Below, begin[m], begin[n], Top.precedence)
  <2>1. m \in 1..n-1 /\ m + 1 = n BY <1>1, <1>2
  <2>2. begin[m] \in Nat \ {0} BY <1>2, <1>5 DEF Reading
  <2>3. Waiting(tokens, span, stack[m], begin[m], begin[m + 1], stack[m + 1].precedence)
    BY <1>2, <2>1 DEF Reading
  <2> HIDE DEF m, n
  <2>4. Top = stack[n] BY DEF Top, n
  <2> QED BY <1>5, <2>1, <2>2, <2>3, <2>4
<1>7. DOMAIN span = DOMAIN nodes BY <1>2 DEF Reading, Placed
<1>8. Value \in DOMAIN span /\ span[Value] = <<begin[n], cursor - 1>>
  <2>1. PICK v \in DOMAIN span : Top.parts = <<v>> /\ span[v] = <<begin[n], Len(tokens) - 1>>
    BY <1>3 DEF Having
  <2>2. Value = v BY <2>1 DEF Value
  <2> QED BY <2>1, <2>2 DEF cursor
<1>9. TextTyped(tokens) BY DEF IInv
<1>10. cursor \in Nat BY <1>9 DEF TextTyped, cursor
<1>11. begin[n] \in Nat BY <1>2
<1> HIDE DEF m
<1> QED BY <1>1, <1>2, <1>3, <1>4, <1>5, <1>6, <1>7, <1>8, <1>9, <1>10, <1>11 DEF m

(* What the node that is made for the activation below does to the stack.  *)
LEMMA BelowCompleted ==
  ASSUME stack \in Seq(FramesOver(DOMAIN nodes)), Len(stack) > 1, NEW D, DOMAIN nodes \subseteq D,
         Below.at \in D, Complete
  PROVE  /\ Below \in FramesOver(DOMAIN nodes) /\ Below = stack[Len(stack) - 1]
         /\ Len(stack) - 1 \in 1..Len(stack)
         /\ stack' \in Seq(FramesOver(D)) /\ Len(stack') = Len(stack) - 1
         /\ \A k \in 1..(Len(stack)-1)-1 : stack'[k] = stack[k]
         /\ stack'[Len(stack) - 1] = LeftFrame(Below, Below.at)
<1> DEFINE F == FramesOver(DOMAIN nodes)  G == FramesOver(D)  f == LeftFrame(Below, Below.at)
           m == Len(stack) - 1
<1>1. stack # <<>>
  <2>1. Len(<<>>) = 0 OBVIOUS
  <2> QED BY <2>1
<1>2. F \subseteq G BY FramesGrow
<1>3. /\ m \in 1..Len(stack) /\ m \in Nat \ {0} /\ Outer \in Seq(F) /\ Len(Outer) = m
      /\ \A k \in 1..m : Outer[k] = stack[k]
  <2>1. /\ Len(stack) \in Nat \ {0} /\ Outer \in Seq(F) /\ Len(Outer) = m
        /\ \A k \in 1..m : Outer[k] = stack[k]
    BY <1>1, OuterFacts
  <2>2. m \in 1..Len(stack) /\ m \in Nat \ {0} BY <2>1
  <2> QED BY <2>1, <2>2
<1> HIDE DEF F, m
<1>4. Below \in F /\ Below = stack[m]
  <2>1. m \in 1..m BY <1>3
  <2>2. Outer[m] \in F BY <1>3, <2>1, ElementOfSeq
  <2> QED BY <1>3, <2>1, <2>2 DEF Below
<1>5. f \in G
  <2>1. <<Below.at>> \in Seq(D) OBVIOUS
  <2>2. 0 \in 0..MaxTokens BY ParserAssumption
  <2>3. DOMAIN nodes \subseteq D OBVIOUS
  <2> QED BY <1>4, <2>1, <2>2 DEF LeftFrame, FramesOver, F
<1>6. stack' = [Outer EXCEPT ![Len(Outer)] = f]
  <2>1. Below = Outer[Len(Outer)] BY DEF Below
  <2>2. stack' = [Outer EXCEPT ![Len(Outer)] =
                    [Outer[Len(Outer)] EXCEPT !.phase = "left", !.at = 0, !.parts = <<Below.at>>]]
    BY DEF Complete
  <2>3. f = [Outer[Len(Outer)] EXCEPT !.phase = "left", !.at = 0, !.parts = <<Below.at>>]
    BY <2>1 DEF LeftFrame
  <2> HIDE DEF f
  <2> QED BY <2>2, <2>3
<1> HIDE DEF G, f
<1>7. /\ stack' \in Seq(G) /\ Len(stack') = m
      /\ \A k \in 1..m-1 : stack'[k] = Outer[k]
      /\ stack'[m] = f
  <2> DEFINE o == Outer
  <2>1. o \in Seq(F) /\ Len(o) \in Nat \ {0} BY <1>3
  <2>2. stack' = [o EXCEPT ![Len(o)] = f] BY <1>6
  <2>3. Len(o) = m BY <1>3
  <2> HIDE DEF o
  <2>4. /\ stack' \in Seq(G) /\ Len(stack') = Len(o)
        /\ \A k \in 1..Len(o)-1 : stack'[k] = o[k]
        /\ stack'[Len(o)] = f
    BY <1>2, <1>5, <2>1, <2>2, LastReplaced
  <2> QED BY <2>3, <2>4 DEF o
<1>8. \A k \in 1..m-1 : k \in 1..m BY <1>3
<1>9. \A k \in 1..m-1 : stack'[k] = stack[k] BY <1>3, <1>7, <1>8
<1> QED BY <1>3, <1>4, <1>7, <1>9 DEF F, G, f, m

(* The node of the activation below is made.                               *)
LEMMA CompleteStep ==
  ASSUME IInv, result = 0, NEW span, NEW begin, Reading(tokens, nodes, stack, span, begin),
         Len(stack) > 1, Complete, result' = result, Value \in DOMAIN nodes,
         TextTyped(tokens'), Continues(tokens, tokens'),
         NEW x, x = Below.at, x \notin DOMAIN nodes,
         NEW parts, parts = Append(Below.parts, Value),
         NEW a, a = begin[Len(stack) - 1], a \in Nat \ {0},
         NEW b, b = Len(tokens') - 1, b \in Nat, x \in a..b,
         Whole(tokens', a, b),
         NodeOf(tokens', Grown(span, x, <<a, b>>), parts, x, a, b),
         \A i \in Ops(tokens', a, b) :
           /\ Precedence(tokens'[i]) > Below.precedence
           /\ Precedence(tokens'[i]) >= Precedence(tokens'[Len(tokens')])
  PROVE  IInv'
<1> DEFINE n == Len(stack)  m == n - 1  D == DOMAIN nodes \cup {x}
<1>1. stack \in Seq(FramesOver(DOMAIN nodes)) BY DEF IInv
<1>2. DOMAIN nodes \subseteq D /\ Below.at \in D OBVIOUS
<1> HIDE DEF D
<1>3. /\ Below \in FramesOver(DOMAIN nodes) /\ Below = stack[m] /\ m \in 1..n
      /\ stack' \in Seq(FramesOver(D)) /\ Len(stack') = m
      /\ \A k \in 1..m-1 : stack'[k] = stack[k]
      /\ stack'[m] = LeftFrame(Below, Below.at)
  BY <1>1, <1>2, BelowCompleted
<1>4. stack'[m] = LeftFrame(stack[m], x)
  <2>1. x = Below.at OBVIOUS
  <2> HIDE DEF m, n
  <2> QED BY <1>3, <2>1
<1>5. nodes' = Grown(nodes, x, parts) BY DEF Complete, Grown
<1>9. parts \in Seq(DOMAIN nodes)
  <2>1. Below.parts \in Seq(DOMAIN nodes) BY <1>3 DEF FramesOver
  <2> QED BY <2>1, AppendProperties
<1>10. Grown(span, x, <<a, b>>)[x] = <<a, b>> BY DEF Grown
<1>11. b < Len(tokens')
  <2>1. Len(tokens') \in Nat BY DEF Continues
  <2> QED BY <2>1
<1>12. Spans(tokens', Grown(span, x, <<a, b>>), parts, x, a, b)
  BY <1>10, <1>11 DEF Spans
<1>13. a = begin[m] OBVIOUS
<1> HIDE DEF m, n
<1>16. m \in 1..Len(stack) BY <1>3 DEF n
<1>17. \A i \in Ops(tokens', begin[m], Len(tokens') - 1) :
         /\ Precedence(tokens'[i]) > stack[m].precedence
         /\ Precedence(tokens'[i]) >= Precedence(tokens'[Len(tokens')])
  BY <1>3, <1>13
<1>18. Spans(tokens', Grown(span, x, <<begin[m], Len(tokens') - 1>>), parts, x,
             begin[m], Len(tokens') - 1)
  BY <1>12, <1>13
<1> QED BY <1>3, <1>4, <1>5, <1>9, <1>16, <1>17, <1>18, NodeStep

(* What the activation that returns has read ends before the cursor, and   *)
(* no operator in it is looser than the token at the cursor.               *)
LEMMA ReturnedOperand ==
  ASSUME NEW span, NEW begin, Reading(tokens, nodes, stack, span, begin),
         NEW v \in DOMAIN span, NEW c, span[v] = <<c, cursor - 1>>, Having(tokens, span, Top, c)
  PROVE  /\ Whole(tokens, c, cursor - 1) /\ c \in Nat \ {0} /\ cursor - 1 \in Nat /\ c <= cursor - 1
         /\ \A i \in Ops(tokens, c, cursor - 1) : /\ Precedence(tokens[i]) > Top.precedence
                                                  /\ Precedence(tokens[i]) >= Precedence(peek)
<1>1. Placed(tokens, nodes, span) BY DEF Reading
<1>2. Whole(tokens, c, cursor - 1) /\ c \in Nat \ {0} /\ cursor - 1 \in Nat /\ c <= cursor - 1
  BY <1>1, NodeText
<1> QED BY <1>2 DEF Having, peek, cursor

LEMMA PrefixReturns ==
  ASSUME IInv, Returns("prefix"), Complete, UNCHANGED <<tokens, result>> PROVE IInv'
<1>1. /\ result = 0 /\ Len(stack) > 1 /\ TextTyped(tokens) /\ cursor \in Nat
      /\ Below.phase = "prefix"
      /\ \E span, begin, a, c :
           /\ Reading(tokens, nodes, stack, span, begin)
           /\ a = begin[Len(stack) - 1] /\ a \in Nat \ {0} /\ c \in Nat
           /\ Waiting(tokens, span, Below, a, c, Top.precedence)
           /\ Having(tokens, span, Top, c)
           /\ Value \in DOMAIN nodes /\ Value \in DOMAIN span /\ span[Value] = <<c, cursor - 1>>
  BY AtReturn
<1>2. PICK span, begin, a, c :
           /\ Reading(tokens, nodes, stack, span, begin)
           /\ a = begin[Len(stack) - 1] /\ a \in Nat \ {0} /\ c \in Nat
           /\ Waiting(tokens, span, Below, a, c, Top.precedence)
           /\ Having(tokens, span, Top, c)
           /\ Value \in DOMAIN nodes /\ Value \in DOMAIN span /\ span[Value] = <<c, cursor - 1>>
  BY <1>1
<1>3. /\ Whole(tokens, c, cursor - 1) /\ cursor - 1 \in Nat /\ c <= cursor - 1
      /\ \A i \in Ops(tokens, c, cursor - 1) : Precedence(tokens[i]) > Top.precedence
  BY <1>2, ReturnedOperand
<1>4. /\ Below.at = a /\ tokens[a] \in Prefixes /\ Below.parts = <<>> /\ c = a + 1
      /\ Top.precedence = PREFIX /\ a \notin DOMAIN span
  BY <1>1, <1>2 DEF Waiting, PrefixFrame, InfixFrame, AddressFrame, ArgumentsFrame
<1> DEFINE b == cursor - 1
<1>5. Ops(tokens, c, b) = {}
  <2>1. ASSUME NEW i \in Ops(tokens, c, b) PROVE FALSE
    <3>1. Precedence(tokens[i]) > PREFIX BY <1>3, <1>4
    <3>2. Precedence(tokens[i]) \in 0..PREFIX BY Precedences
    <3> QED BY <3>1, <3>2 DEF PREFIX
  <2> QED BY <2>1
<1>6. Whole(tokens, a, b) /\ Ops(tokens, a, b) = {}
  <2>1. a \in Nat /\ b \in Nat /\ Whole(tokens, a + 1, b) BY <1>2, <1>3, <1>4
  <2>2. Ops(tokens, a + 1, b) = {} BY <1>4, <1>5
  <2> HIDE DEF b
  <2> QED BY <1>4, <2>1, <2>2, PrefixOperand
<1>7. b = Len(tokens) - 1 BY DEF cursor
<1>8. a \in a..b BY <1>2, <1>3, <1>4
<1>9. a \notin DOMAIN nodes BY <1>2, <1>4 DEF Reading, Placed
<1>10. b \in Nat BY <1>3
<1> HIDE DEF b
<1> DEFINE wide == Grown(span, a, <<a, b>>)  parts == Append(Below.parts, Value)
<1>11. Extends(span, wide) BY <1>4, GrownExtends, Zenon
<1> HIDE DEF wide
<1>12. NodeOf(tokens, wide, parts, a, a, b)
  <2>1. parts = <<Value>> BY <1>4
  <2>2. Value \in DOMAIN wide /\ wide[Value] = <<a + 1, b>>
    BY <1>2, <1>4, <1>11 DEF Extends, b
  <2> HIDE DEF parts
  <2>3. Unary(tokens, wide, parts, a, a, b) BY <1>4, <1>6, <2>1, <2>2 DEF Unary
  <2> QED BY <2>3 DEF NodeOf
<1>13. parts = Append(Below.parts, Value) OBVIOUS
<1> HIDE DEF parts
<1>14. TextTyped(tokens') /\ Continues(tokens, tokens') /\ result' = result BY <1>1, SameText
<1>15. /\ b = Len(tokens') - 1 /\ Whole(tokens', a, b) /\ NodeOf(tokens', wide, parts, a, a, b)
       /\ Ops(tokens', a, b) = {}
  BY <1>6, <1>7, <1>12
<1>16. /\ Len(stack) > 1 /\ result = 0 /\ Value \in DOMAIN nodes /\ a = Below.at
       /\ a = begin[Len(stack) - 1] /\ a \in Nat \ {0}
       /\ Reading(tokens, nodes, stack, span, begin)
  BY <1>1, <1>2, <1>4
<1> QED BY <1>8, <1>9, <1>10, <1>13, <1>14, <1>15, <1>16, CompleteStep DEF wide

LEMMA OneMore ==
  ASSUME NEW S, NEW s \in Seq(S), Len(s) = 1, NEW v \in S,
         NEW r \in Seq(S), Len(r) = 2, r[1] = s[1], r[2] = v
  PROVE  Append(s, v) = r
<1> DEFINE e == Append(s, v)
<1>1. e \in Seq(S) /\ Len(e) = Len(s) + 1 /\ e[Len(s) + 1] = v BY AppendProperties
<1>2. \A i \in 1..Len(s) : e[i] = s[i] BY AppendProperties
<1> HIDE DEF e
<1>3. 1 \in 1..Len(s) OBVIOUS
<1>4. Len(e) = 2 /\ e[2] = v /\ e[1] = s[1] BY <1>1, <1>2, <1>3
<1>5. \A i \in 1..2 : i = 1 \/ i = 2 OBVIOUS
<1>6. ASSUME NEW i \in 1..Len(e) PROVE e[i] = r[i]
  <2>1. i = 1 \/ i = 2 BY <1>4, <1>5
  <2> QED BY <1>4, <2>1
<1>7. Len(e) = Len(r) BY <1>4
<1>8. e = r BY <1>1, <1>6, <1>7, SeqEqual
<1> QED BY <1>8 DEF e

LEMMA Pair == ASSUME NEW l, NEW v PROVE Append(<<l>>, v) = <<l, v>>
<1> DEFINE S == {l, v}
<1>1. <<l>> \in Seq(S) /\ Len(<<l>>) = 1 /\ <<l>>[1] = l /\ v \in S OBVIOUS
<1>2. <<l, v>> \in Seq(S) /\ Len(<<l, v>>) = 2 /\ <<l, v>>[1] = l /\ <<l, v>>[2] = v OBVIOUS
<1> QED BY <1>1, <1>2, OneMore

LEMMA InfixReturns ==
  ASSUME IInv, Returns("infix"), Complete, UNCHANGED <<tokens, result>> PROVE IInv'
<1>1. /\ result = 0 /\ Len(stack) > 1 /\ TextTyped(tokens) /\ cursor \in Nat
      /\ Below.phase = "infix" /\ Top.precedence >= Precedence(peek)
      /\ Below \in FramesOver(DOMAIN nodes)
      /\ \E span, begin, a, c :
           /\ Reading(tokens, nodes, stack, span, begin)
           /\ a = begin[Len(stack) - 1] /\ a \in Nat \ {0} /\ c \in Nat
           /\ Waiting(tokens, span, Below, a, c, Top.precedence)
           /\ Having(tokens, span, Top, c)
           /\ Value \in DOMAIN nodes /\ Value \in DOMAIN span /\ span[Value] = <<c, cursor - 1>>
  BY AtReturn
<1>2. PICK span, begin, a, c :
           /\ Reading(tokens, nodes, stack, span, begin)
           /\ a = begin[Len(stack) - 1] /\ a \in Nat \ {0} /\ c \in Nat
           /\ Waiting(tokens, span, Below, a, c, Top.precedence)
           /\ Having(tokens, span, Top, c)
           /\ Value \in DOMAIN nodes /\ Value \in DOMAIN span /\ span[Value] = <<c, cursor - 1>>
  BY <1>1
<1> DEFINE b == cursor - 1  p == Below.at  q == Precedence(tokens[p])
<1>3. /\ Whole(tokens, c, b) /\ b \in Nat /\ c <= b
      /\ \A i \in Ops(tokens, c, b) : /\ Precedence(tokens[i]) > Top.precedence
                                      /\ Precedence(tokens[i]) >= Precedence(peek)
  BY <1>2, ReturnedOperand
<1>4. InfixFrame(tokens, span, Below, a, c, Top.precedence)
  BY <1>1, <1>2 DEF Waiting, PrefixFrame, InfixFrame, AddressFrame, ArgumentsFrame
<1>5. /\ tokens[p] \in Operators /\ c = p + 1 /\ Top.precedence = q /\ Below.precedence < q
      /\ \A i \in Ops(tokens, a, p - 1) : Precedence(tokens[i]) >= q
      /\ p \notin DOMAIN span /\ p \in a..c-1
  BY <1>2, <1>4 DEF InfixFrame, Waiting
<1>6. PICK l \in DOMAIN span : Below.parts = <<l>> /\ span[l] = <<a, p - 1>>
  BY <1>4 DEF InfixFrame
<1>7. b = Len(tokens) - 1 BY DEF cursor
<1> HIDE DEF b, p
<1>8. Whole(tokens, a, p - 1) /\ a <= p - 1 /\ p - 1 \in Nat
  BY <1>2, <1>6, NodeText DEF Reading
<1>9. p \in Nat BY <1>2, <1>5
<1>10. Whole(tokens, a, b)
       /\ Ops(tokens, a, b) = Ops(tokens, a, p - 1) \cup {p} \cup Ops(tokens, p + 1, b)
  <2>1. a \in Nat /\ Whole(tokens, p + 1, b) BY <1>2, <1>3, <1>5
  <2> QED BY <1>3, <1>5, <1>8, <1>9, <2>1, InfixOperands
<1>11. p \in a..b BY <1>2, <1>3, <1>5, <1>9
<1>12. p \notin DOMAIN nodes BY <1>2, <1>5 DEF Reading, Placed
<1>13. q \in Nat /\ Precedence(peek) \in Nat /\ q >= Precedence(peek)
       /\ Below.precedence \in Nat
  <2>1. q \in 0..PREFIX /\ Precedence(peek) \in 0..PREFIX BY Precedences
  <2>2. Below.precedence \in LOWEST..PREFIX BY <1>1 DEF FramesOver
  <2>3. Top.precedence >= Precedence(peek) /\ Top.precedence = q BY <1>1, <1>5
  <2> HIDE DEF q
  <2> QED BY <2>1, <2>2, <2>3 DEF PREFIX, LOWEST
<1>14. ASSUME NEW i \in Ops(tokens, a, b)
       PROVE  /\ Precedence(tokens[i]) > Below.precedence
              /\ Precedence(tokens[i]) >= Precedence(peek)
              /\ \/ q < Precedence(tokens[i])
                 \/ q = Precedence(tokens[i]) /\ i <= p
  <2> DEFINE r == Precedence(tokens[i])
  <2>1. r \in Nat
    <3>1. r \in 0..PREFIX BY Precedences
    <3> HIDE DEF r
    <3> QED BY <3>1 DEF PREFIX
  <2>2. CASE i \in Ops(tokens, a, p - 1)
    <3>1. r >= q BY <1>5, <2>2
    <3>2. i \in a+1..p-1 BY <2>2 DEF Ops
    <3>3. i <= p BY <1>2, <1>9, <3>2
    <3> HIDE DEF r, q
    <3>4. r > Below.precedence /\ r >= Precedence(peek) /\ (q < r \/ q = r)
      BY <1>5, <1>13, <2>1, <3>1
    <3> QED BY <3>3, <3>4 DEF r, q
  <2>3. CASE i = p
    <3>1. r = q BY <2>3
    <3>2. i <= p BY <1>9, <2>3
    <3> HIDE DEF r, q
    <3>3. r > Below.precedence /\ r >= Precedence(peek) BY <1>5, <1>13, <2>1, <3>1
    <3> QED BY <3>1, <3>2, <3>3 DEF r, q
  <2>4. CASE i \in Ops(tokens, p + 1, b)
    <3>1. r > q /\ r >= Precedence(peek) BY <1>3, <1>5, <2>4
    <3> HIDE DEF r, q
    <3>2. r > Below.precedence /\ q < r BY <1>5, <1>13, <2>1, <3>1
    <3> QED BY <3>1, <3>2 DEF r, q
  <2> HIDE DEF r, q
  <2> QED BY <1>10, <2>2, <2>3, <2>4 DEF r, q
<1> DEFINE wide == Grown(span, p, <<a, b>>)  parts == Append(Below.parts, Value)
<1>15. Extends(span, wide) BY <1>5, GrownExtends, Zenon
<1> HIDE DEF wide
<1>16. NodeOf(tokens, wide, parts, p, a, b)
  <2>1. parts = <<l, Value>>
    <3>1. Append(<<l>>, Value) = <<l, Value>> BY Pair
    <3> QED BY <1>6, <3>1, Zenon
  <2>2. Value \in DOMAIN wide /\ wide[Value] = <<p + 1, b>>
    BY <1>2, <1>5, <1>15 DEF Extends, b
  <2>3. l \in DOMAIN wide /\ wide[l] = <<a, p - 1>> BY <1>6, <1>15 DEF Extends
  <2>4. p \in Ops(tokens, a, b) BY <1>10
  <2> HIDE DEF parts
  <2>5. \E left, right \in DOMAIN wide :
          parts = <<left, right>> /\ wide[left] = <<a, p - 1>> /\ wide[right] = <<p + 1, b>>
    BY <2>1, <2>2, <2>3
  <2>6. Binary(tokens, wide, parts, p, a, b) BY <1>14, <2>4, <2>5 DEF Binary, q
  <2> QED BY <2>6 DEF NodeOf
<1>17. parts = Append(Below.parts, Value) OBVIOUS
<1> HIDE DEF parts, q
<1>18. TextTyped(tokens') /\ Continues(tokens, tokens') /\ result' = result BY <1>1, SameText
<1>19. /\ b = Len(tokens') - 1 /\ Whole(tokens', a, b) /\ NodeOf(tokens', wide, parts, p, a, b)
       /\ \A i \in Ops(tokens', a, b) :
            /\ Precedence(tokens'[i]) > Below.precedence
            /\ Precedence(tokens'[i]) >= Precedence(tokens'[Len(tokens')])
  BY <1>7, <1>10, <1>14, <1>16 DEF peek, cursor
<1>20. /\ Len(stack) > 1 /\ result = 0 /\ Value \in DOMAIN nodes /\ p = Below.at
       /\ a = begin[Len(stack) - 1] /\ a \in Nat \ {0}
       /\ Reading(tokens, nodes, stack, span, begin)
  BY <1>1, <1>2 DEF p
<1> QED BY <1>3, <1>11, <1>12, <1>17, <1>18, <1>19, <1>20, CompleteStep DEF wide

LEMMA ReturnOperandStep ==
  ASSUME IInv, ReturnOperand PROVE IInv'
BY PrefixReturns, InfixReturns DEF ReturnOperand

(* One more argument is listed.                                            *)
LEMMA ArgumentListed ==
  ASSUME NEW t, NEW tree, NEW span, Placed(t, tree, span), NEW a \in Nat \ {0}, NEW c \in Nat,
         NEW e \in Nat, NEW S, NEW parts \in Seq(S), ArgumentsTo(t, span, parts, a, c),
         NEW v \in S, v \in DOMAIN span, span[v] = <<c, e - 1>>
  PROVE  /\ a < c /\ c < e /\ Inside(t, a, e)
         /\ Commas(t, a, e) = Commas(t, a, c)
         /\ Listed(span, Append(parts, v), a, Commas(t, a, c), Commas(t, a, c) \cup {e})
         /\ Comma(t, e) => ArgumentsTo(t, span, Append(parts, v), a, e + 1)
<1> DEFINE C == Commas(t, a, c)
<1>1. Whole(t, c, e - 1) BY NodeText
<1>2. a \in Nat /\ Inside(t, a, c) /\ a < c /\ c - 1 \in C \cup {a} /\ Listed(span, parts, a, C, C)
  BY DEF ArgumentsTo, Inside
<1>3. /\ c < e /\ Inside(t, a, e) /\ Commas(t, a, e) = C
      /\ Comma(t, e) => Inside(t, a, e + 1) /\ Commas(t, a, e + 1) = C \cup {e}
  BY <1>1, <1>2, InsideGrows
<1>4. C \subseteq a+1..c-1 BY DEF Commas
<1>5. C \in SUBSET Nat /\ IsFiniteSet(C)
  <2>1. IsFiniteSet(a+1..c-1) BY FS_Interval
  <2>2. a+1..c-1 \subseteq Nat OBVIOUS
  <2> HIDE DEF C
  <2> QED BY <1>4, <2>1, <2>2, FS_Subset
<1> HIDE DEF C
<1>6. \A d \in C : d < e /\ d <= c - 1
  <2>1. \A d \in a+1..c-1 : d < e /\ d <= c - 1 BY <1>3
  <2> QED BY <1>4, <2>1
<1>7. c - 1 < e BY <1>3
<1>8. span[v] = <<(c - 1) + 1, e - 1>>
  <2>1. (c - 1) + 1 = c OBVIOUS
  <2> QED BY <2>1
<1>9. ASSUME NEW D \in SUBSET Nat, C \subseteq D, \A q \in D : q \in C \/ q = e
      PROVE  Listed(span, Append(parts, v), a, D, C \cup {e})
  <2>1. Previous(D, a, e, c - 1)
    <3>1. ASSUME NEW q \in D, q < e PROVE q <= c - 1
      <4>1. q # e BY <3>1
      <4> QED BY <1>6, <1>9, <4>1
    <3> QED BY <1>2, <1>7, <1>9, <3>1 DEF Previous
  <2>2. \A q \in D : q \in C \/ q >= e BY <1>9
  <2>3. \A d \in C : d < e BY <1>6
  <2> DEFINE p == c - 1
  <2>4. Previous(D, a, e, p) /\ span[v] = <<p + 1, e - 1>> BY <1>8, <2>1
  <2> HIDE DEF p
  <2> QED BY <1>2, <1>5, <1>9, <2>2, <2>3, <2>4, OneMoreListed
<1>10. Listed(span, Append(parts, v), a, C, C \cup {e}) BY <1>5, <1>9
<1>11. ASSUME Comma(t, e) PROVE ArgumentsTo(t, span, Append(parts, v), a, e + 1)
  <2> DEFINE D == C \cup {e}
  <2>1. D \in SUBSET Nat /\ C \subseteq D /\ \A q \in D : q \in C \/ q = e BY <1>5
  <2>2. Listed(span, Append(parts, v), a, D, D) BY <1>9, <2>1
  <2>3. Commas(t, a, e + 1) = D /\ Inside(t, a, e + 1) BY <1>3, <1>11
  <2>4. (e + 1) - 1 = e /\ e \in D \cup {a} OBVIOUS
  <2> HIDE DEF D
  <2> QED BY <2>2, <2>3, <2>4 DEF ArgumentsTo
<1> QED BY <1>2, <1>3, <1>10, <1>11 DEF C

(* The list of the activation below grows.                                 *)
LEMMA PartsGrow ==
  ASSUME stack \in Seq(FramesOver(DOMAIN nodes)), Len(stack) > 1,
         Below \in FramesOver(DOMAIN nodes), Below = stack[Len(stack) - 1], Value \in DOMAIN nodes,
         stack' = [Outer EXCEPT ![Len(Outer)].parts = Append(@, Value)],
         NEW f, f = [Below EXCEPT !.parts = Append(@, Value)]
  PROVE  /\ f \in FramesOver(DOMAIN nodes) /\ f.phase = Below.phase /\ f.at = Below.at
         /\ f.precedence = Below.precedence /\ f.parts = Append(Below.parts, Value)
         /\ Below.parts \in Seq(DOMAIN nodes)
         /\ stack' \in Seq(FramesOver(DOMAIN nodes)) /\ Len(stack') = Len(stack) - 1
         /\ \A k \in 1..(Len(stack)-1)-1 : stack'[k] = stack[k]
         /\ stack'[Len(stack) - 1] = f
<1> DEFINE F == FramesOver(DOMAIN nodes)  m == Len(stack) - 1
<1>1. stack # <<>>
  <2>1. Len(<<>>) = 0 OBVIOUS
  <2> QED BY <2>1
<1>2. /\ m \in Nat \ {0} /\ Outer \in Seq(F) /\ Len(Outer) = m
      /\ \A k \in 1..m : Outer[k] = stack[k]
  <2>1. /\ Len(stack) \in Nat \ {0} /\ Outer \in Seq(F) /\ Len(Outer) = m
        /\ \A k \in 1..m : Outer[k] = stack[k]
    BY <1>1, OuterFacts
  <2>2. m \in Nat \ {0} BY <2>1
  <2> QED BY <2>1, <2>2
<1>3. Below.parts \in Seq(DOMAIN nodes) BY DEF FramesOver
<1>4. Append(Below.parts, Value) \in Seq(DOMAIN nodes) BY <1>3, AppendProperties
<1>5. /\ f \in F /\ f.phase = Below.phase /\ f.at = Below.at
      /\ f.precedence = Below.precedence /\ f.parts = Append(Below.parts, Value)
  <2> DEFINE ps == Append(Below.parts, Value)
  <2>1. f = [Below EXCEPT !.parts = ps] OBVIOUS
  <2>2. ps \in Seq(DOMAIN nodes) BY <1>4
  <2> HIDE DEF ps
  <2>3. /\ f \in F /\ f.phase = Below.phase /\ f.at = Below.at
        /\ f.precedence = Below.precedence /\ f.parts = ps
    BY <2>1, <2>2 DEF FramesOver
  <2> QED BY <2>3 DEF ps
<1> HIDE DEF F, m
<1>6. stack' = [Outer EXCEPT ![Len(Outer)] = f]
  <2>1. Below = Outer[Len(Outer)] BY DEF Below
  <2>2. stack' = [Outer EXCEPT ![Len(Outer)] =
                    [Outer[Len(Outer)] EXCEPT !.parts = Append(@, Value)]]
    OBVIOUS
  <2>3. f = [Outer[Len(Outer)] EXCEPT !.parts = Append(@, Value)] BY <2>1
  <2> QED BY <2>2, <2>3
<1>7. /\ stack' \in Seq(F) /\ Len(stack') = m
      /\ \A k \in 1..m-1 : stack'[k] = Outer[k]
      /\ stack'[m] = f
  <2> DEFINE o == Outer
  <2>1. o \in Seq(F) /\ Len(o) \in Nat \ {0} /\ F \subseteq F BY <1>2
  <2>2. stack' = [o EXCEPT ![Len(o)] = f] BY <1>6
  <2>3. Len(o) = m BY <1>2
  <2> DEFINE s == stack'
  <2>5. f \in F BY <1>5
  <2>6. s = [o EXCEPT ![Len(o)] = f] BY <2>2
  <2> HIDE DEF o, s
  <2>7. s \in Seq(F) /\ Len(s) = Len(o) /\ \A k \in 1..Len(o)-1 : s[k] = o[k]
    BY <2>1, <2>5, <2>6, LastReplaced
  <2>8. s[Len(o)] = f BY <2>1, <2>5, <2>6, LastReplaced
  <2>4. /\ stack' \in Seq(F) /\ Len(stack') = Len(o)
        /\ \A k \in 1..Len(o)-1 : stack'[k] = o[k]
        /\ stack'[Len(o)] = f
    BY <2>7, <2>8 DEF s
  <2> QED BY <2>3, <2>4 DEF o
<1>8. \A k \in 1..m-1 : k \in 1..m BY <1>2
<1>9. \A k \in 1..m-1 : stack'[k] = stack[k] BY <1>2, <1>7, <1>8
<1> QED BY <1>3, <1>5, <1>7, <1>9 DEF F, m

(* The token after an argument, and what is done with it.                  *)
Separates(s)   == s \in {")", ","}
CommaConsumed == IF peek = "," THEN consume ELSE UNCHANGED tokens

LEMMA ArgumentReturns ==
  ASSUME IInv, Returns("args"), Separates(peek), CommaConsumed,
         stack' = [Outer EXCEPT ![Len(Outer)].parts = Append(@, Value)],
         UNCHANGED <<nodes, result>>
  PROVE  IInv'
<1>1. /\ result = 0 /\ Len(stack) > 1 /\ TextTyped(tokens) /\ cursor \in Nat
      /\ Below.phase = "args"
      /\ Below \in FramesOver(DOMAIN nodes) /\ Below = stack[Len(stack) - 1]
      /\ Len(stack) - 1 \in 1..Len(stack)
      /\ stack \in Seq(FramesOver(DOMAIN nodes))
      /\ \E span, begin, a, c :
           /\ Reading(tokens, nodes, stack, span, begin)
           /\ a = begin[Len(stack) - 1] /\ a \in Nat \ {0} /\ c \in Nat
           /\ Waiting(tokens, span, Below, a, c, Top.precedence)
           /\ Having(tokens, span, Top, c)
           /\ Value \in DOMAIN nodes /\ Value \in DOMAIN span /\ span[Value] = <<c, cursor - 1>>
  BY AtReturn
<1>2. PICK span, begin, a, c :
           /\ Reading(tokens, nodes, stack, span, begin)
           /\ a = begin[Len(stack) - 1] /\ a \in Nat \ {0} /\ c \in Nat
           /\ Waiting(tokens, span, Below, a, c, Top.precedence)
           /\ Having(tokens, span, Top, c)
           /\ Value \in DOMAIN nodes /\ Value \in DOMAIN span /\ span[Value] = <<c, cursor - 1>>
  BY <1>1
<1>3. ArgumentsFrame(tokens, span, Below, a, c, Top.precedence)
  BY <1>1, <1>2 DEF Waiting, PrefixFrame, InfixFrame, AddressFrame, ArgumentsFrame
<1>4. /\ Below.at = a /\ tokens[a] = "f(" /\ ArgumentsTo(tokens, span, Below.parts, a, c)
      /\ a \notin DOMAIN span
  BY <1>2, <1>3 DEF ArgumentsFrame, Waiting
<1> DEFINE f == [Below EXCEPT !.parts = Append(@, Value)]
<1>5. f = [Below EXCEPT !.parts = Append(@, Value)] OBVIOUS
<1> HIDE DEF f
<1>6. /\ f \in FramesOver(DOMAIN nodes) /\ f.phase = Below.phase /\ f.at = Below.at
      /\ f.precedence = Below.precedence /\ f.parts = Append(Below.parts, Value)
      /\ Below.parts \in Seq(DOMAIN nodes)
      /\ stack' \in Seq(FramesOver(DOMAIN nodes)) /\ Len(stack') = Len(stack) - 1
      /\ \A k \in 1..(Len(stack)-1)-1 : stack'[k] = stack[k]
      /\ stack'[Len(stack) - 1] = f
  BY <1>1, <1>2, <1>5, PartsGrow
<1>7. /\ TextTyped(tokens') /\ Continues(tokens, tokens')
      /\ peek = "," => Len(tokens') = cursor + 1
  <2>1. CASE peek = ","
    <3>1. peek # "end" /\ consume BY <2>1 DEF CommaConsumed
    <3> QED BY <1>1, <3>1, NextToken
  <2>2. CASE peek # ","
    <3>1. tokens' = tokens BY <2>2 DEF CommaConsumed
    <3> QED BY <1>1, <2>2, <3>1, SameText
  <2> QED BY <2>1, <2>2
<1>8. Placed(tokens', nodes, span) BY <1>2, <1>7, PlacedStays DEF Reading
<1>9. c <= Len(tokens) BY <1>2 DEF Waiting
<1>10. ArgumentsTo(tokens', span, Below.parts, a, c)
  <2>1. Extends(span, span) BY DEF Extends
  <2> QED BY <1>2, <1>4, <1>7, <1>9, <2>1, ArgumentsToStay
<1> DEFINE e == cursor  C == Commas(tokens', a, c)
<1>11. /\ a < c /\ c < e /\ Inside(tokens', a, e)
       /\ Commas(tokens', a, e) = C
       /\ Listed(span, Append(Below.parts, Value), a, C, C \cup {e})
       /\ Comma(tokens', e) => ArgumentsTo(tokens', span, Append(Below.parts, Value), a, e + 1)
  <2> DEFINE u == tokens'  S == DOMAIN nodes  v == Value  ps == Below.parts
  <2>1. /\ e \in Nat /\ a \in Nat \ {0} /\ c \in Nat /\ v \in S /\ v \in DOMAIN span
        /\ span[v] = <<c, e - 1>> /\ ps \in Seq(S)
    BY <1>1, <1>2, <1>6
  <2>2. Placed(u, nodes, span) /\ ArgumentsTo(u, span, ps, a, c) BY <1>8, <1>10
  <2> HIDE DEF e, u, S, v, ps, C
  <2>3. /\ a < c /\ c < e /\ Inside(u, a, e)
        /\ Commas(u, a, e) = Commas(u, a, c)
        /\ Listed(span, Append(ps, v), a, Commas(u, a, c), Commas(u, a, c) \cup {e})
        /\ Comma(u, e) => ArgumentsTo(u, span, Append(ps, v), a, e + 1)
    BY <2>1, <2>2, ArgumentListed
  <2> QED BY <2>3 DEF u, v, ps, C
<1>12. a < e /\ a \in 1..Len(tokens) /\ e \in 1..Len(tokens)
  <2>1. e = Len(tokens) BY DEF cursor
  <2> HIDE DEF e, C
  <2>2. e \in Nat BY <1>1 DEF e
  <2> QED BY <1>2, <1>11, <2>1, <2>2
<1>13. tokens'[a] = "f(" /\ tokens'[e] = peek
  BY <1>4, <1>7, <1>12 DEF Continues, peek, cursor
<1>14. Collecting(tokens', span, f, a)
  <2>1. f.phase = "args" /\ f.at = a BY <1>1, <1>4, <1>6
  <2>2. CASE peek = ","
    <3>1. Comma(tokens', e) BY <1>13, <2>2 DEF Comma
    <3>2. ArgumentsTo(tokens', span, f.parts, a, Len(tokens')) BY <1>6, <1>7, <1>11, <2>2, <3>1
    <3>3. a < Len(tokens')
      <4>1. Len(tokens') = e + 1 /\ e \in Nat BY <1>1, <1>7, <2>2
      <4> HIDE DEF e, C
      <4> QED BY <1>2, <1>12, <4>1
    <3> QED BY <1>4, <1>13, <2>1, <3>2, <3>3 DEF Collecting
  <2>3. CASE peek = ")"
    <3>1. peek # "," BY <2>3
    <3>2. tokens' = tokens BY <3>1 DEF CommaConsumed
    <3>3. Len(tokens') = e BY <3>2 DEF cursor
    <3>4. e - 1 \notin C \cup {a}
      <4>1. \A d \in C : d \in a+1..c-1 BY DEF Commas
      <4> HIDE DEF e, C
      <4>2. e \in Nat BY <1>1 DEF e
      <4> QED BY <1>2, <1>11, <4>1, <4>2
    <3>5. tokens'[e] = ")" BY <1>13, <2>3
    <3> HIDE DEF e, C
    <3> QED BY <1>4, <1>6, <1>11, <1>12, <1>13, <2>1, <3>3, <3>4, <3>5 DEF Collecting
  <2> QED BY <2>2, <2>3 DEF Separates
<1>15. Active(tokens', span, f, begin[Len(stack) - 1]) BY <1>2, <1>14 DEF Active
<1>16. UNCHANGED <<nodes, result>> OBVIOUS
<1> DEFINE m == Len(stack) - 1
<1>17. /\ m \in 1..Len(stack) /\ Len(stack') = m
       /\ \A k \in 1..m-1 : stack'[k] = stack[k]
       /\ stack'[m] = f /\ f.precedence = stack[m].precedence
       /\ Active(tokens', span, f, begin[m])
  BY <1>1, <1>6, <1>15
<1> HIDE DEF m
<1> QED BY <1>1, <1>2, <1>6, <1>7, <1>16, <1>17, GoStep

Closing(s) == s = ")"

(* What a read or a write waits for.                                       *)
LEMMA AtAddress ==
  ASSUME IInv, NEW phase \in {"read", "write"}, Returns(phase)
  PROVE  /\ result = 0 /\ Len(stack) > 1 /\ TextTyped(tokens) /\ cursor \in Nat
         /\ Top.precedence >= Precedence(peek) /\ Top.precedence = LOWEST
         /\ \E span, begin, a :
              /\ Reading(tokens, nodes, stack, span, begin)
              /\ a = begin[Len(stack) - 1] /\ a \in Nat \ {0} /\ a + 1 <= cursor - 1
              /\ Below.at = a /\ Below.parts = <<>> /\ a \notin DOMAIN span
              /\ tokens[a] = IF phase = "read" THEN "read(" ELSE "write("
              /\ Value \in DOMAIN nodes /\ Value \in DOMAIN span
              /\ span[Value] = <<a + 1, cursor - 1>> /\ Whole(tokens, a + 1, cursor - 1)
<1>1. /\ result = 0 /\ Len(stack) > 1 /\ TextTyped(tokens) /\ cursor \in Nat
      /\ Below.phase = phase /\ Top.precedence >= Precedence(peek)
      /\ \E span, begin, a, c :
           /\ Reading(tokens, nodes, stack, span, begin)
           /\ a = begin[Len(stack) - 1] /\ a \in Nat \ {0} /\ c \in Nat
           /\ Waiting(tokens, span, Below, a, c, Top.precedence)
           /\ Having(tokens, span, Top, c)
           /\ Value \in DOMAIN nodes /\ Value \in DOMAIN span /\ span[Value] = <<c, cursor - 1>>
  BY AtReturn
<1>2. PICK span, begin, a, c :
           /\ Reading(tokens, nodes, stack, span, begin)
           /\ a = begin[Len(stack) - 1] /\ a \in Nat \ {0} /\ c \in Nat
           /\ Waiting(tokens, span, Below, a, c, Top.precedence)
           /\ Having(tokens, span, Top, c)
           /\ Value \in DOMAIN nodes /\ Value \in DOMAIN span /\ span[Value] = <<c, cursor - 1>>
  BY <1>1
<1>3. Whole(tokens, c, cursor - 1) /\ c <= cursor - 1 BY <1>2, ReturnedOperand
<1>4. AddressFrame(tokens, Below, a, c, Top.precedence)
  BY <1>1, <1>2 DEF Waiting, PrefixFrame, InfixFrame, AddressFrame, ArgumentsFrame
<1>5. /\ Below.at = a /\ Below.parts = <<>> /\ c = a + 1 /\ Top.precedence = LOWEST
      /\ tokens[a] = IF phase = "read" THEN "read(" ELSE "write("
  BY <1>1, <1>4 DEF AddressFrame
<1>6. a \notin DOMAIN span BY <1>2, <1>5 DEF Waiting
<1> QED BY <1>1, <1>2, <1>3, <1>5, <1>6

LEMMA AddressReturns ==
  ASSUME IInv, Returns("read"), Closing(peek), consume, Complete, UNCHANGED result
  PROVE  IInv'
<1>1. /\ result = 0 /\ Len(stack) > 1 /\ TextTyped(tokens) /\ cursor \in Nat
      /\ \E span, begin, a :
           /\ Reading(tokens, nodes, stack, span, begin)
           /\ a = begin[Len(stack) - 1] /\ a \in Nat \ {0} /\ a + 1 <= cursor - 1
           /\ Below.at = a /\ Below.parts = <<>> /\ a \notin DOMAIN span
           /\ tokens[a] = "read("
           /\ Value \in DOMAIN nodes /\ Value \in DOMAIN span
           /\ span[Value] = <<a + 1, cursor - 1>> /\ Whole(tokens, a + 1, cursor - 1)
  BY AtAddress
<1>2. PICK span, begin, a :
           /\ Reading(tokens, nodes, stack, span, begin)
           /\ a = begin[Len(stack) - 1] /\ a \in Nat \ {0} /\ a + 1 <= cursor - 1
           /\ Below.at = a /\ Below.parts = <<>> /\ a \notin DOMAIN span
           /\ tokens[a] = "read("
           /\ Value \in DOMAIN nodes /\ Value \in DOMAIN span
           /\ span[Value] = <<a + 1, cursor - 1>> /\ Whole(tokens, a + 1, cursor - 1)
  BY <1>1
<1> DEFINE b == cursor
<1>3. peek # "end" BY DEF Closing
<1>4. /\ TextTyped(tokens') /\ Continues(tokens, tokens') /\ Len(tokens') = b + 1 /\ b \in Nat
  BY <1>1, <1>3, NextToken
<1>5. /\ a \in Nat /\ a + 1 <= b - 1 /\ b \in 1..b /\ b = Len(tokens)
  BY <1>2, <1>4 DEF cursor
<1>6. tokens'[b] = ")"
  <2>1. b \in 1..Len(tokens) BY <1>5
  <2>2. tokens'[b] = peek BY <1>4, <2>1 DEF Continues, peek
  <2> QED BY <2>2 DEF Closing
<1> HIDE DEF b
<1>7. tokens'[a] = "read("
  <2>1. a \in 1..Len(tokens) BY <1>2, <1>5
  <2> QED BY <1>2, <1>4, <2>1 DEF Continues
<1>8. Whole(tokens', a + 1, b - 1)
  <2>1. b - 1 \in Nat /\ b - 1 <= Len(tokens) /\ a + 1 \in Nat \ {0} BY <1>2, <1>5
  <2> QED BY <1>2, <1>4, <2>1, TextStays DEF b
<1>10. Inside(tokens', a, b) /\ Commas(tokens', a, b) = {}
  <2>1. a \in Nat BY <1>5
  <2> QED BY <1>4, <1>8, <2>1, OneInside
<1>11. a < b /\ b # a + 1 BY <1>4, <1>5
<1>12. Whole(tokens', a, b) /\ Ops(tokens', a, b) = {}
  <2>1. tokens'[a] \in Openings BY <1>7 DEF Openings
  <2>2. DepthOf(tokens', a + 1, b) = 0 /\ \A q \in a+1..b : DepthOf(tokens', a + 1, q) >= 0
    BY <1>10 DEF Inside
  <2> QED BY <1>4, <1>5, <1>6, <1>11, <2>1, <2>2, ParenthesisOperand
<1> DEFINE wide == Grown(span, a, <<a, b>>)  parts == Append(Below.parts, Value)
<1>13. Extends(span, wide) BY <1>2, GrownExtends, Zenon
<1>14. Listed(span, Append(<<>>, Value), a, {}, {} \cup {b})
  <2>1. Listed(span, <<>>, a, {}, {}) BY NoneListed
  <2>2. Previous({}, a, b, a) BY <1>11 DEF Previous
  <2>3. span[Value] = <<a + 1, b - 1>> BY <1>2 DEF b
  <2>4. <<>> \in Seq(DOMAIN nodes) /\ Value \in DOMAIN nodes /\ Value \in DOMAIN span BY <1>2
  <2>5. {} \in SUBSET Nat /\ IsFiniteSet({}) BY FS_EmptySet
  <2> DEFINE none == <<>>  E == {}
  <2>6. /\ Listed(span, none, a, E, E) /\ Previous(E, a, b, a) /\ none \in Seq(DOMAIN nodes)
        /\ E \in SUBSET Nat /\ IsFiniteSet(E) /\ \A d \in E : d < b
        /\ E \subseteq E /\ \A q \in E : q \in E \/ q >= b
    BY <2>1, <2>2, <2>4, <2>5
  <2> HIDE DEF none, E
  <2>7. Listed(span, Append(none, Value), a, E, E \cup {b})
    BY <1>4, <2>3, <2>4, <2>6, OneMoreListed
  <2> QED BY <2>7 DEF none, E
<1> HIDE DEF wide
<1>15. Listed(wide, parts, a, {}, EndsOf({}, a, b))
  <2>1. {} \cup {b} = EndsOf({}, a, b) BY <1>11 DEF EndsOf
  <2>2. parts = Append(<<>>, Value) BY <1>2
  <2> HIDE DEF parts
  <2>3. Listed(span, parts, a, {}, EndsOf({}, a, b)) BY <1>14, <2>1, <2>2
  <2> QED BY <1>13, <2>3, ListedStays DEF Extends
<1>16. parts = Append(Below.parts, Value) OBVIOUS
<1> HIDE DEF parts
<1>17. NodeOf(tokens', wide, parts, a, a, b)
  <2>1. tokens'[a] \in Openings BY <1>7 DEF Openings
  <2>2. Parenthesised(tokens', wide, parts, a, a, b)
    BY <1>6, <1>10, <1>11, <1>12, <1>15, <2>1 DEF Parenthesised
  <2> QED BY <2>2 DEF NodeOf
<1>18. b = Len(tokens') - 1
  <2>1. (b + 1) - 1 = b BY <1>4
  <2> QED BY <1>4, <2>1
<1>19. a \in a..b BY <1>4, <1>5, <1>11
<1>20. a \notin DOMAIN nodes BY <1>2 DEF Reading, Placed
<1> QED BY <1>1, <1>2, <1>4, <1>12, <1>16, <1>17, <1>18, <1>19, <1>20, CompleteStep DEF wide

LEMMA FinishStep ==
  ASSUME IInv, Finish PROVE IInv'
<1> DEFINE n == Len(stack)
<1>1. /\ result = 0 /\ Top.phase = "left" /\ n = 1
      /\ result' = Value /\ stack' = <<>> /\ UNCHANGED <<tokens, nodes>>
  BY DEF Finish, Running
<1>2. PICK span, begin :
         /\ Reading(tokens, nodes, stack, span, begin)
         /\ Active(tokens, span, Top, begin[n])
  BY <1>1, AtTop
<1>3. Having(tokens, span, Top, begin[n]) BY <1>1, <1>2, PhaseTells
<1>4. begin[n] = 1 BY <1>1, <1>2 DEF Reading
<1>5. Value \in DOMAIN nodes /\ span[Value] = <<1, Len(tokens) - 1>>
  <2>1. PICK v \in DOMAIN span : Top.parts = <<v>> /\ span[v] = <<begin[n], Len(tokens) - 1>>
    BY <1>3 DEF Having
  <2>2. Value = v BY <2>1 DEF Value
  <2>3. DOMAIN span = DOMAIN nodes BY <1>2 DEF Reading, Placed
  <2> QED BY <1>4, <2>1, <2>2, <2>3
<1>6. Built(tokens, nodes, Value) BY <1>2, <1>5 DEF Built, Reading
<1>7. Value \in 1..MaxTokens /\ MaxTokens \in Nat
  BY <1>5, ParserAssumption DEF IInv, TreeTyped, Positions
<1>8. Value \in 0..MaxTokens+1 /\ Value # 0 /\ Value # Rejected
  BY <1>7 DEF Rejected
<1>9. stack' \in Seq(FramesOver(DOMAIN nodes)) BY <1>1
<1>10. TextTyped(tokens') /\ TreeTyped(nodes') BY <1>1 DEF IInv
<1>11. RefusedTokensCannotFollow' BY <1>1, <1>8 DEF RefusedTokensCannotFollow, Rejected
<1>12. result' = Value /\ nodes' = nodes /\ tokens' = tokens BY <1>1
<1>13. Rejected' = Rejected BY DEF Rejected
<1> QED BY <1>6, <1>8, <1>9, <1>10, <1>11, <1>12, <1>13 DEF IInv

(* The parenthesis at a is the innermost that is open at the cursor.       *)
LEMMA InnermostOpen ==
  ASSUME NEW a \in Nat \ {0}, cursor \in Nat, Inside(tokens, a, cursor), tokens[a] \in Openings
  PROVE  LET openings == {i \in 1..cursor-1 : tokens[i] \in Openings /\ depth(i + 1, cursor) = 0}
         IN  a \in openings /\ \A j \in openings : j <= a
<1> DEFINE openings == {i \in 1..cursor-1 : tokens[i] \in Openings /\ depth(i + 1, cursor) = 0}
<1>1. a < cursor /\ DepthOf(tokens, a + 1, cursor) = 0 BY DEF Inside
<1>2. a \in 1..cursor-1 BY <1>1
<1>3. a \in openings BY <1>1, <1>2, DepthIs
<1>4. ASSUME NEW j \in openings, j > a PROVE FALSE
  <2> DEFINE c == a + 1  d == j + 1
  <2>1. j \in 1..cursor-1 /\ tokens[j] \in Openings /\ DepthOf(tokens, d, cursor) = 0
    BY DepthIs
  <2>2. /\ c \in Nat /\ d \in Nat /\ j \in Nat /\ c <= j /\ j <= d /\ d <= cursor
        /\ j <= cursor /\ j \in c..cursor
    BY <1>1, <1>4, <2>1
  <2>3. DepthOf(tokens, j, d) = 1
    <3>1. DepthOf(tokens, j, j + 1) = 1 BY <2>1, <2>2, DepthOne
    <3> QED BY <3>1
  <2>4. DepthOf(tokens, c, j) >= 0 /\ DepthOf(tokens, c, cursor) = 0 BY <2>2 DEF Inside
  <2> HIDE DEF c, d, openings
  <2>5. /\ DepthOf(tokens, c, cursor) = DepthOf(tokens, c, j) + DepthOf(tokens, j, cursor)
        /\ DepthOf(tokens, c, j) \in Int
    BY <2>2, DepthSum
  <2>6. /\ DepthOf(tokens, j, cursor) = DepthOf(tokens, j, d) + DepthOf(tokens, d, cursor)
        /\ DepthOf(tokens, d, cursor) \in Int
    BY <2>2, DepthSum
  <2> QED BY <2>1, <2>3, <2>4, <2>5, <2>6
<1>5. \A j \in openings : j \in Nat OBVIOUS
<1> HIDE DEF openings
<1>6. \A j \in openings : j <= a
  <2>1. ASSUME NEW j \in openings PROVE j <= a
    <3>1. ~(j > a) /\ j \in Nat BY <1>4, <1>5
    <3> QED BY <3>1
  <2> QED BY <2>1
<1> QED BY <1>3, <1>6 DEF openings

(* A token is refused.                                                     *)
LEMMA RejectStep ==
  ASSUME IInv, print_error, RefusedTokensCannotFollow' PROVE IInv'
<1>1. Rejected = MaxTokens + 1 /\ MaxTokens \in Nat /\ Rejected' = Rejected
  BY ParserAssumption DEF Rejected
<1>2. result' = Rejected /\ UNCHANGED <<tokens, nodes, stack>> BY DEF print_error
<1>3. result' \in 0..MaxTokens+1 /\ result' # 0 BY <1>1, <1>2
<1> QED BY <1>1, <1>2, <1>3 DEF IInv

LEMMA NoPrimaryStep ==
  ASSUME IInv, NoPrimary PROVE IInv'
<1>1. /\ result = 0 /\ Top.phase = "start" /\ peek \notin Prefixes \cup Openings \cup {"x"}
      /\ print_error
  BY DEF NoPrimary, Running
<1>2. PICK span, begin :
         /\ begin[Len(stack)] \in Nat \ {0}
         /\ Active(tokens, span, Top, begin[Len(stack)])
  BY <1>1, AtTop
<1>3. Starting(tokens, Top, begin[Len(stack)]) BY <1>1, <1>2, PhaseTells
<1>4. /\ cursor = 1 \/ cursor > 1
      /\ cursor > 1 => /\ tokens[cursor - 1] \notin Operands
                       /\ tokens[cursor - 1] \in {"f(", ","} => peek # ")"
  <2>1. begin[Len(stack)] = cursor BY <1>3 DEF Starting, cursor
  <2>2. cursor \in Nat \ {0} BY <1>2, <2>1
  <2>3. cursor = 1 \/ cursor > 1 BY <2>2
  <2>4. cursor > 1 => /\ tokens[cursor - 1] \notin Operands
                      /\ tokens[cursor - 1] \in {"f(", ","} => peek # ")"
    BY <1>3, <2>1 DEF Starting, cursor, peek
  <2> QED BY <2>3, <2>4
<1>5. UNCHANGED tokens BY <1>1 DEF print_error
<1>6. /\ peek \notin {"x"} \cup Prefixes \cup Openings
      /\ peek = ")" => cursor = 1 \/ tokens[cursor - 1] \notin {"f(", ","}
      /\ ~(cursor > 1 /\ tokens[cursor - 1] \in {"x", ")"})
  BY <1>1, <1>4 DEF Operands
<1>7. cursor' = cursor /\ peek' = peek BY <1>5 DEF cursor, peek
<1>8. RefusedTokensCannotFollow' BY <1>5, <1>6, <1>7 DEF RefusedTokensCannotFollow
<1> QED BY <1>1, <1>8, RejectStep

LEMMA NoOperator == \A s : Precedence(s) = 0 => s \notin Operators
<1>1. ASSUME NEW s \in AllOperators PROVE Precedence(s) # 0
  <2>1. Precedence(s) \in 1..PREFIX BY Precedences
  <2>2. 0 \notin 1..PREFIX BY DEF PREFIX
  <2> QED BY <2>1, <2>2
<1> QED BY <1>1, ParserAssumption

(* After an operand that is read at the lowest precedence, in the          *)
(* parenthesis at a.                                                       *)
LEMMA RefusedInside ==
  ASSUME IInv, print_error, NEW a \in Nat \ {0}, cursor \in Nat, cursor > 1,
         tokens[cursor - 1] \in Operands, Inside(tokens, a, cursor),
         Precedence(peek) = 0,
         tokens[a] \in Openings,
         peek \notin (IF tokens[a] = "f(" THEN {",", ")"} ELSE {")"})
  PROVE  IInv'
<1>1. peek \notin Operators BY NoOperator
<1>2. LET openings == {i \in 1..cursor-1 : tokens[i] \in Openings /\ depth(i + 1, cursor) = 0}
      IN  \E i \in openings : /\ \A j \in openings : j <= i
                              /\ peek \notin (IF tokens[i] = "f(" THEN {",", ")"} ELSE {")"})
  <2> DEFINE openings == {i \in 1..cursor-1 : tokens[i] \in Openings /\ depth(i + 1, cursor) = 0}
  <2>1. a \in openings /\ \A j \in openings : j <= a BY InnermostOpen
  <2> HIDE DEF openings
  <2>2. \E i \in openings : /\ \A j \in openings : j <= i
                            /\ peek \notin (IF tokens[i] = "f(" THEN {",", ")"} ELSE {")"})
    BY <2>1
  <2> QED BY <2>2 DEF openings
<1>3. RefusedTokensCannotFollow'
  <2>1. tokens' = tokens BY DEF print_error
  <2>2. cursor' = cursor /\ peek' = peek BY <2>1 DEF cursor, peek
  <2>3. \A i, p : depth(i, p)' = depth(i, p) BY <2>1 DEF depth
  <2>4. cursor > 1 /\ tokens[cursor - 1] \in {"x", ")"} BY DEF Operands
  <2> QED BY <1>1, <1>2, <2>1, <2>2, <2>3, <2>4 DEF RefusedTokensCannotFollow
<1> QED BY <1>3, RejectStep

LEMMA ArgumentRefused ==
  ASSUME IInv, Returns("args"), ~Separates(peek), print_error PROVE IInv'
<1>1. /\ TextTyped(tokens) /\ cursor \in Nat
      /\ Below.phase = "args" /\ Top.precedence >= Precedence(peek)
      /\ \E span, begin, a, c :
           /\ Reading(tokens, nodes, stack, span, begin)
           /\ a \in Nat \ {0} /\ c \in Nat
           /\ Waiting(tokens, span, Below, a, c, Top.precedence)
           /\ Having(tokens, span, Top, c)
           /\ Value \in DOMAIN nodes /\ Value \in DOMAIN span /\ span[Value] = <<c, cursor - 1>>
  BY AtReturn
<1>2. PICK span, begin, a, c :
           /\ Reading(tokens, nodes, stack, span, begin)
           /\ a \in Nat \ {0} /\ c \in Nat
           /\ Waiting(tokens, span, Below, a, c, Top.precedence)
           /\ Having(tokens, span, Top, c)
           /\ Value \in DOMAIN nodes /\ Value \in DOMAIN span /\ span[Value] = <<c, cursor - 1>>
  BY <1>1
<1>3. /\ Whole(tokens, c, cursor - 1) /\ c \in Nat \ {0} /\ c <= cursor - 1
  BY <1>2, ReturnedOperand
<1>4. ArgumentsFrame(tokens, span, Below, a, c, Top.precedence)
  BY <1>1, <1>2 DEF Waiting, PrefixFrame, InfixFrame, AddressFrame, ArgumentsFrame
<1>5. tokens[a] = "f(" /\ Inside(tokens, a, c) /\ Top.precedence = LOWEST
  BY <1>4 DEF ArgumentsFrame, ArgumentsTo
<1>6. Inside(tokens, a, cursor)
  <2>1. a \in Nat BY <1>2
  <2> QED BY <1>1, <1>2, <1>3, <1>5, <2>1, InsideGrows
<1>7. tokens[cursor - 1] \in Operands BY <1>3 DEF Whole
<1>8. cursor > 1 BY <1>1, <1>3
<1>9. Precedence(peek) = 0
  <2>1. Precedence(peek) \in 0..PREFIX BY Precedences
  <2>2. 0 >= Precedence(peek) BY <1>1, <1>5 DEF LOWEST
  <2> QED BY <2>1, <2>2 DEF PREFIX
<1>10. tokens[a] \in Openings /\ peek \notin (IF tokens[a] = "f(" THEN {",", ")"} ELSE {")"})
  BY <1>5 DEF Openings, Separates
<1> QED BY <1>1, <1>2, <1>6, <1>7, <1>8, <1>9, <1>10, RefusedInside

LEMMA AddressRefused ==
  ASSUME IInv, Returns("read"), ~Closing(peek), print_error PROVE IInv'
<1>1. /\ cursor \in Nat /\ Top.precedence >= Precedence(peek) /\ Top.precedence = LOWEST
      /\ \E a : /\ a \in Nat \ {0} /\ a + 1 <= cursor - 1
                /\ tokens[a] = "read(" /\ Whole(tokens, a + 1, cursor - 1)
  BY AtAddress
<1>2. PICK a : /\ a \in Nat \ {0} /\ a + 1 <= cursor - 1
               /\ tokens[a] = "read(" /\ Whole(tokens, a + 1, cursor - 1)
  BY <1>1
<1>3. Inside(tokens, a, cursor)
  <2>1. a \in Nat BY <1>2
  <2> QED BY <1>1, <1>2, <2>1, OneInside
<1>4. tokens[cursor - 1] \in Operands BY <1>2 DEF Whole
<1>5. cursor > 1 BY <1>1, <1>2
<1>6. Precedence(peek) = 0
  <2>1. Precedence(peek) \in 0..PREFIX BY Precedences
  <2>2. 0 >= Precedence(peek) BY <1>1 DEF LOWEST
  <2> QED BY <2>1, <2>2 DEF PREFIX
<1>7. tokens[a] \in Openings /\ peek \notin (IF tokens[a] = "f(" THEN {",", ")"} ELSE {")"})
  BY <1>2 DEF Openings, Closing
<1> QED BY <1>1, <1>2, <1>3, <1>4, <1>5, <1>6, <1>7, RefusedInside

LEMMA WriteRefused ==
  ASSUME IInv, ReturnToWrite PROVE IInv'
<1>1. Returns("write") /\ print_error BY DEF ReturnToWrite
<1>2. /\ cursor \in Nat
      /\ \E a : a \in Nat \ {0} /\ a + 1 <= cursor - 1 /\ tokens[a] = "write("
  <2>1. "write" \in {"read", "write"} /\ "write" # "read" OBVIOUS
  <2> QED BY <1>1, <2>1, AtAddress
<1>3. PICK a : a \in Nat \ {0} /\ a + 1 <= cursor - 1 /\ tokens[a] = "write(" BY <1>2
<1>4. a \in 1..cursor BY <1>2, <1>3
<1>5. "write(" \in {tokens[i] : i \in 1..cursor} BY <1>3, <1>4
<1>6. tokens' = tokens /\ cursor' = cursor BY <1>1 DEF print_error, cursor
<1>7. RefusedTokensCannotFollow' BY <1>5, <1>6 DEF RefusedTokensCannotFollow
<1> QED BY <1>1, <1>7, RejectStep

LEMMA Begins == Init => IInv
<1> SUFFICES ASSUME Init PROVE IInv OBVIOUS
<1>1. PICK t \in TokenTypes : tokens = <<t>> BY DEF Init
<1>2. nodes = <<>> /\ stack = <<Activation(LOWEST)>> /\ result = 0 BY DEF Init
<1>3. /\ tokens \in Seq(TokenTypes) /\ Len(tokens) = 1 /\ tokens[1] = t BY <1>1
<1>4. MaxTokens \in Nat \ {0} BY ParserAssumption
<1>5. TextTyped(tokens)
  <2>1. 1 \in 1..MaxTokens+1 /\ 1..1-1 = {} /\ ~(1 > MaxTokens) BY <1>4
  <2> QED BY <1>3, <2>1 DEF TextTyped
<1>6. DOMAIN nodes = {} BY <1>2
<1>7. TreeTyped(nodes) BY <1>6 DEF TreeTyped
<1>8. /\ Activation(LOWEST) \in FramesOver(DOMAIN nodes)
      /\ Activation(LOWEST).precedence = LOWEST /\ Activation(LOWEST).phase = "start"
      /\ Activation(LOWEST).at = 0 /\ Activation(LOWEST).parts = <<>>
  <2>1. LOWEST \in LOWEST..PREFIX BY DEF LOWEST, PREFIX
  <2>2. 0 \in 0..MaxTokens BY <1>4
  <2>3. <<>> \in Seq(DOMAIN nodes) OBVIOUS
  <2> QED BY <2>1, <2>2, <2>3 DEF Activation, FramesOver
<1> DEFINE f == Activation(LOWEST)
<1>9. /\ stack \in Seq(FramesOver(DOMAIN nodes)) /\ stack # <<>> /\ Len(stack) = 1
      /\ stack[1] = f
  <2> HIDE DEF f
  <2> DEFINE F == FramesOver(DOMAIN nodes)
  <2>1. f \in F /\ stack = <<f>> BY <1>2, <1>8 DEF f
  <2> HIDE DEF F
  <2>2. stack \in Seq(F) /\ Len(stack) = 1 /\ stack[1] = f BY <2>1
  <2>3. stack # <<>>
    <3>1. Len(<<>>) = 0 OBVIOUS
    <3> QED BY <2>2, <3>1
  <2> QED BY <2>2, <2>3 DEF F
<1>10. Reading(tokens, nodes, stack, nodes, <<1>>)
  <2> DEFINE begin == <<1>>
  <2>1. begin[1] = 1 OBVIOUS
  <2>2. Placed(tokens, nodes, nodes) BY <1>6 DEF Placed
  <2>3. Starting(tokens, f, 1) BY <1>3, <1>8 DEF Starting
  <2>4. \A k \in 1..1 : k = 1 OBVIOUS
  <2>5. 1..1-1 = {} OBVIOUS
  <2> HIDE DEF f, begin
  <2>6. /\ \A k \in 1..1 : begin[k] \in Nat \ {0} /\ begin[k] <= 1
        /\ \A k \in 1..1-1 : Waiting(tokens, nodes, stack[k], begin[k], begin[k+1], stack[k+1].precedence)
        /\ \A j \in 1..1 : \A k \in 1..j-1 : stack[k].at < begin[j]
    <3>1. \A k \in 1..1 : begin[k] \in Nat \ {0} /\ begin[k] <= 1
      <4> SUFFICES ASSUME NEW k \in 1..1 PROVE begin[k] \in Nat \ {0} /\ begin[k] <= 1 OBVIOUS
      <4>1. begin[k] = 1 BY <2>1, <2>4
      <4> QED BY <4>1
    <3>2. \A k \in 1..1-1 : Waiting(tokens, nodes, stack[k], begin[k], begin[k+1], stack[k+1].precedence)
      BY <2>5
    <3>3. \A j \in 1..1 : \A k \in 1..j-1 : stack[k].at < begin[j]
      <4> SUFFICES ASSUME NEW j \in 1..1, NEW k \in 1..j-1 PROVE FALSE OBVIOUS
      <4> QED OBVIOUS
    <3> QED BY <3>1, <3>2, <3>3
  <2>7. Active(tokens, nodes, stack[1], begin[1]) BY <1>9, <2>1, <2>3 DEF Active
  <2>8. stack[1].precedence = LOWEST BY <1>8, <1>9 DEF f
  <2>9. Reading(tokens, nodes, stack, nodes, begin)
    BY <1>3, <1>9, <2>1, <2>2, <2>6, <2>7, <2>8 DEF Reading
  <2> QED BY <2>9 DEF begin
<1>11. 0 \in 0..MaxTokens+1 /\ Rejected # 0 BY <1>4 DEF Rejected
<1>12. RefusedTokensCannotFollow BY <1>2, <1>11 DEF RefusedTokensCannotFollow
<1>13. \E span, begin : Reading(tokens, nodes, stack, span, begin) BY <1>10
<1> QED BY <1>2, <1>5, <1>7, <1>9, <1>11, <1>12, <1>13 DEF IInv

LEMMA Stutters == ASSUME IInv, UNCHANGED vars PROVE IInv'
<1>1. tokens' = tokens /\ nodes' = nodes /\ stack' = stack /\ result' = result BY DEF vars
<1>2. cursor' = cursor /\ peek' = peek /\ \A a, p : depth(a, p)' = depth(a, p)
  BY <1>1 DEF cursor, peek, depth
<1>3. RefusedTokensCannotFollow' BY <1>1, <1>2 DEF IInv, RefusedTokensCannotFollow, Rejected
<1>4. Rejected' = Rejected BY DEF Rejected
<1> QED BY <1>1, <1>3, <1>4 DEF IInv

LEMMA ReturnArgumentStep ==
  ASSUME IInv, ReturnArgument PROVE IInv'
<1>1. Returns("args") BY DEF ReturnArgument
<1>2. CASE Separates(peek)
  <2>1. /\ CommaConsumed
        /\ stack' = [Outer EXCEPT ![Len(Outer)].parts = Append(@, Value)]
        /\ UNCHANGED <<nodes, result>>
    BY <1>2 DEF ReturnArgument, Separates, CommaConsumed
  <2> QED BY <1>1, <1>2, <2>1, ArgumentReturns
<1>3. CASE ~Separates(peek)
  <2>1. print_error BY <1>3 DEF ReturnArgument, Separates
  <2> QED BY <1>1, <1>3, <2>1, ArgumentRefused
<1> QED BY <1>2, <1>3

LEMMA ReturnAddressStep ==
  ASSUME IInv, ReturnAddress PROVE IInv'
<1>1. Returns("read") BY DEF ReturnAddress
<1>2. CASE Closing(peek)
  <2>1. consume /\ Complete /\ UNCHANGED result BY <1>2 DEF ReturnAddress, Closing
  <2> QED BY <1>1, <1>2, <2>1, AddressReturns
<1>3. CASE ~Closing(peek)
  <2>1. print_error BY <1>3 DEF ReturnAddress, Closing
  <2> QED BY <1>1, <1>3, <2>1, AddressRefused
<1> QED BY <1>2, <1>3

(* The invariant: every activation waits for an operand where one can      *)
(* begin, with what it has read before that; every node is a whole operand *)
(* of the text with its operator in the right place.                       *)
THEOREM ParserInvariant == Spec => []IInv
<1>1. ASSUME IInv, [Next]_vars PROVE IInv'
  <2>1. CASE Prefix BY <1>1, <2>1, PrefixStep
  <2>2. CASE Operand BY <1>1, <2>2, OperandStep
  <2>3. CASE FunctionCall BY <1>1, <2>3, FunctionCallStep
  <2>4. CASE ReadOrWrite BY <1>1, <2>4, ReadOrWriteStep
  <2>5. CASE NoPrimary BY <1>1, <2>5, NoPrimaryStep
  <2>6. CASE Argument BY <1>1, <2>6, ArgumentStep
  <2>7. CASE EndCall BY <1>1, <2>7, EndCallStep
  <2>8. CASE Infix BY <1>1, <2>8, InfixStep
  <2>9. CASE ReturnOperand BY <1>1, <2>9, ReturnOperandStep
  <2>10. CASE ReturnArgument BY <1>1, <2>10, ReturnArgumentStep
  <2>11. CASE ReturnAddress BY <1>1, <2>11, ReturnAddressStep
  <2>12. CASE ReturnToWrite BY <1>1, <2>12, WriteRefused
  <2>13. CASE Finish BY <1>1, <2>13, FinishStep
  <2>14. CASE Done BY <1>1, <2>14, Stutters DEF Done
  <2>15. CASE UNCHANGED vars BY <1>1, <2>15, Stutters
  <2> QED BY <1>1, <2>1, <2>2, <2>3, <2>4, <2>5, <2>6, <2>7, <2>8, <2>9, <2>10, <2>11,
             <2>12, <2>13, <2>14, <2>15 DEF Next
<1> QED BY <1>1, Begins, PTL DEF Spec

(* Nodes and activations stay what their types say, however long the       *)
(* expression is.                                                          *)
THEOREM ParserTyped == Spec => []TypeOK
BY ParserInvariant, InvariantTyped, PTL

(* Whatever the operators and however deep the parentheses, a token that   *)
(* is refused could not have followed.                                     *)
THEOREM RefusalsJustified == Spec => []RefusedTokensCannotFollow
<1>1. IInv => RefusedTokensCannotFollow BY DEF IInv
<1> QED BY <1>1, ParserInvariant, PTL

-----------------------------------------------------------------------------
(***************************************************************************)
(* The meaning of an expression, as the solution of the equation it is     *)
(* defined by.                                                             *)
(***************************************************************************)
Triples     == Nat \X Nat \X Nat
Found(a, b) == Outside(a, Infixes(a, b))
RankIn(R, r) == Cardinality({q \in R : q[1] <= r[1]})

BinaryRule(means, p, a, b) ==
  /\ p = Loosest(Found(a, b))
  /\ Len(nodes[p]) = 2
  /\ means[<<nodes[p][1], a, p - 1>>]
  /\ means[<<nodes[p][2], p + 1, b>>]

UnaryRule(means, p, a, b) ==
  p = a /\ Len(nodes[p]) = 1 /\ means[<<nodes[p][1], a + 1, b>>]

PlainRule(p, a, b) == p = a /\ b = a /\ nodes[p] = <<>>

ArgumentsRule(means, p, a, b) ==
  /\ p = a /\ a < b /\ tokens[b] = ")"
  /\ Len(nodes[p]) = Cardinality(Arguments(a, b))
  /\ \A r \in Arguments(a, b) :
       means[<<nodes[p][RankIn(Arguments(a, b), r)], r[1], r[2]>>]

Rule(means, s) ==
  LET p == s[1]
      a == s[2]
      b == s[3]
      outside == Outside(a, Infixes(a, b))
      parts   == nodes[p]
  IN  /\ p \in DOMAIN nodes
      /\ CASE outside # {} ->
                /\ p = Loosest(outside)
                /\ Len(parts) = 2
                /\ means[<<parts[1], a, p - 1>>]
                /\ means[<<parts[2], p + 1, b>>]
           [] outside = {} /\ tokens[a] \in Prefixes ->
                p = a /\ Len(parts) = 1 /\ means[<<parts[1], a + 1, b>>]
           [] outside = {} /\ tokens[a] = "x" ->
                p = a /\ b = a /\ parts = <<>>
           [] OTHER ->
                /\ p = a /\ a < b /\ tokens[b] = ")"
                /\ Len(parts) = Cardinality(Arguments(a, b))
                /\ \A r \in Arguments(a, b) :
                     LET i == Cardinality({q \in Arguments(a, b) : q[1] <= r[1]})
                     IN  means[<<parts[i], r[1], r[2]>>]

Table == CHOOSE means : means = [s \in Nat \X Nat \X Nat |-> Rule(means, s)]

LEMMA MeansIs == ASSUME NEW p, NEW a, NEW b PROVE Means(p, a, b) = Table[<<p, a, b>>]
BY Zenon DEF Means, Table, Rule

(* Which part of the rule is used.                                         *)
LEMMA RuleIs ==
  ASSUME NEW means, NEW p, NEW a, NEW b
  PROVE  Rule(means, <<p, a, b>>) <=>
           /\ p \in DOMAIN nodes
           /\ \/ Found(a, b) # {} /\ BinaryRule(means, p, a, b)
              \/ Found(a, b) = {} /\ tokens[a] \in Prefixes /\ UnaryRule(means, p, a, b)
              \/ /\ Found(a, b) = {} /\ tokens[a] \notin Prefixes /\ tokens[a] = "x"
                 /\ PlainRule(p, a, b)
              \/ /\ Found(a, b) = {} /\ tokens[a] \notin Prefixes /\ tokens[a] # "x"
                 /\ ArgumentsRule(means, p, a, b)
<1>1. tokens[a] \in Prefixes => tokens[a] # "x" BY DEF Prefixes
<1>2. /\ <<p, a, b>>[1] = p /\ <<p, a, b>>[2] = a /\ <<p, a, b>>[3] = b OBVIOUS
<1> DEFINE A == BinaryRule(means, p, a, b)  B == UnaryRule(means, p, a, b)
           C == PlainRule(p, a, b)  D == ArgumentsRule(means, p, a, b)
           f == Found(a, b) # {}  k == tokens[a] \in Prefixes  x == tokens[a] = "x"
<1>3. Rule(means, <<p, a, b>>) <=>
        /\ p \in DOMAIN nodes
        /\ CASE f -> A [] ~f /\ k -> B [] ~f /\ x -> C [] OTHER -> D
  BY <1>2 DEF Rule, BinaryRule, UnaryRule, PlainRule, ArgumentsRule, Found, RankIn
<1>4. f \in BOOLEAN /\ k \in BOOLEAN /\ x \in BOOLEAN /\ ~(k /\ x) BY <1>1
<1> HIDE DEF A, B, C, D, f, k, x
<1>5. (CASE f -> A [] ~f /\ k -> B [] ~f /\ x -> C [] OTHER -> D)
        <=> (f /\ A) \/ (~f /\ k /\ B) \/ (~f /\ ~k /\ x /\ C) \/ (~f /\ ~k /\ ~x /\ D)
  BY <1>4
<1> QED BY <1>3, <1>5 DEF A, B, C, D, f, k, x

(* A set of numbers that has one has a smallest one: its initial segment   *)
(* is the smallest.                                                        *)
LEMMA SmallestNumber ==
  ASSUME NEW S \in SUBSET Nat, S # {}
  PROVE  \E n \in S : \A j \in S : n <= j
<1> DEFINE segments == {1..k : k \in S}
<1>1. segments \subseteq FiniteSubsetsOf(Nat)
  <2>1. ASSUME NEW k \in S PROVE 1..k \in FiniteSubsetsOf(Nat)
    <3>1. IsFiniteSet(1..k) BY FS_Interval
    <3> QED BY <3>1 DEF FiniteSubsetsOf
  <2> QED BY <2>1
<1>2. segments # {} OBVIOUS
<1> HIDE DEF segments
<1>3. PICK x \in segments : \A y \in segments : ~ (<<y, x>> \in StrictSubsetOrdering(Nat))
  BY <1>1, <1>2, FS_StrictSubsetOrderingWellFounded, WFMin
<1>4. PICK n \in S : x = 1..n
  BY DEF segments
<1>5. ASSUME NEW j \in S PROVE n <= j
  <2>1. 1..j \in segments BY DEF segments
  <2>2. SUFFICES ASSUME j < n PROVE FALSE OBVIOUS
  <2>3. 1..j \subseteq 1..n /\ 1..j # 1..n BY <2>2
  <2>4. 1..j \in SUBSET Nat /\ 1..n \in SUBSET Nat OBVIOUS
  <2> QED BY <1>3, <1>4, <2>1, <2>3, <2>4 DEF StrictSubsetOrdering
<1> QED BY <1>5

(* Induction up to a bound, on the set of numbers that have been reached.  *)
LEMMA UpTo ==
  ASSUME NEW n \in Nat, NEW S, 0 \in S, \A i \in 1..n : i - 1 \in S => i \in S
  PROVE  \A i \in 0..n : i \in S
<1> DEFINE left == {i \in 0..n : i \notin S}
<1> SUFFICES ASSUME left # {} PROVE FALSE
  OBVIOUS
<1>1. PICK m \in left : \A j \in left : m <= j
  <2>1. left \in SUBSET Nat OBVIOUS
  <2> HIDE DEF left
  <2> QED BY <2>1, SmallestNumber
<1>2. m \in 1..n /\ m - 1 \in 0..n /\ m - 1 \notin left
  BY <1>1
<1> QED BY <1>1, <1>2

LEMMA LargestNumber ==
  ASSUME NEW n \in Nat, NEW S \in SUBSET (0..n), S # {}
  PROVE  \E m \in S : \A j \in S : j <= m
<1> DEFINE U == {k \in Nat : \A j \in S : j <= k}
<1>1. n \in U OBVIOUS
<1>2. U \in SUBSET Nat /\ U # {} BY <1>1
<1>3. PICK m \in U : \A k \in U : m <= k
  <2> HIDE DEF U
  <2> QED BY <1>2, SmallestNumber
<1>4. m \in Nat /\ \A j \in S : j \in Nat /\ j <= m OBVIOUS
<1>5. m \in S
  <2>1. SUFFICES ASSUME m \notin S PROVE FALSE OBVIOUS
  <2>2. \A j \in S : j \in Nat /\ j < m BY <1>4, <2>1
  <2>3. PICK i \in S : TRUE OBVIOUS
  <2>4. m - 1 \in Nat BY <1>4, <2>2, <2>3
  <2>5. \A j \in S : j <= m - 1 BY <1>4, <2>2
  <2>6. m - 1 \in U BY <2>4, <2>5
  <2> HIDE DEF U
  <2>7. m <= m - 1 BY <1>3, <2>6
  <2> QED BY <1>4, <2>7
<1> QED BY <1>4, <1>5

(* The place before an argument that ends before e.                        *)
Start(C, a, e) == CHOOSE p \in C \cup {a} : p < e /\ \A q \in C : q < e => q <= p

LEMMA StartIs ==
  ASSUME NEW a \in Nat, NEW C \in SUBSET Nat, \A q \in C : a < q, NEW e \in Nat, a < e
  PROVE  /\ Start(C, a, e) \in Nat /\ a <= Start(C, a, e)
         /\ Previous(C, a, e, Start(C, a, e))
         /\ \A p : Previous(C, a, e, p) => p = Start(C, a, e)
<1> DEFINE S == {q \in C \cup {a} : q < e}
<1>1. a \in S /\ S \in SUBSET (0..e)
  <2>1. a \in S OBVIOUS
  <2>2. ASSUME NEW j \in S PROVE j \in 0..e
    <3>1. j \in Nat /\ j < e BY <2>2
    <3> QED BY <3>1
  <2> QED BY <2>1, <2>2
<1>2. PICK m \in S : \A j \in S : j <= m
  <2> HIDE DEF S
  <2> QED BY <1>1, LargestNumber
<1>3. m \in C \cup {a} /\ m < e /\ \A q \in C : q < e => q <= m BY <1>2
<1>4. /\ Start(C, a, e) \in C \cup {a} /\ Start(C, a, e) < e
      /\ \A q \in C : q < e => q <= Start(C, a, e)
  BY <1>3 DEF Start
<1> DEFINE s == Start(C, a, e)
<1> HIDE DEF S, s
<1>5. s \in C \cup {a} /\ s < e /\ \A q \in C : q < e => q <= s BY <1>4 DEF s
<1>6. s \in Nat /\ a <= s BY <1>5
<1>7. Previous(C, a, e, s) BY <1>5 DEF Previous
<1>8. ASSUME NEW p, Previous(C, a, e, p) PROVE p = s
  <2>1. p \in C \cup {a} /\ p < e /\ \A q \in C : q < e => q <= p BY <1>8 DEF Previous
  <2>2. p \in Nat /\ a <= p BY <2>1
  <2>3. p <= s
    <3>1. CASE p \in C BY <1>5, <2>1, <3>1
    <3>2. CASE p = a BY <1>6, <3>2
    <3> QED BY <2>1, <3>1, <3>2
  <2>4. s <= p
    <3>1. CASE s \in C BY <1>5, <2>1, <3>1
    <3>2. CASE s = a BY <2>2, <3>2
    <3> QED BY <1>5, <3>1, <3>2
  <2> QED BY <1>6, <2>2, <2>3, <2>4
<1> QED BY <1>6, <1>7, <1>8 DEF s

(* As many as there are.                                                   *)
LEMMA OneEach ==
  ASSUME NEW S, IsFiniteSet(S), NEW T, NEW f \in [S -> T],
         \A x, y \in S : f[x] = f[y] => x = y, \A z \in T : \E x \in S : f[x] = z
  PROVE  IsFiniteSet(T) /\ Cardinality(T) = Cardinality(S)
<1>1. f \in Bijection(S, T) BY DEF Bijection, Injection, Surjection, IsInjective
<1>2. ExistsBijection(S, T) BY <1>1 DEF ExistsBijection
<1> QED BY <1>2, FS_Bijection

(* The places where the arguments end.                                     *)
LEMMA Endings ==
  ASSUME NEW t, NEW a \in Nat, NEW b \in Nat, a < b,
         NEW C, C = Commas(t, a, b), NEW E, E = EndsOf(C, a, b)
  PROVE  /\ C \in SUBSET Nat /\ (\A q \in C : a < q)
         /\ E \in SUBSET Nat /\ IsFiniteSet(E) /\ (\A e \in E : a < e /\ e <= b)
         /\ \A d, e \in E : e < d => e \in C
<1>1. \A q \in C : q \in a+1..b-1 BY DEF Commas
<1>2. \A e \in E : e \in C \/ e = b BY DEF EndsOf
<1> HIDE DEF Commas
<1>3. C \in SUBSET Nat /\ \A q \in C : a < q /\ q < b BY <1>1
<1>4. \A e \in E : e \in Nat /\ a < e /\ e <= b BY <1>2, <1>3
<1>5. IsFiniteSet(E)
  <2>1. E \subseteq a..b BY <1>4
  <2>2. IsFiniteSet(a..b) BY FS_Interval
  <2> QED BY <2>1, <2>2, FS_Subset
<1>6. ASSUME NEW d \in E, NEW e \in E, e < d PROVE e \in C
  <2>1. e # b BY <1>4, <1>6
  <2> QED BY <1>2, <2>1
<1> QED BY <1>3, <1>4, <1>5, <1>6

(* The arguments begin in the order in which they end.                     *)
LEMMA StartsOrdered ==
  ASSUME NEW t, NEW a \in Nat, NEW b \in Nat, a < b,
         NEW C, C = Commas(t, a, b), NEW E, E = EndsOf(C, a, b), NEW d \in E, NEW e \in E
  PROVE  Start(C, a, d) <= Start(C, a, e) <=> d <= e
<1>1. /\ C \in SUBSET Nat /\ (\A q \in C : a < q)
      /\ E \in SUBSET Nat /\ (\A i \in E : a < i /\ i <= b)
      /\ \A i, j \in E : j < i => j \in C
  BY Endings
<1> DEFINE x == Start(C, a, d)  y == Start(C, a, e)
<1>2. d \in Nat /\ e \in Nat /\ a < d /\ a < e BY <1>1
<1>3. x \in Nat /\ a <= x /\ Previous(C, a, d, x) BY <1>1, <1>2, StartIs
<1>4. y \in Nat /\ a <= y /\ Previous(C, a, e, y) BY <1>1, <1>2, StartIs
<1> HIDE DEF x, y
<1>5. ASSUME d <= e PROVE x <= y
  <2>1. x \in C \cup {a} /\ x < d BY <1>3 DEF Previous
  <2>2. CASE x = a BY <1>4, <2>2
  <2>3. CASE x \in C
    <3>1. x < e BY <1>2, <1>3, <1>5, <2>1
    <3> QED BY <1>4, <2>3, <3>1 DEF Previous
  <2> QED BY <2>1, <2>2, <2>3
<1>6. ASSUME e < d PROVE y < x
  <2>1. e \in C BY <1>1, <1>6
  <2>2. e <= x BY <1>3, <1>6, <2>1 DEF Previous
  <2>3. y < e BY <1>4 DEF Previous
  <2> QED BY <1>2, <1>3, <1>4, <2>2, <2>3
<1>7. x <= y <=> d <= e BY <1>2, <1>3, <1>4, <1>5, <1>6
<1> QED BY <1>7 DEF x, y

(* The arguments are one for every place where one ends, in this order.    *)
LEMMA ArgumentsAre ==
  ASSUME NEW a \in Nat, NEW b \in Nat, a < b,
         NEW C, C = Commas(tokens, a, b), NEW E, E = EndsOf(C, a, b)
  PROVE  /\ \A e \in E : <<1 + Start(C, a, e), e - 1>> \in Arguments(a, b)
         /\ \A r \in Arguments(a, b) : \E e \in E : r = <<1 + Start(C, a, e), e - 1>>
<1>1. Outside(a + 1, {p \in a+1..b-1 : tokens[p] = ","}) = C
  BY DepthIs DEF Outside, Commas, Comma
<1>2. Arguments(a, b) = {<<1 + Start(C, a, e), e - 1>> : e \in E}
  BY <1>1, Zenon DEF Arguments, EndsOf, Start
<1> QED BY <1>2

LEMMA ArgumentsCounted ==
  ASSUME NEW a \in Nat, NEW b \in Nat, a < b,
         NEW C, C = Commas(tokens, a, b), NEW E, E = EndsOf(C, a, b)
  PROVE  /\ IsFiniteSet(Arguments(a, b)) /\ Cardinality(Arguments(a, b)) = Cardinality(E)
         /\ \A e \in E : RankIn(Arguments(a, b), <<1 + Start(C, a, e), e - 1>>)
                           = Cardinality({d \in E : d <= e})
<1> DEFINE R == Arguments(a, b)
           f == [e \in E |-> <<1 + Start(C, a, e), e - 1>>]
<1>1. /\ C \in SUBSET Nat /\ (\A q \in C : a < q)
      /\ E \in SUBSET Nat /\ IsFiniteSet(E) /\ (\A e \in E : a < e /\ e <= b)
  BY Endings
<1>2. \A e \in E : f[e] \in R BY ArgumentsAre
<1>3. \A r \in R : \E e \in E : f[e] = r BY ArgumentsAre
<1>4. \A d, e \in E : f[d] = f[e] => d = e
  <2> SUFFICES ASSUME NEW d \in E, NEW e \in E, f[d] = f[e] PROVE d = e OBVIOUS
  <2>1. d - 1 = e - 1 OBVIOUS
  <2>2. d \in Nat /\ e \in Nat BY <1>1
  <2> QED BY <2>1, <2>2
<1>5. f \in [E -> R] BY <1>2
<1>6. \A e \in E : f[e][1] = 1 + Start(C, a, e) OBVIOUS
<1>7. \A e \in E : f[e] = <<1 + Start(C, a, e), e - 1>> OBVIOUS
<1> HIDE DEF f, R
<1>8. IsFiniteSet(R) /\ Cardinality(R) = Cardinality(E) BY <1>1, <1>3, <1>4, <1>5, OneEach
<1>9. ASSUME NEW e \in E PROVE RankIn(R, f[e]) = Cardinality({d \in E : d <= e})
  <2> DEFINE S == {d \in E : d <= e}  T == {q \in R : q[1] <= f[e][1]}
             g == [d \in S |-> f[d]]
  <2>1. ASSUME NEW d \in E PROVE f[d][1] <= f[e][1] <=> d <= e
    <3> DEFINE x == Start(C, a, d)  y == Start(C, a, e)
    <3>1. x \in Nat /\ y \in Nat
      <4>1. d \in Nat /\ e \in Nat /\ a < d /\ a < e BY <1>1
      <4> QED BY <1>1, <4>1, StartIs
    <3>2. x <= y <=> d <= e BY StartsOrdered
    <3> HIDE DEF x, y
    <3>3. f[d][1] = 1 + x /\ f[e][1] = 1 + y BY <1>6 DEF x, y
    <3>4. 1 + x <= 1 + y <=> x <= y BY <3>1
    <3> QED BY <3>2, <3>3, <3>4
  <2>2. \A d \in S : f[d] \in T BY <1>5, <2>1
  <2>3. \A z \in T : \E d \in S : f[d] = z
    <3> SUFFICES ASSUME NEW z \in T PROVE \E d \in S : f[d] = z OBVIOUS
    <3>1. z \in R /\ z[1] <= f[e][1] OBVIOUS
    <3>2. PICK d \in E : f[d] = z BY <1>3, <3>1
    <3>3. d <= e BY <2>1, <3>1, <3>2
    <3> QED BY <3>2, <3>3
  <2>4. S \subseteq E OBVIOUS
  <2>5. RankIn(R, f[e]) = Cardinality(T) BY DEF RankIn
  <2> HIDE DEF S, T
  <2>6. IsFiniteSet(S) BY <1>1, <2>4, FS_Subset
  <2>7. g \in [S -> T] /\ \A d \in S : g[d] = f[d] BY <2>2
  <2> HIDE DEF g
  <2>8. (\A x, y \in S : g[x] = g[y] => x = y) /\ (\A z \in T : \E x \in S : g[x] = z)
    BY <1>4, <2>3, <2>4, <2>7
  <2>9. Cardinality(T) = Cardinality(S) BY <2>6, <2>7, <2>8, OneEach
  <2> QED BY <2>5, <2>9 DEF S
<1>10. \A e \in E : RankIn(R, <<1 + Start(C, a, e), e - 1>>) = Cardinality({d \in E : d <= e})
  BY <1>7, <1>9
<1> QED BY <1>8, <1>10 DEF R

(* Each argument has a number, and begins and ends somewhere.              *)
LEMMA ArgumentsTyped ==
  ASSUME NEW a \in Nat, NEW b \in Nat, a < b, NEW r \in Arguments(a, b)
  PROVE  /\ r[1] \in Nat /\ r[2] \in Nat
         /\ RankIn(Arguments(a, b), r) \in 1..Cardinality(Arguments(a, b))
<1> DEFINE C == Commas(tokens, a, b)  E == EndsOf(C, a, b)
<1>1. C = Commas(tokens, a, b) /\ E = EndsOf(C, a, b) OBVIOUS
<1> HIDE DEF C, E
<1>2. /\ C \in SUBSET Nat /\ (\A q \in C : a < q)
      /\ E \in SUBSET Nat /\ IsFiniteSet(E) /\ (\A e \in E : a < e /\ e <= b)
  BY <1>1, Endings
<1>3. PICK e \in E : r = <<1 + Start(C, a, e), e - 1>> BY <1>1, ArgumentsAre
<1>4. e \in Nat /\ a < e BY <1>2
<1>5. Start(C, a, e) \in Nat BY <1>2, <1>4, StartIs
<1>6. r[1] = 1 + Start(C, a, e) /\ r[2] = e - 1 BY <1>3
<1>7. r[1] \in Nat /\ r[2] \in Nat BY <1>4, <1>5, <1>6
<1>8. /\ RankIn(Arguments(a, b), r) = Cardinality({d \in E : d <= e})
      /\ Cardinality(Arguments(a, b)) = Cardinality(E)
  BY <1>1, <1>3, ArgumentsCounted
<1>9. Cardinality({d \in E : d <= e}) \in 1..Cardinality(E) BY <1>2, Rank
<1> QED BY <1>7, <1>8, <1>9

-----------------------------------------------------------------------------
(* A set of triples as the function that says which are in it.             *)
Chosen(X) == [s \in Triples |-> s \in X]

(* With more below it, what means something still does.                    *)
LEMMA Monotone ==
  ASSUME TreeTyped(nodes), NEW X, NEW Y, X \subseteq Y,
         NEW p \in Nat, NEW a \in Nat, NEW b \in Nat, Rule(Chosen(X), <<p, a, b>>)
  PROVE  Rule(Chosen(Y), <<p, a, b>>)
<1> DEFINE f == Chosen(X)  g == Chosen(Y)
<1>1. \A i, j, k \in Nat : f[<<i, j, k>>] => g[<<i, j, k>>]
  <2> SUFFICES ASSUME NEW i \in Nat, NEW j \in Nat, NEW k \in Nat, f[<<i, j, k>>]
               PROVE  g[<<i, j, k>>]
    OBVIOUS
  <2>1. <<i, j, k>> \in Triples BY DEF Triples
  <2>2. <<i, j, k>> \in X BY <2>1 DEF Chosen
  <2> QED BY <2>1, <2>2 DEF Chosen
<1> HIDE DEF f, g
<1>2. p \in DOMAIN nodes BY RuleIs DEF f
<1>3. /\ p >= 1 /\ nodes[p] \in Seq(DOMAIN nodes)
      /\ \A i \in 1..Len(nodes[p]) : nodes[p][i] \in Nat
  <2>1. DOMAIN nodes \subseteq Nat /\ p \in 1..MaxTokens
    BY <1>2, ParserAssumption DEF TreeTyped, Positions
  <2>2. nodes[p] \in Seq(DOMAIN nodes) BY <1>2 DEF TreeTyped
  <2>3. \A i \in 1..Len(nodes[p]) : nodes[p][i] \in DOMAIN nodes BY <2>2, ElementOfSeq
  <2> QED BY <2>1, <2>2, <2>3
<1>4. a + 1 \in Nat /\ p + 1 \in Nat /\ p - 1 \in Nat BY <1>3
<1>5. ASSUME BinaryRule(f, p, a, b) PROVE BinaryRule(g, p, a, b)
  <2>1. Len(nodes[p]) = 2 BY <1>5 DEF BinaryRule
  <2>2. nodes[p][1] \in Nat /\ nodes[p][2] \in Nat BY <1>3, <2>1
  <2> QED BY <1>1, <1>4, <1>5, <2>2 DEF BinaryRule
<1>6. ASSUME UnaryRule(f, p, a, b) PROVE UnaryRule(g, p, a, b)
  <2>1. Len(nodes[p]) = 1 BY <1>6 DEF UnaryRule
  <2>2. nodes[p][1] \in Nat BY <1>3, <2>1
  <2> QED BY <1>1, <1>4, <1>6, <2>2 DEF UnaryRule
<1>7. ASSUME ArgumentsRule(f, p, a, b) PROVE ArgumentsRule(g, p, a, b)
  <2> DEFINE R == Arguments(a, b)
  <2>1. a < b /\ Len(nodes[p]) = Cardinality(R) BY <1>7 DEF ArgumentsRule
  <2>2. ASSUME NEW r \in R PROVE g[<<nodes[p][RankIn(R, r)], r[1], r[2]>>]
    <3>1. r[1] \in Nat /\ r[2] \in Nat /\ RankIn(R, r) \in 1..Cardinality(R)
      BY <2>1, ArgumentsTyped
    <3>2. nodes[p][RankIn(R, r)] \in Nat BY <1>3, <2>1, <3>1
    <3>3. f[<<nodes[p][RankIn(R, r)], r[1], r[2]>>] BY <1>7 DEF ArgumentsRule
    <3> HIDE DEF R
    <3> QED BY <1>1, <3>1, <3>2, <3>3
  <2> QED BY <1>7, <2>2 DEF ArgumentsRule
<1>8. Rule(f, <<p, a, b>>) BY DEF f
<1>9. Rule(g, <<p, a, b>>)
  <2> DEFINE A == Found(a, b) # {}  K == tokens[a] \in Prefixes  V == tokens[a] = "x"
  <2>1. /\ p \in DOMAIN nodes
        /\ \/ A /\ BinaryRule(f, p, a, b)
           \/ ~A /\ K /\ UnaryRule(f, p, a, b)
           \/ ~A /\ ~K /\ V /\ PlainRule(p, a, b)
           \/ ~A /\ ~K /\ ~V /\ ArgumentsRule(f, p, a, b)
    BY <1>8, RuleIs
  <2>2. Rule(g, <<p, a, b>>) <=>
          /\ p \in DOMAIN nodes
          /\ \/ A /\ BinaryRule(g, p, a, b)
             \/ ~A /\ K /\ UnaryRule(g, p, a, b)
             \/ ~A /\ ~K /\ V /\ PlainRule(p, a, b)
             \/ ~A /\ ~K /\ ~V /\ ArgumentsRule(g, p, a, b)
    BY RuleIs
  <2> HIDE DEF A, K, V
  <2> QED BY <1>5, <1>6, <1>7, <2>1, <2>2
<1> QED BY <1>9 DEF g

(* The equation has a solution: what is in every set that the rule adds    *)
(* nothing to.                                                             *)
Closed(X) == \A s \in Triples : Rule(Chosen(X), s) => s \in X
Smallest  == {s \in Triples : \A X \in SUBSET Triples : Closed(X) => s \in X}

LEMMA Solution ==
  ASSUME TreeTyped(nodes), NEW s \in Triples
  PROVE  s \in Smallest <=> Rule(Chosen(Smallest), s)
<1>1. ASSUME NEW X, NEW Y, X \subseteq Y, NEW r \in Triples, Rule(Chosen(X), r)
      PROVE  Rule(Chosen(Y), r)
  <2>1. PICK p \in Nat, a \in Nat, b \in Nat : r = <<p, a, b>> BY DEF Triples
  <2> QED BY <1>1, <2>1, Monotone
<1>2. ASSUME NEW r \in Triples, Rule(Chosen(Smallest), r) PROVE r \in Smallest
  <2>1. ASSUME NEW X \in SUBSET Triples, Closed(X) PROVE r \in X
    <3>1. Smallest \subseteq X BY <2>1 DEF Smallest
    <3>2. Rule(Chosen(X), r) BY <1>1, <1>2, <3>1
    <3> QED BY <2>1, <3>2 DEF Closed
  <2> QED BY <2>1 DEF Smallest
<1> DEFINE Y == {r \in Triples : Rule(Chosen(Smallest), r)}
<1>3. Y \in SUBSET Triples OBVIOUS
<1>4. Y \subseteq Smallest BY <1>2
<1>5. Closed(Y)
  <2>1. ASSUME NEW r \in Triples, Rule(Chosen(Y), r) PROVE r \in Y
    <3>1. Rule(Chosen(Smallest), r)
      <4> HIDE DEF Y
      <4> QED BY <1>1, <1>4, <2>1
    <3> QED BY <3>1
  <2> HIDE DEF Y
  <2> QED BY <2>1 DEF Closed
<1>6. Smallest \subseteq Y
  <2> HIDE DEF Y
  <2> QED BY <1>3, <1>5 DEF Smallest
<1> QED BY <1>2, <1>6

LEMMA TableIs ==
  ASSUME TreeTyped(nodes), NEW s \in Triples
  PROVE  Table[s] <=> Rule(Table, s)
<1> DEFINE m == Chosen(Smallest)
<1>1. \A r \in Triples : (r \in Smallest) = Rule(m, r)
  <2> SUFFICES ASSUME NEW r \in Triples PROVE (r \in Smallest) = Rule(m, r) OBVIOUS
  <2> DEFINE A == r \in Smallest  B == Rule(m, r)
  <2>1. A <=> B BY Solution
  <2>2. B \in BOOLEAN BY DEF Rule
  <2>3. A \in BOOLEAN OBVIOUS
  <2> HIDE DEF A, B
  <2>4. A = B BY <2>1, <2>2, <2>3
  <2> QED BY <2>4 DEF A, B
<1>2. m = [r \in Triples |-> Rule(m, r)]
  <2>1. m = [r \in Triples |-> r \in Smallest] BY DEF Chosen
  <2> HIDE DEF m
  <2> QED BY <1>1, <2>1, Zenon
<1> HIDE DEF m
<1>3. m = [r \in Nat \X Nat \X Nat |-> Rule(m, r)] BY <1>2, Zenon DEF Triples
<1>4. Table = [r \in Nat \X Nat \X Nat |-> Rule(Table, r)] BY <1>3, Zenon DEF Table
<1>5. s \in Nat \X Nat \X Nat BY DEF Triples
<1> QED BY <1>4, <1>5, Zenon


-----------------------------------------------------------------------------
(***************************************************************************)
(* What is placed in the text means what it should.                        *)
(***************************************************************************)
LEMMA FoundIs == ASSUME NEW a, NEW b PROVE Found(a, b) = Ops(tokens, a, b)
BY DepthIs DEF Found, Outside, Infixes, Ops, Operands

LEMMA LoosestIs ==
  ASSUME NEW S \in SUBSET Nat, NEW p \in S,
         \A q \in S : \/ Precedence(tokens[p]) < Precedence(tokens[q])
                      \/ Precedence(tokens[p]) = Precedence(tokens[q]) /\ q <= p
  PROVE  p = Loosest(S)
<1> DEFINE level(q) == Precedence(tokens[q])  r == Loosest(S)
<1>1. \A q : level(q) \in Nat BY Precedences DEF PREFIX
<1>2. r \in S /\ \A q \in S : level(r) < level(q) \/ (level(r) = level(q) /\ q <= r)
  BY DEF Loosest
<1>3. \A q \in S : level(p) < level(q) \/ (level(p) = level(q) /\ q <= p) OBVIOUS
<1> HIDE DEF level, r
<1>4. level(p) \in Nat /\ level(r) \in Nat BY <1>1
<1>5. level(r) < level(p) \/ (level(r) = level(p) /\ p <= r) BY <1>2
<1>6. level(p) < level(r) \/ (level(p) = level(r) /\ r <= p) BY <1>2, <1>3
<1>7. p \in Nat /\ r \in Nat BY <1>2
<1>8. p = r BY <1>4, <1>5, <1>6, <1>7
<1> QED BY <1>8 DEF r

(* What is shorter than n tokens means what it should.                     *)
Understood(span, n) ==
  \A l \in DOMAIN span : \A c, d \in Nat :
    span[l] = <<c, d>> /\ d - c < n => Table[<<l, c, d>>]

LEMMA BinaryMeans ==
  ASSUME TreeTyped(nodes), NEW span, NEW a \in Nat, NEW b \in Nat, NEW p \in DOMAIN nodes, p \in Nat,
         Binary(tokens, span, nodes[p], p, a, b), Understood(span, b - a)
  PROVE  Table[<<p, a, b>>]
<1> DEFINE S == Ops(tokens, a, b)
<1>1. S = Found(a, b) BY FoundIs
<1>2. \A q \in S : q \in a+1..b BY DEF Ops
<1>3. p \in S /\ \A q \in S : \/ Precedence(tokens[p]) < Precedence(tokens[q])
                              \/ Precedence(tokens[p]) = Precedence(tokens[q]) /\ q <= p
  BY DEF Binary
<1>4. PICK l \in DOMAIN span, r \in DOMAIN span :
        nodes[p] = <<l, r>> /\ span[l] = <<a, p - 1>> /\ span[r] = <<p + 1, b>>
  BY DEF Binary
<1> HIDE DEF S
<1>5. S \in SUBSET Nat BY <1>2
<1>6. p = Loosest(S) BY <1>3, <1>5, LoosestIs
<1>7. p \in a+1..b BY <1>2, <1>3
<1>8. p - 1 \in Nat /\ p + 1 \in Nat /\ (p - 1) - a < b - a /\ b - (p + 1) < b - a BY <1>7
<1>9. Table[<<l, a, p - 1>>] BY <1>4, <1>8 DEF Understood
<1>10. Table[<<r, p + 1, b>>] BY <1>4, <1>8 DEF Understood
<1>11. Len(nodes[p]) = 2 /\ nodes[p][1] = l /\ nodes[p][2] = r BY <1>4
<1>12. BinaryRule(Table, p, a, b) BY <1>1, <1>6, <1>9, <1>10, <1>11 DEF BinaryRule
<1>13. Found(a, b) # {} BY <1>1, <1>3
<1>14. Rule(Table, <<p, a, b>>) BY <1>12, <1>13, RuleIs
<1>15. <<p, a, b>> \in Triples BY DEF Triples
<1> QED BY <1>14, <1>15, TableIs

LEMMA UnaryMeans ==
  ASSUME TreeTyped(nodes), NEW span, NEW a \in Nat, NEW b \in Nat, NEW p \in DOMAIN nodes, p \in Nat,
         Unary(tokens, span, nodes[p], p, a, b), Understood(span, b - a)
  PROVE  Table[<<p, a, b>>]
<1>1. Found(a, b) = {} /\ p = a /\ tokens[a] \in Prefixes BY FoundIs DEF Unary
<1>2. PICK r \in DOMAIN span : nodes[p] = <<r>> /\ span[r] = <<a + 1, b>> BY DEF Unary
<1>3. a + 1 \in Nat /\ b - (a + 1) < b - a OBVIOUS
<1>4. Table[<<r, a + 1, b>>] BY <1>2, <1>3 DEF Understood
<1>5. Len(nodes[p]) = 1 /\ nodes[p][1] = r BY <1>2
<1>6. UnaryRule(Table, p, a, b) BY <1>1, <1>4, <1>5 DEF UnaryRule
<1>7. Rule(Table, <<p, a, b>>) BY <1>1, <1>6, RuleIs
<1>8. <<p, a, b>> \in Triples BY DEF Triples
<1> QED BY <1>7, <1>8, TableIs

LEMMA PlainMeans ==
  ASSUME TreeTyped(nodes), NEW a \in Nat, NEW b \in Nat, NEW p \in DOMAIN nodes, p \in Nat,
         Plain(tokens, nodes[p], p, a, b)
  PROVE  Table[<<p, a, b>>]
<1>1. Found(a, b) = {} /\ p = a /\ b = a /\ tokens[a] = "x" /\ nodes[p] = <<>>
  BY FoundIs DEF Plain
<1>2. tokens[a] \notin Prefixes BY <1>1 DEF Prefixes
<1>3. PlainRule(p, a, b) BY <1>1 DEF PlainRule
<1>4. Rule(Table, <<p, a, b>>) BY <1>1, <1>2, <1>3, RuleIs
<1>5. <<p, a, b>> \in Triples BY DEF Triples
<1> QED BY <1>4, <1>5, TableIs

(* The operand for an argument is in its place.                            *)
LEMMA ArgumentsMean ==
  ASSUME NEW span, NEW parts, NEW a \in Nat, NEW b \in Nat, a < b,
         NEW C, C = Commas(tokens, a, b), NEW E, E = EndsOf(C, a, b),
         Listed(span, parts, a, C, E), Understood(span, b - a)
  PROVE  /\ Len(parts) = Cardinality(Arguments(a, b))
         /\ \A r \in Arguments(a, b) :
              Table[<<parts[RankIn(Arguments(a, b), r)], r[1], r[2]>>]
<1>1. /\ C \in SUBSET Nat /\ (\A q \in C : a < q)
      /\ E \in SUBSET Nat /\ (\A e \in E : a < e /\ e <= b)
  BY Endings
<1>2. Len(parts) = Cardinality(Arguments(a, b)) BY ArgumentsCounted DEF Listed
<1>3. ASSUME NEW r \in Arguments(a, b)
      PROVE  Table[<<parts[RankIn(Arguments(a, b), r)], r[1], r[2]>>]
  <2>1. PICK e \in E : r = <<1 + Start(C, a, e), e - 1>> BY ArgumentsAre
  <2> DEFINE s == Start(C, a, e)  k == RankIn(Arguments(a, b), r)  n == parts[k]
  <2>2. k = Cardinality({d \in E : d <= e}) BY <2>1, ArgumentsCounted
  <2>3. n \in DOMAIN span /\ \E q : Previous(C, a, e, q) /\ span[n] = <<q + 1, e - 1>>
    BY <2>2 DEF Listed
  <2>4. e \in Nat /\ a < e /\ e <= b BY <1>1
  <2>5. s \in Nat /\ a <= s /\ Previous(C, a, e, s) /\ \A q : Previous(C, a, e, q) => q = s
    BY <1>1, <2>4, StartIs
  <2>6. r = <<1 + s, e - 1>> BY <2>1
  <2> HIDE DEF s, k, n
  <2>7. span[n] = <<s + 1, e - 1>> BY <2>3, <2>5
  <2>8. s + 1 \in Nat /\ 1 + s = s + 1 /\ e - 1 \in Nat /\ (e - 1) - (s + 1) < b - a
    BY <2>4, <2>5
  <2>9. Table[<<n, s + 1, e - 1>>] BY <2>3, <2>7, <2>8 DEF Understood
  <2>10. r[1] = s + 1 /\ r[2] = e - 1 BY <2>6, <2>8
  <2>11. Table[<<n, r[1], r[2]>>] BY <2>9, <2>10
  <2> QED BY <2>11 DEF n, k
<1> QED BY <1>2, <1>3

LEMMA ParenthesisedMeans ==
  ASSUME TreeTyped(nodes), NEW span, NEW a \in Nat, NEW b \in Nat, NEW p \in DOMAIN nodes, p \in Nat,
         Parenthesised(tokens, span, nodes[p], p, a, b), Understood(span, b - a)
  PROVE  Table[<<p, a, b>>]
<1>1. /\ Found(a, b) = {} /\ p = a /\ a < b
      /\ tokens[a] \in Openings /\ tokens[b] = ")"
  BY FoundIs DEF Parenthesised
<1>2. Listed(span, nodes[p], a, Commas(tokens, a, b), EndsOf(Commas(tokens, a, b), a, b))
  BY DEF Parenthesised
<1>3. tokens[a] \notin Prefixes /\ tokens[a] # "x" BY <1>1 DEF Prefixes, Openings
<1>4. /\ Len(nodes[p]) = Cardinality(Arguments(a, b))
      /\ \A r \in Arguments(a, b) :
           Table[<<nodes[p][RankIn(Arguments(a, b), r)], r[1], r[2]>>]
  BY <1>1, <1>2, ArgumentsMean
<1>5. ArgumentsRule(Table, p, a, b) BY <1>1, <1>4 DEF ArgumentsRule
<1>6. Rule(Table, <<p, a, b>>) BY <1>1, <1>3, <1>5, RuleIs
<1>7. <<p, a, b>> \in Triples BY DEF Triples
<1> QED BY <1>6, <1>7, TableIs

(* By induction on the length.                                             *)
LEMMA AllUnderstood ==
  ASSUME TextTyped(tokens), TreeTyped(nodes), NEW span, Placed(tokens, nodes, span)
  PROVE  Understood(span, Len(tokens))
<1> DEFINE S == {n \in Nat : Understood(span, n)}
<1>1. Len(tokens) \in Nat /\ DOMAIN span = DOMAIN nodes BY DEF TextTyped, Placed
<1>2. ASSUME NEW l \in DOMAIN span, NEW c \in Nat, NEW d \in Nat, span[l] = <<c, d>>
      PROVE  Spans(tokens, span, nodes[l], l, c, d)
  <2>1. PICK a, b : Spans(tokens, span, nodes[l], l, a, b) BY <1>1 DEF Placed
  <2>2. span[l] = <<a, b>> BY <2>1 DEF Spans
  <2>3. a = c /\ b = d BY <1>2, <2>2
  <2> QED BY <2>1, <2>3
<1>3. 0 \in S
  <2>1. ASSUME NEW l \in DOMAIN span, NEW c \in Nat, NEW d \in Nat, span[l] = <<c, d>>, d - c < 0
        PROVE  FALSE
    <3>1. Spans(tokens, span, nodes[l], l, c, d) BY <1>2, <2>1
    <3>2. c <= d BY <3>1 DEF Spans, Whole
    <3> QED BY <2>1, <3>2
  <2>2. Understood(span, 0) BY <2>1 DEF Understood
  <2> QED BY <2>2
<1>4. ASSUME NEW i \in 1..Len(tokens), i - 1 \in S PROVE i \in S
  <2>1. i \in Nat /\ Understood(span, i - 1) BY <1>1, <1>4
  <2>2. ASSUME NEW l \in DOMAIN span, NEW c \in Nat, NEW d \in Nat, span[l] = <<c, d>>, d - c < i
        PROVE  Table[<<l, c, d>>]
    <3>1. CASE d - c < i - 1 BY <2>1, <2>2, <3>1 DEF Understood
    <3>2. CASE ~(d - c < i - 1)
      <4>1. d - c = i - 1 BY <2>1, <2>2, <3>2
      <4>2. Understood(span, d - c) BY <2>1, <4>1
      <4>3. Spans(tokens, span, nodes[l], l, c, d) BY <1>2, <2>2
      <4>4. l \in DOMAIN nodes /\ l \in Nat
        BY <1>1, ParserAssumption DEF TreeTyped, Positions
      <4>5. NodeOf(tokens, span, nodes[l], l, c, d) BY <4>3 DEF Spans
      <4> QED BY <4>2, <4>4, <4>5, BinaryMeans, UnaryMeans, PlainMeans, ParenthesisedMeans
              DEF NodeOf
    <3> QED BY <3>1, <3>2
  <2>3. Understood(span, i) BY <2>2 DEF Understood
  <2> QED BY <2>1, <2>3
<1> HIDE DEF S
<1>5. \A i \in 0..Len(tokens) : i \in S BY <1>1, <1>3, <1>4, UpTo
<1>6. Len(tokens) \in S BY <1>1, <1>5
<1> QED BY <1>6 DEF S

(* The tree that is returned is what the expression means, for expressions *)
(* of any length, over any operators and with any calls in it.             *)
THEOREM TreeMeans == Spec => []TreeIsMeaning
<1>1. ASSUME IInv, result \notin {0, Rejected} PROVE Means(result, 1, cursor - 1)
  <2>1. /\ TextTyped(tokens) /\ TreeTyped(nodes) /\ result \in DOMAIN nodes
    BY <1>1 DEF IInv, Built
  <2>2. PICK span : Placed(tokens, nodes, span) /\ span[result] = <<1, Len(tokens) - 1>>
    BY <1>1 DEF IInv, Built
  <2>3. Understood(span, Len(tokens)) BY <2>1, <2>2, AllUnderstood
  <2>4. result \in DOMAIN span BY <2>1, <2>2 DEF Placed
  <2>5. Len(tokens) - 1 \in Nat /\ 1 \in Nat /\ (Len(tokens) - 1) - 1 < Len(tokens)
    BY <2>1 DEF TextTyped
  <2>6. Table[<<result, 1, Len(tokens) - 1>>] BY <2>2, <2>3, <2>4, <2>5 DEF Understood
  <2> QED BY <2>6, MeansIs DEF cursor
<1>2. IInv => TreeIsMeaning BY <1>1 DEF TreeIsMeaning
<1> QED BY <1>2, ParserInvariant, PTL

=============================================================================
