-------------------------- MODULE ExpressionsProofs --------------------------
(***************************************************************************)
(* What is proved of expressions, for every program they can be written    *)
(* in: every node and every instruction has a type (TypeOK), every         *)
(* temporary is written once, before it is read, and read once             *)
(* (TempsWellDefined), calls and reads keep the order of the source        *)
(* (EffectsInOrder), and a value is of the kind its node was checked to    *)
(* have (ValuesHaveCheckedType).                                           *)
(***************************************************************************)
EXTENDS Expressions, FiniteSetTheorems, SequenceTheorems, WellFoundedInduction, TLAPS

-----------------------------------------------------------------------------
(***************************************************************************)
(* Numbers.                                                                *)
(***************************************************************************)

(* A set of numbers that has one has a smallest one: its initial segment   *)
(* is the smallest.                                                        *)
LEMMA SmallestNumber ==
  ASSUME NEW S \in SUBSET Nat, S # {}
  PROVE  \E n \in S : \A j \in S : n <= j
<1> DEFINE segments == {1..k : k \in S}
<1>1. segments \subseteq FiniteSubsetsOf(Nat)
  <2>1. ASSUME NEW k \in S PROVE 1..k \in FiniteSubsetsOf(Nat)
    <3>1. IsFiniteSet(1..k) BY FS_Interval
    <3> QED BY <3>1 DEF FiniteSubsetsOf
  <2> QED BY <2>1
<1>2. segments # {} OBVIOUS
<1> HIDE DEF segments
<1>3. PICK x \in segments : \A y \in segments : ~ (<<y, x>> \in StrictSubsetOrdering(Nat))
  BY <1>1, <1>2, FS_StrictSubsetOrderingWellFounded, WFMin
<1>4. PICK n \in S : x = 1..n
  BY DEF segments
<1>5. ASSUME NEW j \in S PROVE n <= j
  <2>1. 1..j \in segments BY DEF segments
  <2>2. SUFFICES ASSUME j < n PROVE FALSE OBVIOUS
  <2>3. 1..j \subseteq 1..n /\ 1..j # 1..n BY <2>2
  <2>4. 1..j \in SUBSET Nat /\ 1..n \in SUBSET Nat OBVIOUS
  <2> QED BY <1>3, <1>4, <2>1, <2>3, <2>4 DEF StrictSubsetOrdering
<1> QED BY <1>5

(* Induction up to a bound, on the set of numbers that have been reached.  *)
LEMMA UpTo ==
  ASSUME NEW n \in Nat, NEW S, 0 \in S, \A i \in 1..n : i - 1 \in S => i \in S
  PROVE  \A i \in 0..n : i \in S
<1> DEFINE left == {i \in 0..n : i \notin S}
<1> SUFFICES ASSUME left # {} PROVE FALSE
  OBVIOUS
<1>1. PICK m \in left : \A j \in left : m <= j
  <2>1. left \in SUBSET Nat OBVIOUS
  <2> HIDE DEF left
  <2> QED BY <2>1, SmallestNumber
<1>2. m \in 1..n /\ m - 1 \in 0..n /\ m - 1 \notin left
  BY <1>1
<1> QED BY <1>1, <1>2

-----------------------------------------------------------------------------
(***************************************************************************)
(* The types of nodes.                                                     *)
(***************************************************************************)

(* One line of type_precision: the type of n, from those of its parts.     *)
PrecisionRule(t, e, n) ==
  CASE t[n].kind = "var"    -> Variables[t[n].op]
    [] t[n].kind = "binary" -> resolve_type(e[t[n].parts[1]], e[t[n].parts[2]])
    [] t[n].kind = "unary"  -> e[t[n].parts[1]]
    [] t[n].kind = "call"   -> Functions[t[n].op].retType
    [] t[n].kind = "read"   -> Builtin("UINT32")
    [] t[n].kind = "field"  -> Fields[e[t[n].parts[1]].name][t[n].op]
    [] OTHER                -> t[n].precision

Precisions(t) == CHOOSE e : e = [n \in DOMAIN t |-> PrecisionRule(t, e, n)]

LEMMA PrecisionIsRule ==
  ASSUME NEW t, NEW n
  PROVE  type_precision(t, n) = Precisions(t)[n]
BY DEF type_precision, Precisions, PrecisionRule

(* A node that is part of another is an operand, allocated before it, or a *)
(* promotion the analyser put there later.                                 *)
Below(t, p, n) ==
  /\ p \in DOMAIN t
  /\ p < n \/ (t[p].kind = "promotion" /\ t[n].kind # "promotion")

OpNames ==
  {"", "4", "8", "zero"} \cup DOMAIN Variables \cup DOMAIN EnumBacking
    \cup DOMAIN Functions \cup Unaries \cup Arithmetic \cup Compares
    \cup UNION {DOMAIN Fields[s] : s \in DOMAIN Fields}

NodeSet ==
  [kind : NodeKinds, op : OpNames, precision : Types, parts : Seq(Nat), slot : OpNames]

Literals == {"int", "float", "enum"}
Leaf   == {"int", "float", "var", "enum"}
Single == {"unary", "read", "field", "promotion"}

(* What the parser and the analyser make of nodes: the parts each kind has *)
(* and the names that are looked up.                                       *)
Formed(new) ==
  /\ new.kind \in Leaf     => new.parts = <<>>
  /\ new.kind \in Single   => Len(new.parts) = 1
  /\ new.kind = "binary"   => Len(new.parts) = 2
  /\ new.kind = "var"      => new.op \in DOMAIN Variables
  /\ new.kind = "call"     => new.op \in DOMAIN Functions
  /\ new.kind \in Literals => ~Throws(new.precision)

Shaped(t) ==
  /\ t \in Seq(NodeSet)
  /\ \A n \in DOMAIN t :
       /\ Formed(t[n])
       /\ \A i \in DOMAIN t[n].parts : Below(t, t[n].parts[i], n)

(* The type of a node needs that of its parts, unless it is a promotion:   *)
(* these parts have smaller numbers or are promotions.                     *)
LEMMA PartsBelow ==
  ASSUME NEW t, Shaped(t), NEW n \in DOMAIN t
  PROVE  /\ Len(t) \in Nat /\ DOMAIN t = 1..Len(t) /\ t[n] \in NodeSet
         /\ t[n].kind \in {"unary", "read", "field", "promotion", "binary"}
              => Below(t, t[n].parts[1], n)
         /\ t[n].kind = "binary" => Below(t, t[n].parts[2], n)
<1>1. t \in Seq(NodeSet) BY DEF Shaped
<1>2. Len(t) \in Nat /\ DOMAIN t = 1..Len(t) /\ t[n] \in NodeSet
  BY <1>1, LenProperties, ElementOfSeq
<1>3. t[n].parts \in Seq(Nat) BY <1>2 DEF NodeSet
<1>4. DOMAIN t[n].parts = 1..Len(t[n].parts)
  BY <1>3, LenProperties
<1>5. \A i \in DOMAIN t[n].parts : Below(t, t[n].parts[i], n)
  BY DEF Shaped
<1>6. ASSUME t[n].kind \in Single PROVE Below(t, t[n].parts[1], n)
  <2>1. Len(t[n].parts) = 1 BY <1>6 DEF Shaped, Formed
  <2> QED BY <1>4, <1>5, <2>1
<1>7. ASSUME t[n].kind = "binary"
      PROVE  Below(t, t[n].parts[1], n) /\ Below(t, t[n].parts[2], n)
  <2>1. Len(t[n].parts) = 2 BY <1>7 DEF Shaped, Formed
  <2> QED BY <1>4, <1>5, <2>1
<1> QED BY <1>2, <1>6, <1>7 DEF Single

(* Where two assignments of types agree on what is below n, the rule gives *)
(* n the same type.                                                        *)
LEMMA RuleAgrees ==
  ASSUME NEW t, Shaped(t), NEW n \in DOMAIN t, NEW d, NEW e,
         \A p \in DOMAIN t : t[n].kind # "promotion" /\ Below(t, p, n) => d[p] = e[p]
  PROVE  PrecisionRule(t, d, n) = PrecisionRule(t, e, n)
<1>1. CASE t[n].kind = "binary"
  <2>1. d[t[n].parts[1]] = e[t[n].parts[1]] /\ d[t[n].parts[2]] = e[t[n].parts[2]]
    BY <1>1, PartsBelow DEF Below
  <2> QED BY <1>1, <2>1 DEF PrecisionRule
<1>2. CASE t[n].kind \in {"unary", "field"}
  <2>1. d[t[n].parts[1]] = e[t[n].parts[1]]
    BY <1>2, PartsBelow DEF Below
  <2> QED BY <1>2, <2>1 DEF PrecisionRule
<1>3. CASE t[n].kind \notin {"binary", "unary", "field"}
  BY <1>3 DEF PrecisionRule
<1> QED BY <1>1, <1>2, <1>3

(* type_precision follows the rule at every node.                          *)
LEMMA PrecisionsSolve ==
  ASSUME NEW t, Shaped(t)
  PROVE  \A n \in DOMAIN t : Precisions(t)[n] = PrecisionRule(t, Precisions(t), n)
<1> DEFINE N == Len(t)
           Solves(e, m) == /\ e = [n \in DOMAIN t |-> e[n]]
                           /\ \A n \in 1..m : e[n] = PrecisionRule(t, e, n)
                           /\ \A n \in DOMAIN t :
                                t[n].kind = "promotion" => e[n] = t[n].precision
           S == {m \in 0..N : \E e : Solves(e, m)}
<1>1. N \in Nat /\ DOMAIN t = 1..N
  BY LenProperties DEF Shaped
<1> HIDE DEF N
<1>2. 0 \in S
  <2> DEFINE e == [n \in DOMAIN t |-> t[n].precision]
  <2>1. Solves(e, 0) BY <1>1
  <2>2. \E f : Solves(f, 0) BY <2>1
  <2>3. 0 \in 0..N BY <1>1
  <2> HIDE DEF Solves
  <2> QED BY <2>2, <2>3
<1>3. ASSUME NEW k \in 1..N, k - 1 \in S PROVE k \in S
  <2>1. PICK d : Solves(d, k - 1) BY <1>3
  <2> DEFINE e == [n \in DOMAIN t |-> IF n = k THEN PrecisionRule(t, d, k) ELSE d[n]]
  <2>2. k \in DOMAIN t BY <1>1
  <2>3. \A n \in DOMAIN t : t[n].kind = "promotion" => e[n] = t[n].precision
    <3>1. t[k].kind = "promotion" => PrecisionRule(t, d, k) = t[k].precision
      BY DEF PrecisionRule
    <3> QED BY <2>1, <3>1
  <2>4. ASSUME NEW n \in 1..k PROVE e[n] = PrecisionRule(t, e, n)
    <3>1. n \in DOMAIN t BY <1>1
    <3>2. ASSUME NEW p \in DOMAIN t, t[n].kind # "promotion", Below(t, p, n)
          PROVE  d[p] = e[p]
      <4>1. CASE p # k BY <4>1
      <4>2. CASE p = k
        <5>1. t[k].kind = "promotion"
          <6>1. ~(k < n) BY <1>1
          <6> QED BY <3>2, <4>2, <6>1 DEF Below
        <5> QED BY <2>1, <2>2, <2>3, <4>2, <5>1
      <4> QED BY <4>1, <4>2
    <3>3. PrecisionRule(t, d, n) = PrecisionRule(t, e, n)
      <4> HIDE DEF e
      <4> QED BY <3>1, <3>2, RuleAgrees
    <3>4. e[n] = PrecisionRule(t, d, n)
      <4>1. CASE n = k BY <2>2, <4>1
      <4>2. CASE n # k
        <5>1. n \in 1..(k-1) BY <4>2
        <5> QED BY <2>1, <3>1, <4>2, <5>1
      <4> QED BY <4>1, <4>2
    <3> QED BY <3>3, <3>4
  <2>5. Solves(e, k) BY <2>3, <2>4
  <2> HIDE DEF e
  <2> QED BY <2>5, <1>1
<1>4. N \in S
  <2> HIDE DEF S
  <2>1. N \in 0..N BY <1>1
  <2> QED BY <1>1, <1>2, <1>3, <2>1, UpTo
<1>5. PICK e : Solves(e, N) BY <1>4
<1>6. e = [n \in DOMAIN t |-> PrecisionRule(t, e, n)]
  <2>1. \A n \in DOMAIN t : e[n] = PrecisionRule(t, e, n) BY <1>1, <1>5
  <2> QED BY <1>5, <2>1
<1>7. Precisions(t) = [n \in DOMAIN t |-> PrecisionRule(t, Precisions(t), n)]
  BY <1>6 DEF Precisions
<1> QED BY <1>7

(* The types are closed under what the analyser makes of them.             *)
LEMMA TypesAre ==
  /\ \A k \in Kinds \ {"STRUCT"} : Builtin(k) \in Types
  /\ \A v \in DOMAIN Variables : Variables[v] \in Types
  /\ \A s \in DOMAIN Fields : \A f \in DOMAIN Fields[s] : Fields[s][f] \in Types
  /\ \A f \in DOMAIN Functions : Functions[f].retType \in Types
  /\ \A t \in Types : t.kind \in Kinds /\ (t.kind = "STRUCT" => t.name \in DOMAIN Fields)
<1>1. ASSUME NEW k \in Kinds \ {"STRUCT"} PROVE Builtin(k) \in Types
  <2> DEFINE types == {Builtin(l) : l \in Kinds \ {"STRUCT"}}
  <2>1. Builtin(k) \in types OBVIOUS
  <2>2. types \subseteq Types BY Zenon DEF Types
  <2> QED BY <2>1, <2>2
<1>2. ASSUME NEW v \in DOMAIN Variables PROVE Variables[v] \in Types
  <2> DEFINE types == {Variables[w] : w \in DOMAIN Variables}
  <2>1. Variables[v] \in types OBVIOUS
  <2>2. types \subseteq Types BY Zenon DEF Types
  <2> QED BY <2>1, <2>2
<1>3. ASSUME NEW s \in DOMAIN Fields, NEW f \in DOMAIN Fields[s]
      PROVE  Fields[s][f] \in Types
  <2> DEFINE types(struct) == {Fields[struct][g] : g \in DOMAIN Fields[struct]}
  <2>1. Fields[s][f] \in types(s) OBVIOUS
  <2>2. types(s) \in {types(struct) : struct \in DOMAIN Fields} OBVIOUS
  <2>3. types(s) \subseteq Types BY <2>2, Zenon DEF Types
  <2> QED BY <2>1, <2>3
<1>4. ASSUME NEW f \in DOMAIN Functions PROVE Functions[f].retType \in Types
  <2> DEFINE types == {Functions[g].retType : g \in DOMAIN Functions}
  <2>1. Functions[f].retType \in types OBVIOUS
  <2>2. types \subseteq Types BY Zenon DEF Types
  <2> QED BY <2>1, <2>2
<1>5. \A t \in Types : t.kind \in Kinds /\ (t.kind = "STRUCT" => t.name \in DOMAIN Fields)
  BY ExpressionsAssumption
<1> QED BY <1>1, <1>2, <1>3, <1>4, <1>5

LEMMA ResolveTyped ==
  ASSUME NEW a \in Types, NEW b \in Types
  PROVE  resolve_type(a, b) \in Types
<1> DEFINE hits == {i \in DOMAIN Ladder : Ladder[i] \in {a.kind, b.kind}}
           first == CHOOSE i \in hits : \A j \in hits : i <= j
<1>1. CASE a.kind = b.kind BY <1>1 DEF resolve_type
<1>2. CASE a.kind # b.kind /\ hits = {}
  <2>1. Builtin("INT32") \in Types BY TypesAre DEF Kinds
  <2> QED BY <1>2, <2>1 DEF resolve_type
<1>3. CASE a.kind # b.kind /\ hits # {}
  <2>1. resolve_type(a, b) = Builtin(Ladder[first])
    BY <1>3 DEF resolve_type
  <2>2. hits \in SUBSET Nat /\ hits \subseteq DOMAIN Ladder
    BY DEF Ladder
  <2> HIDE DEF hits
  <2>3. first \in hits BY <1>3, <2>2, SmallestNumber
  <2> HIDE DEF first
  <2>4. \A i \in DOMAIN Ladder : Ladder[i] \in Kinds \ {"STRUCT"}
    BY DEF Ladder, Kinds
  <2>5. Ladder[first] \in Kinds \ {"STRUCT"} BY <2>2, <2>3, <2>4
  <2> QED BY <2>1, <2>5, TypesAre
<1> QED BY <1>1, <1>2, <1>3

LEMMA PromoteTyped ==
  ASSUME NEW a \in Types, NEW b \in Types
  PROVE  tryPromote(a, b, EnumBacking) \in Types
BY DEF tryPromote

(* A member is one of the struct its base is.                              *)
Chain == {"var", "call", "field"}

Members(t) ==
  \A n \in DOMAIN t :
    t[n].kind = "field" =>
      LET base == t[n].parts[1]
      IN  /\ t[base].kind \in Chain
          /\ Precisions(t)[base].kind = "STRUCT"
          /\ t[n].op \in DOMAIN Fields[Precisions(t)[base].name]

(* type_precision gives a type.                                            *)
LEMMA PrecisionTyped ==
  ASSUME NEW t, Shaped(t), Members(t)
  PROVE  \A n \in DOMAIN t : Precisions(t)[n] \in Types
<1> DEFINE N == Len(t)  e == Precisions(t)
           S == {m \in 0..N : /\ \A n \in 1..m : e[n] \in Types
                              /\ \A n \in 1..N : t[n].kind = "promotion" => e[n] \in Types}
<1>1. N \in Nat /\ DOMAIN t = 1..N
  BY LenProperties DEF Shaped
<1>2. \A n \in DOMAIN t : e[n] = PrecisionRule(t, e, n)
  BY PrecisionsSolve
<1>3. \A n \in DOMAIN t : t[n] \in NodeSet
  BY PartsBelow
<1> HIDE DEF N, e
<1>4. 0 \in S
  <2>1. ASSUME NEW n \in 1..N, t[n].kind = "promotion" PROVE e[n] \in Types
    <3>1. n \in DOMAIN t BY <1>1
    <3>2. e[n] = t[n].precision BY <1>2, <2>1, <3>1 DEF PrecisionRule
    <3> QED BY <1>3, <3>1, <3>2 DEF NodeSet
  <2>2. 0 \in 0..N /\ 1..0 = {} BY <1>1
  <2> QED BY <2>1, <2>2
<1>5. ASSUME NEW k \in 1..N, k - 1 \in S PROVE k \in S
  <2>1. k \in DOMAIN t /\ k \in 0..N BY <1>1
  <2>2. ASSUME NEW p, t[k].kind # "promotion", Below(t, p, k) PROVE e[p] \in Types
    <3>1. p \in 1..N BY <1>1, <2>2 DEF Below
    <3>2. CASE t[p].kind = "promotion" BY <1>5, <3>1, <3>2
    <3>3. CASE t[p].kind # "promotion"
      <4>1. p \in 1..(k-1) BY <2>2, <3>1, <3>3 DEF Below
      <4> QED BY <1>5, <4>1
    <3> QED BY <3>2, <3>3
  <2>3. e[k] \in Types
    <3>1. e[k] = PrecisionRule(t, e, k) BY <1>2, <2>1
    <3>2. CASE t[k].kind = "var"
      BY <2>1, <3>1, <3>2, TypesAre DEF PrecisionRule, Shaped, Formed
    <3>3. CASE t[k].kind = "binary"
      BY <2>1, <2>2, <3>1, <3>3, PartsBelow, ResolveTyped DEF PrecisionRule
    <3>4. CASE t[k].kind = "unary"
      BY <2>1, <2>2, <3>1, <3>4, PartsBelow DEF PrecisionRule
    <3>5. CASE t[k].kind = "call"
      BY <2>1, <3>1, <3>5, TypesAre DEF PrecisionRule, Shaped, Formed
    <3>6. CASE t[k].kind = "read"
      <4>1. Builtin("UINT32") \in Types BY TypesAre DEF Kinds
      <4> QED BY <3>1, <3>6, <4>1 DEF PrecisionRule
    <3>7. CASE t[k].kind = "field"
      <4> DEFINE base == t[k].parts[1]
      <4>1. /\ e[base].kind = "STRUCT"
            /\ t[k].op \in DOMAIN Fields[e[base].name]
        BY <2>1, <3>7 DEF Members, e
      <4>2. e[base] \in Types BY <2>1, <2>2, <3>7, PartsBelow
      <4>3. e[k] = Fields[e[base].name][t[k].op] BY <3>1, <3>7 DEF PrecisionRule
      <4> HIDE DEF base
      <4> QED BY <4>1, <4>2, <4>3, TypesAre
    <3>8. CASE t[k].kind \notin {"var", "binary", "unary", "call", "read", "field"}
      <4>1. e[k] = t[k].precision BY <3>1, <3>8 DEF PrecisionRule
      <4> QED BY <1>3, <2>1, <4>1 DEF NodeSet
    <3> QED BY <3>2, <3>3, <3>4, <3>5, <3>6, <3>7, <3>8
  <2>4. \A n \in 1..k : n = k \/ n \in 1..(k-1) BY <1>1
  <2> QED BY <1>5, <2>1, <2>3, <2>4
<1>6. N \in S
  <2> HIDE DEF S
  <2>1. N \in 0..N BY <1>1
  <2> QED BY <1>1, <1>4, <1>5, <2>1, UpTo
<1> QED BY <1>1, <1>6 DEF e

(* The type of a variable, of a call and of a member of one stays what it  *)
(* is while the nodes of their chain do.                                   *)
LEMMA ChainStable ==
  ASSUME NEW t, Shaped(t), Members(t), NEW u, Shaped(u),
         DOMAIN t \subseteq DOMAIN u,
         \A n \in DOMAIN t : /\ u[n].kind = t[n].kind /\ u[n].op = t[n].op
                             /\ t[n].kind = "field" => u[n].parts = t[n].parts
  PROVE  \A n \in DOMAIN t : t[n].kind \in Chain => Precisions(u)[n] = Precisions(t)[n]
<1> DEFINE N == Len(t)  d == Precisions(t)  e == Precisions(u)
           S == {m \in 0..N : \A n \in 1..m : t[n].kind \in Chain => e[n] = d[n]}
<1>1. N \in Nat /\ DOMAIN t = 1..N
  BY LenProperties DEF Shaped
<1>2. /\ \A n \in DOMAIN t : d[n] = PrecisionRule(t, d, n)
      /\ \A n \in DOMAIN u : e[n] = PrecisionRule(u, e, n)
  BY PrecisionsSolve
<1> HIDE DEF N, d, e
<1>3. 0 \in S BY <1>1
<1>4. ASSUME NEW k \in 1..N, k - 1 \in S PROVE k \in S
  <2>1. k \in DOMAIN t /\ k \in DOMAIN u /\ k \in 0..N BY <1>1
  <2>2. d[k] = PrecisionRule(t, d, k) /\ e[k] = PrecisionRule(u, e, k)
    BY <1>2, <2>1
  <2>3. ASSUME t[k].kind = "field" PROVE e[k] = d[k]
    <3> DEFINE p == t[k].parts[1]
    <3>1. t[p].kind \in Chain BY <2>1, <2>3 DEF Members
    <3>2. Below(t, p, k) BY <2>1, <2>3, PartsBelow
    <3>3. p \in 1..(k-1) BY <1>1, <3>1, <3>2 DEF Below, Chain
    <3>4. e[p] = d[p] BY <1>4, <3>1, <3>3
    <3>5. d[k] = Fields[d[p].name][t[k].op]
      BY <2>2, <2>3 DEF PrecisionRule
    <3>6. u[k].kind = "field" /\ u[k].op = t[k].op /\ u[k].parts = t[k].parts
      BY <2>1, <2>3
    <3>7. e[k] = Fields[e[p].name][t[k].op]
      BY <2>2, <3>6 DEF PrecisionRule
    <3> QED BY ONLY <3>4, <3>5, <3>7
  <2>4. ASSUME t[k].kind \in {"var", "call"} PROVE e[k] = d[k]
    <3>1. u[k].kind = t[k].kind /\ u[k].op = t[k].op
      BY <2>1
    <3> QED BY <2>2, <2>4, <3>1 DEF PrecisionRule
  <2>5. \A n \in 1..k : n = k \/ n \in 1..(k-1) BY <1>1
  <2>6. t[k].kind \in Chain => e[k] = d[k] BY <2>3, <2>4 DEF Chain
  <2>7. \A n \in 1..(k-1) : t[n].kind \in Chain => e[n] = d[n] BY <1>4
  <2> QED BY <2>1, <2>5, <2>6, <2>7
<1>5. N \in S
  <2> HIDE DEF S
  <2>1. N \in 0..N BY <1>1
  <2> QED BY <1>1, <1>3, <1>4, <2>1, UpTo
<1> QED BY <1>1, <1>5 DEF d, e

-----------------------------------------------------------------------------
(***************************************************************************)
(* The arena grows.                                                        *)
(***************************************************************************)
Tree(t) == Shaped(t) /\ Members(t)

(* The member a node is one of.                                            *)
MemberOf(t, new) ==
  new.kind = "field" =>
    LET base == new.parts[1]
    IN  /\ t[base].kind \in Chain
        /\ Precisions(t)[base].kind = "STRUCT"
        /\ new.op \in DOMAIN Fields[Precisions(t)[base].name]

LEMMA TreeGrows ==
  ASSUME NEW t, Tree(t), NEW u, Shaped(u), DOMAIN t \subseteq DOMAIN u,
         \A n \in DOMAIN t : /\ u[n].kind = t[n].kind /\ u[n].op = t[n].op
                             /\ t[n].kind = "field" => u[n].parts = t[n].parts,
         \A n \in DOMAIN u \ DOMAIN t : u[n].kind = "field" =>
            u[n].parts[1] \in DOMAIN t /\ MemberOf(t, u[n])
  PROVE  Tree(u)
<1>1. Shaped(t) /\ Members(t) BY DEF Tree
<1>2. \A n \in DOMAIN t : t[n].kind \in Chain => Precisions(u)[n] = Precisions(t)[n]
  BY <1>1, ChainStable
<1>3. ASSUME NEW n \in DOMAIN u, u[n].kind = "field"
      PROVE  LET base == u[n].parts[1]
             IN  /\ u[base].kind \in Chain
                 /\ Precisions(u)[base].kind = "STRUCT"
                 /\ u[n].op \in DOMAIN Fields[Precisions(u)[base].name]
  <2> DEFINE base == u[n].parts[1]
  <2>1. /\ base \in DOMAIN t /\ t[base].kind \in Chain
        /\ Precisions(t)[base].kind = "STRUCT"
        /\ u[n].op \in DOMAIN Fields[Precisions(t)[base].name]
    <3>1. CASE n \in DOMAIN t
      <4>1. t[n].kind = "field" /\ u[n].op = t[n].op /\ base = t[n].parts[1]
        BY <1>3, <3>1
      <4>2. base \in DOMAIN t
        BY <1>1, <3>1, <4>1, PartsBelow DEF Below
      <4> QED BY <1>1, <3>1, <4>1, <4>2 DEF Members
    <3>2. CASE n \notin DOMAIN t
      BY <1>3, <3>2 DEF MemberOf
    <3> QED BY <3>1, <3>2
  <2>2. Precisions(u)[base] = Precisions(t)[base] /\ u[base].kind = t[base].kind
    BY <1>2, <2>1
  <2> QED BY <2>1, <2>2
<1> QED BY <1>3 DEF Tree, Members

(* The parser adds a node for what it has parsed (Parsed).                 *)
LEMMA ParserAdds ==
  ASSUME NEW t, Tree(t), NEW new \in NodeSet, Formed(new),
         \A i \in DOMAIN new.parts : new.parts[i] \in DOMAIN t,
         MemberOf(t, new)
  PROVE  /\ Tree(Append(t, new))
         /\ Len(Append(t, new)) = Len(t) + 1
         /\ DOMAIN Append(t, new) = 1..(Len(t) + 1)
<1> DEFINE u == Append(t, new)  N == Len(t)
<1>1. Shaped(t) /\ Members(t) /\ t \in Seq(NodeSet) BY DEF Tree, Shaped
<1>2. N \in Nat /\ DOMAIN t = 1..N BY <1>1, LenProperties
<1>3. /\ u \in Seq(NodeSet) /\ Len(u) = N + 1 /\ DOMAIN u = 1..(N+1)
      /\ u[N + 1] = new /\ \A n \in 1..N : u[n] = t[n]
  BY <1>1, <1>2, AppendProperties, LenProperties
<1> HIDE DEF u, N
<1>4. Shaped(u)
  <2>1. ASSUME NEW n \in DOMAIN u
        PROVE  Formed(u[n]) /\ \A i \in DOMAIN u[n].parts : Below(u, u[n].parts[i], n)
    <3>1. CASE n \in 1..N
      <4>1. u[n] = t[n] BY <1>3, <3>1
      <4>2. Formed(t[n]) /\ \A i \in DOMAIN t[n].parts : Below(t, t[n].parts[i], n)
        BY <1>1, <1>2, <3>1 DEF Shaped
      <4>3. ASSUME NEW p, Below(t, p, n) PROVE Below(u, p, n)
        <5>1. p \in 1..N BY <1>2, <4>3 DEF Below
        <5>2. u[p] = t[p] /\ p \in DOMAIN u BY <1>2, <1>3, <5>1
        <5> QED BY <4>1, <4>3, <5>2 DEF Below
      <4> QED BY <4>1, <4>2, <4>3
    <3>2. CASE n = N + 1
      <4>1. u[n] = new BY <1>3, <3>2
      <4>2. ASSUME NEW p \in DOMAIN t PROVE Below(u, p, n)
        BY <1>2, <1>3, <3>2 DEF Below
      <4> QED BY <4>1, <4>2
    <3>3. n \in 1..N \/ n = N + 1 BY <1>2, <1>3
    <3> QED BY <3>1, <3>2, <3>3
  <2> QED BY <1>3, <2>1 DEF Shaped
<1>5. ASSUME NEW n \in DOMAIN u \ DOMAIN t, u[n].kind = "field"
      PROVE  u[n].parts[1] \in DOMAIN t /\ MemberOf(t, u[n])
  <2>1. n = N + 1 BY <1>2, <1>3
  <2>2. u[n] = new BY <1>3, <2>1
  <2>3. new.parts \in Seq(Nat) /\ Len(new.parts) = 1
    BY <1>5, <2>2 DEF NodeSet, Formed, Single
  <2>4. 1 \in DOMAIN new.parts BY <2>3, LenProperties
  <2> QED BY <2>2, <2>4
<1>6. DOMAIN t \subseteq DOMAIN u /\ \A n \in DOMAIN t : u[n] = t[n]
  BY <1>2, <1>3
<1>7. Tree(u) BY <1>4, <1>5, <1>6, TreeGrows
<1> QED BY <1>3, <1>7 DEF u, N

LEMMA PromotionIs ==
  ASSUME NEW to, NEW p
  PROVE  /\ Promotion(to, p).kind = "promotion"
         /\ Promotion(to, p).op = ""
         /\ Promotion(to, p).precision = to
         /\ Promotion(to, p).parts = <<p>>
         /\ Formed(Promotion(to, p))
<1>1. Promotion(to, p).parts = <<p>> /\ Promotion(to, p).kind = "promotion"
  BY DEF Promotion, Node
<1>2. Promotion(to, p).op = "" /\ Promotion(to, p).precision = to
  BY DEF Promotion, Node
<1> QED BY <1>1, <1>2 DEF Formed, Leaf, Single, Literals

PartsOf(n) == {n.parts[i] : i \in DOMAIN n.parts}

(* The analyser writes into node k and adds promotions: it exchanges parts *)
(* of the node for those.                                                  *)
Rewritten(t, u, k) ==
  /\ u \in Seq(NodeSet) /\ Len(t) <= Len(u) /\ k \in DOMAIN t
  /\ \A n \in DOMAIN t : n # k => u[n] = t[n]
  /\ u[k].kind = t[k].kind /\ u[k].op = t[k].op
  /\ t[k].kind # "promotion"
  /\ t[k].kind \in Literals => u[k].precision = t[k].precision
  /\ t[k].kind \notin {"unary", "binary", "call"} => u[k].parts = t[k].parts
  /\ DOMAIN u[k].parts = DOMAIN t[k].parts
  /\ \A i \in DOMAIN t[k].parts :
       \/ u[k].parts[i] = t[k].parts[i]
       \/ /\ u[k].parts[i] \in (Len(t)+1)..Len(u)
          /\ u[u[k].parts[i]].parts = <<t[k].parts[i]>>
  /\ \A n \in (Len(t)+1)..Len(u) :
       \E to \in Types, p \in PartsOf(t[k]) : u[n] = Promotion(to, p)

LEMMA AnalyserRewrites ==
  ASSUME NEW t, Tree(t), NEW u, NEW k, Rewritten(t, u, k)
  PROVE  Tree(u)
<1> DEFINE N == Len(t)  M == Len(u)
<1>1. Shaped(t) /\ Members(t) /\ t \in Seq(NodeSet) BY DEF Tree, Shaped
<1>2. /\ N \in Nat /\ DOMAIN t = 1..N /\ M \in Nat /\ DOMAIN u = 1..M /\ N <= M
      /\ k \in 1..N
  BY <1>1, LenProperties DEF Rewritten
<1>3. \A n \in 1..N : n # k => u[n] = t[n]
  BY <1>2 DEF Rewritten
<1>4. \A n \in 1..N : u[n].kind = t[n].kind /\ u[n].op = t[n].op
  BY <1>2 DEF Rewritten
<1>5. \A n \in 1..N : t[n].kind = "field" => u[n].parts = t[n].parts
  BY <1>2 DEF Rewritten
<1>6. ASSUME NEW n \in (N+1)..M
      PROVE  \E to \in Types, p \in 1..N : u[n] = Promotion(to, p)
  <2>1. PICK to \in Types, p \in PartsOf(t[k]) : u[n] = Promotion(to, p)
    BY <1>2, <1>6 DEF Rewritten
  <2>2. p \in DOMAIN t BY <1>1, <1>2 DEF Shaped, Below, PartsOf
  <2> QED BY <1>2, <2>1, <2>2
<1>7. ASSUME NEW n \in (N+1)..M PROVE u[n].kind = "promotion"
  <2>1. PICK to \in Types, p \in 1..N : u[n] = Promotion(to, p) BY <1>6
  <2>2. Promotion(to, p).kind = "promotion" BY DEF Promotion, Node
  <2> QED BY ONLY <2>1, <2>2
<1>8. u \in Seq(NodeSet) /\ \A n \in DOMAIN u : u[n] \in NodeSet
  BY ElementOfSeq DEF Rewritten
<1> HIDE DEF N, M
<1>9. ASSUME NEW n \in 1..N, NEW p, Below(t, p, n) PROVE Below(u, p, n)
  <2>1. p \in 1..N /\ p \in 1..M BY <1>2, <1>9 DEF Below
  <2> QED BY <1>2, <1>4, <1>9, <2>1 DEF Below
<1>10. ASSUME NEW n \in 1..M
       PROVE  Formed(u[n]) /\ \A i \in DOMAIN u[n].parts : Below(u, u[n].parts[i], n)
  <2>1. CASE n \in 1..N /\ n # k
    <3>1. u[n] = t[n] BY <1>3, <2>1
    <3>2. Formed(t[n]) /\ \A i \in DOMAIN t[n].parts : Below(t, t[n].parts[i], n)
      BY <1>1, <1>2, <2>1 DEF Shaped
    <3> QED BY <1>9, <2>1, <3>1, <3>2
  <2>2. CASE n = k
    <3>1. Formed(t[k]) /\ \A i \in DOMAIN t[k].parts : Below(t, t[k].parts[i], k)
      BY <1>1, <1>2 DEF Shaped
    <3>2. u[k].kind = t[k].kind /\ u[k].op = t[k].op /\ t[k].kind # "promotion"
          /\ DOMAIN u[k].parts = DOMAIN t[k].parts
      BY DEF Rewritten
    <3>3. Len(u[k].parts) = Len(t[k].parts)
      <4>1. u[k].parts \in Seq(Nat) /\ t[k].parts \in Seq(Nat)
        <5>1. k \in DOMAIN u /\ k \in DOMAIN t BY <1>2
        <5>2. u[k] \in NodeSet /\ t[k] \in NodeSet BY <1>1, <1>8, <5>1, PartsBelow
        <5> QED BY <5>2 DEF NodeSet
      <4> QED BY <3>2, <4>1
    <3>4. t[k].kind \in Leaf => u[k].parts = t[k].parts
      BY DEF Rewritten, Leaf
    <3>5. Formed(u[k])
      <4>1. t[k].kind \in Literals => u[k].precision = t[k].precision
        BY DEF Rewritten
      <4> QED BY <3>1, <3>2, <3>3, <3>4, <4>1 DEF Formed
    <3>6. ASSUME NEW i \in DOMAIN u[k].parts PROVE Below(u, u[k].parts[i], k)
      <4>1. i \in DOMAIN t[k].parts BY <3>2
      <4>2. u[k].parts[i] = t[k].parts[i] \/ u[k].parts[i] \in (N+1)..M
        BY <4>1 DEF Rewritten, N, M
      <4>3. CASE u[k].parts[i] = t[k].parts[i]
        BY <1>2, <1>9, <3>1, <4>1, <4>3
      <4>4. CASE u[k].parts[i] \in (N+1)..M
        <5>1. u[k].parts[i] \in DOMAIN u BY <1>2, <4>4
        <5> QED BY <1>7, <3>2, <4>4, <5>1 DEF Below
      <4> QED BY <4>2, <4>3, <4>4
    <3> QED BY <2>2, <3>5, <3>6
  <2>3. CASE n \in (N+1)..M
    <3>1. PICK to \in Types, p \in 1..N : u[n] = Promotion(to, p) BY <1>6, <2>3
    <3>2. Formed(u[n])
      <4>1. Formed(Promotion(to, p)) BY PromotionIs
      <4> QED BY ONLY <3>1, <4>1
    <3>3. Below(u, p, n) BY <1>2, <2>3 DEF Below
    <3>4. u[n].parts = <<p>>
      <4>1. Promotion(to, p).parts = <<p>> BY PromotionIs
      <4> QED BY ONLY <3>1, <4>1
    <3> QED BY <3>2, <3>3, <3>4
  <2> QED BY <1>2, <2>1, <2>2, <2>3
<1>11. Shaped(u) BY <1>2, <1>8, <1>10 DEF Shaped
<1>12. \A n \in DOMAIN u \ DOMAIN t : u[n].kind # "field"
  <2>1. \A n \in DOMAIN u \ DOMAIN t : n \in (N+1)..M BY <1>2
  <2> QED BY <1>7, <2>1
<1>13. DOMAIN t \subseteq DOMAIN u BY <1>2
<1> QED BY <1>2, <1>4, <1>5, <1>11, <1>12, <1>13, TreeGrows

-----------------------------------------------------------------------------
(***************************************************************************)
(* The invariant.                                                          *)
(***************************************************************************)

(* The nodes, and where the parser and the analyser are in them.           *)
NodesInv ==
  /\ Tree(nodes)
  /\ operands \in Seq(1..MaxNodes)
  /\ \A i \in DOMAIN operands : operands[i] \in DOMAIN nodes
  /\ target \in DOMAIN Variables
  /\ phase \in {"parse", "analyse", "translate", "refused", "done", "threw"}
  /\ next \in 1..MaxNodes+1
  /\ errorNumber \in Nat
  /\ phase = "parse" => Len(nodes) <= MaxNodes /\ root = 0
  /\ phase # "parse" => Len(operands) = 1 /\ root \in DOMAIN nodes
  /\ phase \in {"translate", "done"} => ~Throws(Variables[target])

(* Values, instructions, and the calls in progress.                        *)
Values ==
  [class : {"TEMP", "VAR", "CONST"}, type : IRTypes, id : OpNames, temp : Nat]

Calls == [node : Nat, vals : Seq(Values)]

IROps == {"ADD", "SUB", "MUL", "DIV", "AND", "OR", "XOR", "NOT", "CMP", "CALL", "CAST",
          "LOAD", "STORE"}

Instructions == [node : Nat, op : IROps, dst : Values, args : Seq(Values)]

CallsInv ==
  /\ pending \in Seq(Calls)
  /\ \A k \in DOMAIN pending :
       /\ pending[k].node \in DOMAIN nodes
       /\ Len(pending[k].vals) <= Len(nodes[pending[k].node].parts)
       /\ k < Len(pending) => Len(pending[k].vals) < Len(nodes[pending[k].node].parts)
  /\ phase \in {"parse", "analyse", "refused"} => pending = <<>> /\ code = <<>>

(* Instruction j writes temporary j - 1, and reads only what an earlier    *)
(* one has written.                                                        *)
Numbered(c) ==
  \A j \in DOMAIN c : c[j].dst.class = "TEMP" /\ c[j].dst.temp = j - 1

ReadsWritten(c) ==
  \A i \in DOMAIN c : \A k \in DOMAIN c[i].args :
    c[i].args[k].class = "TEMP" => \E j \in 1..i-1 : c[j].dst = c[i].args[k]

HoldsWritten(c, p) ==
  \A i \in DOMAIN p : \A k \in DOMAIN p[i].vals :
    p[i].vals[k].class = "TEMP" => \E j \in DOMAIN c : c[j].dst = p[i].vals[k]

ReadBy(c, v, j) == j \in DOMAIN c /\ \E k \in DOMAIN c[j].args : c[j].args[k] = v
HeldAt(p, v, i, k) == i \in DOMAIN p /\ k \in DOMAIN p[i].vals /\ p[i].vals[k] = v

(* A result waits to be read in one place or has been read once.           *)
Waits(c, p, v) ==
  /\ \A j : ~ReadBy(c, v, j)
  /\ \E i, k : /\ HeldAt(p, v, i, k)
               /\ \A a, b : HeldAt(p, v, a, b) => a = i /\ b = k

WasRead(c, p, v) ==
  /\ \A i, k : ~HeldAt(p, v, i, k)
  /\ \E j : ReadBy(c, v, j) /\ \A l : ReadBy(c, v, l) => l = j

ResultsUsedOnce(c, p) == \A j \in DOMAIN c : Waits(c, p, c[j].dst) \/ WasRead(c, p, c[j].dst)

Evaluated(c, p) ==
  Numbered(c) /\ ReadsWritten(c) /\ HoldsWritten(c, p) /\ ResultsUsedOnce(c, p)

(* The last instruction stores the value; all that were computed for it    *)
(* have been read.                                                         *)
Stored(c) ==
  /\ Len(c) > 0 /\ c[Len(c)].dst.class = "VAR"
  /\ \A j \in 1..Len(c)-1 : c[j].dst.class = "TEMP" /\ c[j].dst.temp = j - 1
  /\ ReadsWritten(c)
  /\ \A j \in 1..Len(c)-1 : WasRead(c, <<>>, c[j].dst)

TempsInv ==
  /\ code \in Seq(Instructions)
  /\ tempCounter \in Nat
  /\ phase # "done" => tempCounter = Len(code) /\ Evaluated(code, pending)
  /\ phase = "done" => Stored(code)

IInv == NodesInv /\ CallsInv /\ TempsInv

-----------------------------------------------------------------------------
(***************************************************************************)
(* Results: where a value is held and where it is read.                    *)
(***************************************************************************)
LEMMA FrontIs ==
  ASSUME NEW S, NEW p \in Seq(S), p # <<>>
  PROVE  LET f == SubSeq(p, 1, Len(p) - 1)
         IN  /\ Len(p) \in Nat \ {0} /\ DOMAIN p = 1..Len(p)
             /\ f \in Seq(S) /\ Len(f) = Len(p) - 1 /\ DOMAIN f = 1..(Len(p) - 1)
             /\ \A i \in DOMAIN f : f[i] = p[i]
             /\ (f # <<>>) <=> (Len(p) > 1)
             /\ p[Len(p)] \in S
<1> DEFINE f == SubSeq(p, 1, Len(p) - 1)
<1>1. Len(p) \in Nat \ {0} /\ DOMAIN p = 1..Len(p)
  BY EmptySeq, LenProperties
<1>2. 1 \in 1..Len(p)+1 /\ Len(p) - 1 \in 0..Len(p) /\ (Len(p) - 1 - 1) + 1 = Len(p) - 1
  BY <1>1
<1>3. /\ f \in Seq(S) /\ Len(f) = Len(p) - 1
      /\ \A i \in 1..Len(f) : f[i] = p[i]
  BY <1>1
<1>4. DOMAIN f = 1..Len(f) BY <1>3, LenProperties
<1>5. (f # <<>>) <=> (Len(p) > 1)
  <2> HIDE DEF f
  <2>1. (f = <<>>) <=> (Len(f) = 0) BY <1>3, EmptySeq
  <2> QED BY <1>1, <1>3, <2>1
<1>6. p[Len(p)] \in S BY <1>1, ElementOfSeq
<1> HIDE DEF f
<1>7. /\ f \in Seq(S) /\ Len(f) = Len(p) - 1 /\ DOMAIN f = 1..(Len(p) - 1)
      /\ \A i \in DOMAIN f : f[i] = p[i]
  BY <1>3, <1>4
<1> QED BY <1>1, <1>5, <1>6, <1>7 DEF f

(* Between the end of a call and what is done with the value v it returns. *)
Returned(c, f, v) ==
  /\ Numbered(c) /\ ReadsWritten(c) /\ HoldsWritten(c, f)
  /\ \A j \in DOMAIN c : c[j].dst # v => Waits(c, f, c[j].dst) \/ WasRead(c, f, c[j].dst)
  /\ v.class = "TEMP" => /\ \E j \in DOMAIN c : c[j].dst = v
                         /\ \A l : ~ReadBy(c, v, l)
                         /\ \A i, k : ~HeldAt(f, v, i, k)

LEMMA HoldsIff ==
  ASSUME NEW c, NEW p
  PROVE  HoldsWritten(c, p) <=>
           \A v, i, k : HeldAt(p, v, i, k) /\ v.class = "TEMP" => \E j \in DOMAIN c : c[j].dst = v
<1>1. ASSUME HoldsWritten(c, p), NEW v, NEW i, NEW k, HeldAt(p, v, i, k), v.class = "TEMP"
      PROVE  \E j \in DOMAIN c : c[j].dst = v
  BY <1>1 DEF HoldsWritten, HeldAt
<1>2. ASSUME \A v, i, k : HeldAt(p, v, i, k) /\ v.class = "TEMP"
                            => \E j \in DOMAIN c : c[j].dst = v,
             NEW i \in DOMAIN p, NEW k \in DOMAIN p[i].vals, p[i].vals[k].class = "TEMP"
      PROVE  \E j \in DOMAIN c : c[j].dst = p[i].vals[k]
  <2>1. HeldAt(p, p[i].vals[k], i, k) BY DEF HeldAt
  <2> QED BY <1>2, <2>1
<1> QED BY <1>1, <1>2 DEF HoldsWritten

(* An operand is begun (TranslateOperand).                                 *)
LEMMA OperandBegun ==
  ASSUME NEW p \in Seq(Calls), NEW x \in Calls, x.vals = <<>>, NEW c, Evaluated(c, p)
  PROVE  Evaluated(c, Append(p, x))
<1> DEFINE q == Append(p, x)  n == Len(p)
<1>1. /\ n \in Nat /\ DOMAIN p = 1..n /\ DOMAIN q = 1..(n+1) /\ q[n+1] = x
      /\ \A i \in 1..n : q[i] = p[i]
  BY AppendProperties, LenProperties
<1>2. DOMAIN x.vals = {}
  BY EmptySeq
<1> HIDE DEF q, n
<1>3. ASSUME NEW v, NEW i, NEW k PROVE HeldAt(q, v, i, k) <=> HeldAt(p, v, i, k)
  <2>1. CASE i \in 1..n BY <1>1, <2>1 DEF HeldAt
  <2>2. CASE i = n + 1 BY <1>1, <1>2, <2>2 DEF HeldAt
  <2>3. CASE i \notin 1..(n+1) BY <1>1, <2>3 DEF HeldAt
  <2> QED BY <1>1, <2>1, <2>2, <2>3
<1>4. HoldsWritten(c, q)
  <2>1. HoldsWritten(c, p) BY DEF Evaluated
  <2> QED BY <1>3, <2>1, HoldsIff
<1>5. ASSUME NEW v PROVE /\ Waits(c, p, v) => Waits(c, q, v)
                         /\ WasRead(c, p, v) => WasRead(c, q, v)
  BY <1>3 DEF Waits, WasRead
<1>6. ResultsUsedOnce(c, q) BY <1>5 DEF ResultsUsedOnce, Evaluated
<1> QED BY <1>4, <1>6 DEF Evaluated, q

(* What is held below the call that ends.                                  *)
LEMMA HeldByCallers ==
  ASSUME NEW p \in Seq(Calls), p # <<>>, NEW v, NEW i, NEW k
  PROVE  HeldAt(SubSeq(p, 1, Len(p) - 1), v, i, k) <=> (HeldAt(p, v, i, k) /\ i # Len(p))
<1> DEFINE f == SubSeq(p, 1, Len(p) - 1)  n == Len(p)
<1>1. /\ n \in Nat \ {0} /\ DOMAIN p = 1..n /\ DOMAIN f = 1..(n-1)
      /\ \A j \in DOMAIN f : f[j] = p[j]
  BY FrontIs
<1> HIDE DEF f, n
<1>2. HeldAt(f, v, i, k) <=> (HeldAt(p, v, i, k) /\ i # n)
  <2>1. CASE i \in 1..(n-1) 
    <3>1. i \in DOMAIN f /\ i \in DOMAIN p /\ f[i] = p[i] /\ i # n BY <1>1, <2>1
    <3> QED BY <3>1 DEF HeldAt
  <2>2. CASE i \notin 1..(n-1)
    <3>1. i \notin DOMAIN f /\ (i \in DOMAIN p => i = n) BY <1>1, <2>2
    <3> QED BY <3>1 DEF HeldAt
  <2> QED BY <2>1, <2>2
<1> QED BY <1>2 DEF f, n

(* A literal or a variable is no temporary.                                *)
LEMMA LeafReturns ==
  ASSUME NEW c, NEW p \in Seq(Calls), p # <<>>, p[Len(p)].vals = <<>>, Evaluated(c, p),
         NEW v, v.class # "TEMP"
  PROVE  Returned(c, SubSeq(p, 1, Len(p) - 1), v)
<1> DEFINE f == SubSeq(p, 1, Len(p) - 1)
<1>1. \A w, i, k : HeldAt(f, w, i, k) <=> HeldAt(p, w, i, k)
  <2>1. ASSUME NEW w, NEW k PROVE ~HeldAt(p, w, Len(p), k)
    BY EmptySeq DEF HeldAt
  <2> QED BY <2>1, HeldByCallers
<1> HIDE DEF f
<1>2. HoldsWritten(c, f)
  <2>1. HoldsWritten(c, p) BY DEF Evaluated
  <2> QED BY <1>1, <2>1, HoldsIff
<1>3. ASSUME NEW w PROVE /\ Waits(c, p, w) => Waits(c, f, w)
                         /\ WasRead(c, p, w) => WasRead(c, f, w)
  BY <1>1 DEF Waits, WasRead
<1>4. Returned(c, f, v)
  BY <1>2, <1>3 DEF Returned, Evaluated, ResultsUsedOnce
<1> QED BY <1>4 DEF f

(* An instruction added at the end reads what its arguments are.           *)
LEMMA ReadByLast ==
  ASSUME NEW c \in Seq(Instructions), NEW inst \in Instructions
  PROVE  LET d == Append(c, inst)
         IN  /\ Len(c) \in Nat /\ DOMAIN c = 1..Len(c)
             /\ d \in Seq(Instructions) /\ Len(d) = Len(c) + 1 /\ DOMAIN d = 1..(Len(c) + 1)
             /\ d[Len(c) + 1] = inst /\ \A j \in 1..Len(c) : d[j] = c[j]
             /\ \A v, j : ReadBy(d, v, j) <=>
                  ReadBy(c, v, j) \/ (j = Len(c) + 1 /\ \E k \in DOMAIN inst.args : inst.args[k] = v)
<1> DEFINE d == Append(c, inst)  n == Len(c)
<1>1. /\ n \in Nat /\ DOMAIN c = 1..n
      /\ d \in Seq(Instructions) /\ Len(d) = n + 1 /\ DOMAIN d = 1..(n + 1)
      /\ d[n + 1] = inst /\ \A j \in 1..n : d[j] = c[j]
  BY AppendProperties, LenProperties
<1> HIDE DEF d, n
<1>2. ASSUME NEW v, NEW j
      PROVE  ReadBy(d, v, j) <=>
               ReadBy(c, v, j) \/ (j = n + 1 /\ \E k \in DOMAIN inst.args : inst.args[k] = v)
  <2>1. CASE j \in 1..n
    <3>1. j \in DOMAIN d /\ j \in DOMAIN c /\ d[j] = c[j] /\ j # n + 1 BY <1>1, <2>1
    <3> QED BY <3>1 DEF ReadBy
  <2>2. CASE j = n + 1
    <3>1. j \in DOMAIN d /\ j \notin DOMAIN c /\ d[j] = inst BY <1>1, <2>2
    <3> QED BY <2>2, <3>1 DEF ReadBy
  <2>3. CASE j \notin 1..(n+1)
    <3>1. j \notin DOMAIN d /\ j \notin DOMAIN c /\ j # n + 1 BY <1>1, <2>3
    <3> QED BY <3>1 DEF ReadBy
  <2>4. j \in 1..n \/ j = n + 1 \/ j \notin 1..(n+1) BY <1>1
  <2> QED BY <2>1, <2>2, <2>3, <2>4
<1> QED BY <1>1, <1>2 DEF d, n

LEMMA ReadsIff ==
  ASSUME NEW c
  PROVE  ReadsWritten(c) <=>
           \A v, i : ReadBy(c, v, i) /\ v.class = "TEMP" => \E j \in 1..i-1 : c[j].dst = v
<1>1. ASSUME ReadsWritten(c), NEW v, NEW i, ReadBy(c, v, i), v.class = "TEMP"
      PROVE  \E j \in 1..i-1 : c[j].dst = v
  BY <1>1 DEF ReadsWritten, ReadBy
<1>2. ASSUME \A v, i : ReadBy(c, v, i) /\ v.class = "TEMP" => \E j \in 1..i-1 : c[j].dst = v,
             NEW i \in DOMAIN c, NEW k \in DOMAIN c[i].args, c[i].args[k].class = "TEMP"
      PROVE  \E j \in 1..i-1 : c[j].dst = c[i].args[k]
  <2>1. ReadBy(c, c[i].args[k], i) BY DEF ReadBy
  <2> QED BY <1>2, <2>1
<1> QED BY <1>1, <1>2 DEF ReadsWritten

(* A result is read by the instruction that ends the call it is held in    *)
(* (Compute).                                                              *)
LEMMA ComputeReturns ==
  ASSUME NEW c \in Seq(Instructions), NEW p \in Seq(Calls), p # <<>>, Evaluated(c, p),
         NEW inst \in Instructions,
         inst.dst.class = "TEMP", inst.dst.temp = Len(c),
         \A v : v.class = "TEMP" =>
           ((\E k \in DOMAIN inst.args : inst.args[k] = v) <=>
              (\E k \in DOMAIN p[Len(p)].vals : p[Len(p)].vals[k] = v))
  PROVE  Returned(Append(c, inst), SubSeq(p, 1, Len(p) - 1), inst.dst)
<1> DEFINE d == Append(c, inst)  f == SubSeq(p, 1, Len(p) - 1)  n == Len(c)  m == Len(p)
           v == inst.dst
<1>1. /\ n \in Nat /\ DOMAIN c = 1..n /\ DOMAIN d = 1..(n + 1)
      /\ d[n + 1] = inst /\ \A j \in 1..n : d[j] = c[j]
  BY ReadByLast
<1>2. \A w, j : ReadBy(d, w, j) <=>
        ReadBy(c, w, j) \/ (j = n + 1 /\ \E k \in DOMAIN inst.args : inst.args[k] = w)
  BY ReadByLast
<1>3. \A w, i, k : HeldAt(f, w, i, k) <=> (HeldAt(p, w, i, k) /\ i # m)
  BY HeldByCallers
<1>4. m \in DOMAIN p
  BY FrontIs
<1>5. v.class = "TEMP" /\ v.temp = n
  OBVIOUS
<1>6. ASSUME NEW w, w.class = "TEMP"
      PROVE  (\E k \in DOMAIN inst.args : inst.args[k] = w) <=> (\E k : HeldAt(p, w, m, k))
  BY <1>4, <1>6 DEF HeldAt
<1> HIDE DEF d, f, n, m, v
<1>7. /\ Numbered(c) /\ ReadsWritten(c) /\ HoldsWritten(c, p) /\ ResultsUsedOnce(c, p)
  BY DEF Evaluated
<1>8. Numbered(d)
  <2>1. ASSUME NEW j \in 1..(n+1) PROVE d[j].dst.class = "TEMP" /\ d[j].dst.temp = j - 1
    <3>1. CASE j \in 1..n BY <1>1, <1>7, <3>1 DEF Numbered
    <3>2. CASE j = n + 1
      <4>1. d[j].dst = v BY <1>1, <3>2 DEF v
      <4>2. j - 1 = n BY <1>1, <3>2
      <4> QED BY <1>5, <4>1, <4>2
    <3> QED BY <1>1, <3>1, <3>2
  <2> QED BY <1>1, <2>1 DEF Numbered
(* The new temporary was neither read nor held before.                     *)
<1>9. \A j \in 1..n : c[j].dst # v
  <2>1. ASSUME NEW j \in 1..n, c[j].dst = v PROVE FALSE
    <3>1. c[j].dst.temp = j - 1 BY <1>1, <1>7 DEF Numbered
    <3>2. j - 1 = n BY ONLY <1>5, <2>1, <3>1
    <3> QED BY <1>1, <3>2
  <2> QED BY <2>1
<1>10. \A i, k : ~HeldAt(p, v, i, k)
  BY <1>1, <1>5, <1>7, <1>9, HoldsIff
<1>11. \A j : ~ReadBy(c, v, j)
  <2>1. ASSUME NEW j, ReadBy(c, v, j) PROVE FALSE
    <3>1. \E l \in 1..j-1 : c[l].dst = v BY <1>5, <1>7, <2>1, ReadsIff
    <3>2. j \in 1..n BY <1>1, <2>1 DEF ReadBy
    <3> QED BY <1>1, <1>9, <3>1, <3>2
  <2> QED BY <2>1
<1>12. \A j : ~ReadBy(d, v, j)
  BY <1>2, <1>5, <1>6, <1>10, <1>11
<1>13. \A i, k : ~HeldAt(f, v, i, k)
  BY <1>3, <1>10
<1>14. ReadsWritten(d)
  <2>1. ASSUME NEW w, NEW i, ReadBy(d, w, i), w.class = "TEMP"
        PROVE  \E j \in 1..i-1 : d[j].dst = w
    <3>1. CASE ReadBy(c, w, i)
      <4>1. PICK j \in 1..i-1 : c[j].dst = w BY <1>7, <2>1, <3>1, ReadsIff
      <4>2. i \in 1..n BY <1>1, <3>1 DEF ReadBy
      <4>3. j \in 1..n BY <1>1, <4>1, <4>2
      <4> QED BY <1>1, <4>1, <4>3
    <3>2. CASE i = n + 1 /\ \E k : HeldAt(p, w, m, k)
      <4>1. PICK j \in DOMAIN c : c[j].dst = w BY <1>7, <2>1, <3>2, HoldsIff
      <4>2. j \in 1..i-1 BY <1>1, <3>2, <4>1
      <4> QED BY <1>1, <4>1, <4>2
    <3> QED BY <1>2, <1>6, <2>1, <3>1, <3>2
  <2> QED BY <2>1, ReadsIff
<1>15. HoldsWritten(d, f)
  <2>1. ASSUME NEW w, NEW i, NEW k, HeldAt(f, w, i, k), w.class = "TEMP"
        PROVE  \E j \in DOMAIN d : d[j].dst = w
    <3>1. PICK j \in DOMAIN c : c[j].dst = w BY <1>3, <1>7, <2>1, HoldsIff
    <3>2. j \in DOMAIN d /\ d[j] = c[j] BY <1>1
    <3> QED BY <3>1, <3>2
  <2> QED BY <2>1, HoldsIff
<1>16. ASSUME NEW j \in DOMAIN d, d[j].dst # v
       PROVE  Waits(d, f, d[j].dst) \/ WasRead(d, f, d[j].dst)
  <2> DEFINE w == d[j].dst
  <2>1. j \in 1..n /\ w = c[j].dst
    <3>1. j # n + 1 BY <1>1, <1>16 DEF v
    <3> QED BY <1>1, <3>1
  <2>2. w.class = "TEMP" BY <1>1, <1>7, <2>1 DEF Numbered
  <2>3. Waits(c, p, w) \/ WasRead(c, p, w)
    BY <1>1, <1>7, <2>1 DEF ResultsUsedOnce
  <2>4. \A l : ReadBy(d, w, l) <=> ReadBy(c, w, l) \/ (l = n + 1 /\ \E k : HeldAt(p, w, m, k))
    BY <1>2, <1>6, <2>2
  <2> HIDE DEF w
  <2>5. CASE WasRead(c, p, w)
    BY <1>3, <2>4, <2>5 DEF WasRead, w
  <2>6. CASE Waits(c, p, w)
    <3>1. PICK i, k : HeldAt(p, w, i, k) /\ \A a, b : HeldAt(p, w, a, b) => a = i /\ b = k
      BY <2>6 DEF Waits
    <3>2. \A l : ~ReadBy(c, w, l) BY <2>6 DEF Waits
    <3>3. CASE i = m
      <4>1. \A a, b : ~HeldAt(f, w, a, b) BY <1>3, <3>1, <3>3
      <4>2. ReadBy(d, w, n + 1) BY <2>4, <3>1, <3>3
      <4>3. \A l : ReadBy(d, w, l) => l = n + 1 BY <2>4, <3>2
      <4> QED BY <4>1, <4>2, <4>3 DEF WasRead, w
    <3>4. CASE i # m
      <4>1. \A l : ~ReadBy(d, w, l) BY <2>4, <3>1, <3>2, <3>4
      <4>2. HeldAt(f, w, i, k) BY <1>3, <3>1, <3>4
      <4>3. \A a, b : HeldAt(f, w, a, b) => a = i /\ b = k BY <1>3, <3>1
      <4> QED BY <4>1, <4>2, <4>3 DEF Waits, w
    <3> QED BY <3>3, <3>4
  <2> QED BY <2>3, <2>5, <2>6
<1>17. \E j \in DOMAIN d : d[j].dst = v
  <2>1. n + 1 \in DOMAIN d BY <1>1
  <2> QED BY <1>1, <2>1 DEF v
<1>18. Returned(d, f, v)
  BY <1>8, <1>12, <1>13, <1>14, <1>15, <1>16, <1>17 DEF Returned
<1> QED BY <1>18 DEF d, f, v

(* The value goes to the call that waits for it (Returns).                 *)
LEMMA CallerHolds ==
  ASSUME NEW f \in Seq(Calls), f # <<>>, NEW v \in Values
  PROVE  LET m == Len(f)
             p == [f EXCEPT ![m].vals = Append(@, v)]
         IN  /\ m \in Nat \ {0} /\ DOMAIN f = 1..m
             /\ p \in Seq(Calls) /\ Len(p) = m /\ DOMAIN p = 1..m
             /\ \A i \in 1..m : i # m => p[i] = f[i]
             /\ p[m].node = f[m].node
             /\ Len(f[m].vals) \in Nat /\ Len(p[m].vals) = Len(f[m].vals) + 1
             /\ \A w, i, k : HeldAt(p, w, i, k) <=>
                  HeldAt(f, w, i, k) \/ (i = m /\ k = Len(f[m].vals) + 1 /\ w = v)
<1> DEFINE m == Len(f)  r == f[m].vals  s == Append(r, v)
           new == [f[m] EXCEPT !.vals = s]
           p == [f EXCEPT ![m].vals = Append(@, v)]
<1>1. m \in Nat \ {0} /\ DOMAIN f = 1..m /\ f[m] \in Calls
  BY FrontIs
<1>2. r \in Seq(Values) BY <1>1 DEF Calls
<1>3. /\ Len(r) \in Nat /\ DOMAIN r = 1..Len(r)
      /\ s \in Seq(Values) /\ Len(s) = Len(r) + 1 /\ DOMAIN s = 1..(Len(r) + 1)
      /\ s[Len(r) + 1] = v /\ \A k \in 1..Len(r) : s[k] = r[k]
  BY <1>2, AppendProperties, LenProperties
<1> HIDE DEF s
<1>4. new \in Calls /\ new.node = f[m].node /\ new.vals = s
  <2>1. f[m] = [node |-> f[m].node, vals |-> r] BY <1>1 DEF Calls
  <2>2. new = [node |-> f[m].node, vals |-> s] BY <2>1
  <2> QED BY <1>1, <1>3, <2>2 DEF Calls
<1>5. p = [f EXCEPT ![m] = new]
  BY DEF s
<1> HIDE DEF new
<1>6. p \in Seq(Calls) /\ Len(p) = m /\ p[m] = new /\ \A i \in 1..m : i # m => p[i] = f[i]
  <2>1. m \in 1..m /\ m = Len(f) BY <1>1
  <2> HIDE DEF m
  <2>2. [f EXCEPT ![m] = new] \in Seq(Calls) /\ Len([f EXCEPT ![m] = new]) = m
        /\ \A i \in 1..m : [f EXCEPT ![m] = new][i] = IF i = m THEN new ELSE f[i]
    BY <1>4, <2>1, ExceptSeq
  <2> QED BY <1>5, <2>1, <2>2
<1> HIDE DEF p
<1>7. DOMAIN p = 1..m BY <1>6, LenProperties
<1> HIDE DEF m
<1>8. ASSUME NEW w, NEW i, NEW k
      PROVE  HeldAt(p, w, i, k) <=> HeldAt(f, w, i, k) \/ (i = m /\ k = Len(r) + 1 /\ w = v)
  <2>1. CASE i \notin 1..m BY <1>1, <1>7, <2>1 DEF HeldAt
  <2>2. CASE i \in 1..m /\ i # m BY <1>1, <1>6, <1>7, <2>2 DEF HeldAt
  <2>3. CASE i = m
    <3>1. HeldAt(p, w, i, k) <=> (k \in 1..(Len(r) + 1) /\ s[k] = w)
      BY <1>1, <1>3, <1>4, <1>6, <1>7, <2>3 DEF HeldAt
    <3>2. HeldAt(f, w, i, k) <=> (k \in 1..Len(r) /\ r[k] = w)
      BY <1>1, <1>3, <2>3 DEF HeldAt
    <3>3. k \in 1..(Len(r) + 1) <=> (k \in 1..Len(r) \/ k = Len(r) + 1) BY <1>3
    <3>4. Len(r) + 1 \notin 1..Len(r) BY <1>3
    <3> QED BY <1>3, <2>3, <3>1, <3>2, <3>3, <3>4
  <2> QED BY <2>1, <2>2, <2>3
<1>9. p[m].node = f[m].node /\ Len(p[m].vals) = Len(r) + 1
  BY <1>3, <1>4, <1>6
<1> QED BY <1>1, <1>3, <1>6, <1>7, <1>8, <1>9 DEF m, p

LEMMA CallerGets ==
  ASSUME NEW c, NEW f \in Seq(Calls), f # <<>>, NEW v \in Values, Returned(c, f, v)
  PROVE  Evaluated(c, [f EXCEPT ![Len(f)].vals = Append(@, v)])
<1> DEFINE m == Len(f)  p == [f EXCEPT ![m].vals = Append(@, v)]  l == Len(f[m].vals) + 1
<1>1. \A w, i, k : HeldAt(p, w, i, k) <=> HeldAt(f, w, i, k) \/ (i = m /\ k = l /\ w = v)
  BY CallerHolds
<1> HIDE DEF m, p, l
<1>2. HoldsWritten(c, p)
  <2>1. HoldsWritten(c, f) /\ (v.class = "TEMP" => \E j \in DOMAIN c : c[j].dst = v)
    BY DEF Returned
  <2> QED BY <1>1, <2>1, HoldsIff
<1>3. ASSUME NEW j \in DOMAIN c
      PROVE  Waits(c, p, c[j].dst) \/ WasRead(c, p, c[j].dst)
  <2> DEFINE w == c[j].dst
  <2>1. CASE w = v
    <3>1. v.class = "TEMP" BY <2>1 DEF Returned, Numbered
    <3>2. /\ \A i : ~ReadBy(c, v, i)
          /\ \A i, k : ~HeldAt(f, v, i, k)
      BY <3>1 DEF Returned
    <3>3. HeldAt(p, v, m, l) /\ \A i, k : HeldAt(p, v, i, k) => i = m /\ k = l
      BY <1>1, <3>2
    <3>4. Waits(c, p, v) BY <3>2, <3>3 DEF Waits
    <3> QED BY <2>1, <3>4
  <2>2. CASE w # v
    <3>1. Waits(c, f, w) \/ WasRead(c, f, w) BY <2>2 DEF Returned
    <3>2. \A i, k : HeldAt(p, w, i, k) <=> HeldAt(f, w, i, k) BY <1>1, <2>2
    <3> HIDE DEF w
    <3>3. Waits(c, p, w) \/ WasRead(c, p, w) BY <3>1, <3>2 DEF Waits, WasRead
    <3> QED BY <3>3 DEF w
  <2> QED BY <2>1, <2>2
<1>4. Evaluated(c, p)
  BY <1>2, <1>3 DEF Evaluated, ResultsUsedOnce, Returned
<1> QED BY <1>4 DEF p, m

(* The assignment stores the value (Returns).                              *)
LEMMA AssignmentStores ==
  ASSUME NEW c \in Seq(Instructions), NEW v \in Values, Returned(c, <<>>, v),
         NEW store \in Instructions, store.dst.class = "VAR", store.args = <<v>>
  PROVE  Stored(Append(c, store))
<1> DEFINE d == Append(c, store)  n == Len(c)
<1>1. /\ n \in Nat /\ DOMAIN c = 1..n /\ Len(d) = n + 1 /\ DOMAIN d = 1..(n + 1)
      /\ d[n + 1] = store /\ \A j \in 1..n : d[j] = c[j]
  BY ReadByLast
<1>2. \A w, j : ReadBy(d, w, j) <=>
        ReadBy(c, w, j) \/ (j = n + 1 /\ \E k \in DOMAIN store.args : store.args[k] = w)
  BY ReadByLast
<1>3. \A w : (\E k \in DOMAIN store.args : store.args[k] = w) <=> w = v
  OBVIOUS
<1>4. \A i, k, w : ~HeldAt(<<>>, w, i, k)
  BY EmptySeq DEF HeldAt
<1> HIDE DEF d, n
<1>5. ReadsWritten(d)
  <2>1. ASSUME NEW w, NEW i, ReadBy(d, w, i), w.class = "TEMP"
        PROVE  \E j \in 1..i-1 : d[j].dst = w
    <3>1. CASE ReadBy(c, w, i)
      <4>1. PICK j \in 1..i-1 : c[j].dst = w BY <2>1, <3>1, ReadsIff DEF Returned
      <4>2. i \in 1..n BY <1>1, <3>1 DEF ReadBy
      <4>3. j \in 1..n BY <1>1, <4>1, <4>2
      <4> QED BY <1>1, <4>1, <4>3
    <3>2. CASE i = n + 1 /\ w = v
      <4>1. PICK j \in DOMAIN c : c[j].dst = v BY <2>1, <3>2 DEF Returned
      <4>2. j \in 1..i-1 BY <1>1, <3>2, <4>1
      <4> QED BY <1>1, <3>2, <4>1, <4>2
    <3> QED BY <1>2, <1>3, <2>1, <3>1, <3>2
  <2> QED BY <2>1, ReadsIff
<1>6. ASSUME NEW j \in 1..n PROVE WasRead(d, <<>>, d[j].dst)
  <2> DEFINE w == c[j].dst
  <2>1. j \in DOMAIN c /\ d[j].dst = w BY <1>1
  <2>2. CASE w = v
    <3>1. v.class = "TEMP" BY <2>1, <2>2 DEF Returned, Numbered
    <3>2. \A i : ~ReadBy(c, v, i) BY <3>1 DEF Returned
    <3>3. ReadBy(d, v, n + 1) /\ \A i : ReadBy(d, v, i) => i = n + 1
      BY <1>2, <1>3, <3>2
    <3>4. WasRead(d, <<>>, v) BY <1>4, <3>3 DEF WasRead
    <3> QED BY <2>1, <2>2, <3>4
  <2>3. CASE w # v
    <3>1. Waits(c, <<>>, w) \/ WasRead(c, <<>>, w) BY <2>1, <2>3 DEF Returned
    <3> HIDE DEF w
    <3>2. WasRead(c, <<>>, w) BY <1>4, <3>1 DEF Waits
    <3>3. \A i : ReadBy(d, w, i) <=> ReadBy(c, w, i) BY <1>2, <1>3, <2>3
    <3>4. WasRead(d, <<>>, w) BY <3>2, <3>3 DEF WasRead
    <3> QED BY <2>1, <3>4
  <2> QED BY <2>2, <2>3
<1>7. \A j \in 1..n : d[j].dst.class = "TEMP" /\ d[j].dst.temp = j - 1
  BY <1>1 DEF Returned, Numbered
<1>8. Len(d) > 0 /\ d[Len(d)].dst.class = "VAR" /\ Len(d) - 1 = n
  BY <1>1
<1>9. Stored(d) BY <1>5, <1>6, <1>7, <1>8 DEF Stored
<1> QED BY <1>9 DEF d

-----------------------------------------------------------------------------
(***************************************************************************)
(* The parser.                                                             *)
(***************************************************************************)
LEMMA NamesAre ==
  /\ {"", "4", "8", "zero"} \subseteq OpNames
  /\ DOMAIN Variables \subseteq OpNames /\ DOMAIN EnumBacking \subseteq OpNames
  /\ DOMAIN Functions \subseteq OpNames
  /\ Unaries \subseteq OpNames /\ Arithmetic \subseteq OpNames /\ Compares \subseteq OpNames
  /\ \A s \in DOMAIN Fields : DOMAIN Fields[s] \subseteq OpNames
<1>1. \A s \in DOMAIN Fields : DOMAIN Fields[s] \subseteq OpNames
  <2>1. UNION {DOMAIN Fields[s] : s \in DOMAIN Fields} \subseteq OpNames
    BY Zenon DEF OpNames
  <2> QED BY <2>1
<1>2. /\ {"", "4", "8", "zero"} \subseteq OpNames
      /\ DOMAIN Variables \subseteq OpNames /\ DOMAIN EnumBacking \subseteq OpNames
      /\ DOMAIN Functions \subseteq OpNames
  BY Zenon DEF OpNames
<1>3. Unaries \subseteq OpNames /\ Arithmetic \subseteq OpNames /\ Compares \subseteq OpNames
  BY Zenon DEF OpNames
<1> QED BY <1>1, <1>2, <1>3

(* The operands are nodes.                                                 *)
LEMMA OperandsAre ==
  ASSUME NodesInv
  PROVE  /\ Len(nodes) \in Nat /\ DOMAIN nodes = 1..Len(nodes)
         /\ \A n \in DOMAIN nodes : nodes[n] \in NodeSet /\ n \in Nat
         /\ Len(operands) \in Nat /\ DOMAIN operands = 1..Len(operands)
         /\ \A i \in 1..Len(operands) : operands[i] \in DOMAIN nodes /\ operands[i] \in 1..MaxNodes
<1>1. nodes \in Seq(NodeSet) BY DEF NodesInv, Tree, Shaped
<1>2. operands \in Seq(1..MaxNodes) BY DEF NodesInv
<1>3. /\ Len(nodes) \in Nat /\ DOMAIN nodes = 1..Len(nodes)
      /\ \A n \in DOMAIN nodes : nodes[n] \in NodeSet /\ n \in Nat
  BY <1>1, LenProperties, ElementOfSeq
<1>4. Len(operands) \in Nat /\ DOMAIN operands = 1..Len(operands)
  BY <1>2, LenProperties
<1>5. \A i \in 1..Len(operands) : operands[i] \in 1..MaxNodes
  BY <1>2, ElementOfSeq
<1> QED BY <1>3, <1>4, <1>5 DEF NodesInv

(* The operands an operator takes, and those it leaves.                    *)
LEMMA TakenAre ==
  ASSUME NodesInv, NEW k \in Nat, k <= Len(operands)
  PROVE  /\ Last(k) \in Seq(Nat) /\ Len(Last(k)) = k
         /\ \A i \in 1..k : Last(k)[i] \in DOMAIN nodes
         /\ First(k) \in Seq(1..MaxNodes)
         /\ \A i \in DOMAIN First(k) : First(k)[i] \in DOMAIN nodes
         /\ Len(First(k)) = Len(operands) - k
         /\ \A i \in 1..(Len(operands) - k) : First(k)[i] = operands[i]
         /\ \A i \in 1..k : Last(k)[i] = operands[(Len(operands) - k) + i]
<1> DEFINE l == Len(operands)
<1>1. /\ l \in Nat /\ DOMAIN operands = 1..l
      /\ \A i \in 1..l : operands[i] \in DOMAIN nodes /\ operands[i] \in 1..MaxNodes
      /\ \A n \in DOMAIN nodes : n \in Nat
  BY OperandsAre
<1>2. operands \in Seq(1..MaxNodes) BY DEF NodesInv
<1>3. /\ l - k + 1 \in Nat /\ l - k \in Nat /\ l - k <= l
      /\ (l - k) + 1 \in 1..l+1 /\ l - ((l - k) + 1) + 1 = k
  BY <1>1
<1>4. /\ Last(k) \in Seq(1..MaxNodes) /\ Len(Last(k)) = k
      /\ \A i \in 1..k : Last(k)[i] = operands[((l - k) + 1 + i) - 1]
  BY <1>1, <1>2, <1>3 DEF Last
<1>5. ASSUME NEW i \in 1..k PROVE Last(k)[i] \in DOMAIN nodes
  <2>1. ((l - k) + 1 + i) - 1 \in 1..l BY <1>1
  <2> QED BY <1>1, <1>4, <2>1
<1>6. /\ First(k) \in Seq(1..MaxNodes) /\ Len(First(k)) = l - k
      /\ \A i \in 1..(l - k) : First(k)[i] = operands[i]
  <2> DEFINE m == l - k
  <2>1. m \in 0..l /\ First(k) = SubSeq(operands, 1, m) BY <1>1, <1>3 DEF First
  <2> HIDE DEF m, l
  <2>2. /\ SubSeq(operands, 1, m) \in Seq(1..MaxNodes) /\ Len(SubSeq(operands, 1, m)) = m
        /\ \A i \in 1..m : SubSeq(operands, 1, m)[i] = operands[i]
    <3>1. 1 \in Int /\ m \in Int /\ \A i \in 1..m : operands[i] \in 1..MaxNodes
      BY <1>1, <2>1
    <3>2. /\ SubSeq(operands, 1, m) \in Seq(1..MaxNodes)
          /\ Len(SubSeq(operands, 1, m)) = IF 1 <= m THEN m-1+1 ELSE 0
          /\ \A i \in 1..m-1+1 : SubSeq(operands, 1, m)[i] = operands[1+i-1]
      BY <3>1, SubSeqProperties
    <3>3. m - 1 + 1 = m /\ (1 <= m \/ m = 0) BY <1>1, <2>1
    <3>4. \A i \in 1..m : 1 + i - 1 = i BY <3>1
    <3> QED BY <3>2, <3>3, <3>4
  <2> QED BY <2>1, <2>2 DEF m
<1>7. ASSUME NEW i \in DOMAIN First(k) PROVE First(k)[i] \in DOMAIN nodes
  <2>1. i \in 1..(l - k) BY <1>6, LenProperties
  <2>2. i \in 1..l /\ First(k)[i] = operands[i] BY <1>1, <1>6, <2>1
  <2> QED BY <1>1, <2>2
<1>8. Last(k) \in Seq(Nat)
  <2>1. 1..MaxNodes \subseteq Nat OBVIOUS
  <2> QED BY <1>4, <2>1, SeqMonotonic
<1>9. ASSUME NEW i \in 1..k PROVE Last(k)[i] = operands[(l - k) + i]
  <2>1. ((l - k) + 1 + i) - 1 = (l - k) + i BY <1>1
  <2> QED BY <1>4, <2>1
<1> QED BY <1>4, <1>5, <1>6, <1>7, <1>8, <1>9

LEMMA Taken ==
  ASSUME NodesInv, NEW k \in Nat, k <= Len(operands)
  PROVE  /\ Last(k) \in Seq(Nat) /\ Len(Last(k)) = k
         /\ \A i \in 1..k : Last(k)[i] \in DOMAIN nodes
         /\ First(k) \in Seq(1..MaxNodes)
         /\ \A i \in DOMAIN First(k) : First(k)[i] \in DOMAIN nodes
BY TakenAre

(* What all actions of the parser do: a node is made of the operands it     *)
(* takes.                                                                  *)
Made(new, k) ==
  /\ new \in NodeSet /\ k \in Nat /\ k <= Len(operands)
  /\ Parsed(new, k)
  /\ Formed(new) /\ MemberOf(nodes, new) /\ new.kind # "promotion"
  /\ Len(new.parts) = k /\ \A i \in 1..k : new.parts[i] = Last(k)[i]
  /\ new.kind = "unary" => new.precision = Builtin("INT32")

ParserMoves == \E new, k : Made(new, k)

LEMMA ParserStep ==
  ASSUME IInv, ParserMoves
  PROVE  IInv'
<1>0. PICK new, k : Made(new, k) BY DEF ParserMoves
<1>1. NodesInv /\ CallsInv /\ TempsInv BY DEF IInv
<1>11. /\ new \in NodeSet /\ k \in Nat /\ k <= Len(operands)
       /\ Parsed(new, k) /\ Formed(new) /\ MemberOf(nodes, new)
  BY <1>0 DEF Made
<1>12. \A i \in DOMAIN new.parts : new.parts[i] \in DOMAIN nodes
  <2>1. new.parts \in Seq(Nat) BY <1>11 DEF NodeSet
  <2>2. DOMAIN new.parts = 1..k BY <1>0, <2>1, LenProperties DEF Made
  <2>3. \A i \in 1..k : Last(k)[i] \in DOMAIN nodes BY <1>1, <1>11, Taken
  <2> QED BY <1>0, <2>2, <2>3 DEF Made
<1>2. /\ phase = "parse" /\ Len(nodes) < MaxNodes
      /\ nodes' = Append(nodes, new)
      /\ operands' = Append(First(k), Len(nodes) + 1)
      /\ UNCHANGED <<target, root, phase, next, errorNumber, pending, tempCounter, code>>
  BY <1>11 DEF Parsed
<1>3. Tree(nodes) BY <1>1 DEF NodesInv
<1>4. /\ Tree(nodes') /\ Len(nodes') = Len(nodes) + 1 /\ DOMAIN nodes' = 1..(Len(nodes) + 1)
  BY <1>2, <1>3, <1>11, <1>12, ParserAdds
<1>5. Len(nodes) \in Nat /\ DOMAIN nodes = 1..Len(nodes) /\ MaxNodes \in Nat
  BY <1>1, OperandsAre, ExpressionsAssumption
<1>6. First(k) \in Seq(1..MaxNodes) /\ \A i \in DOMAIN First(k) : First(k)[i] \in DOMAIN nodes
  BY <1>1, <1>11, Taken
<1> DEFINE f == First(k)
<1>7. /\ operands' \in Seq(1..MaxNodes)
      /\ \A i \in DOMAIN operands' : operands'[i] \in DOMAIN nodes'
  <2> HIDE DEF f
  <2>1. Len(nodes) + 1 \in 1..MaxNodes BY <1>2, <1>5
  <2>2. operands' = Append(f, Len(nodes) + 1) /\ f \in Seq(1..MaxNodes)
    BY <1>2, <1>6 DEF f
  <2>3. /\ operands' \in Seq(1..MaxNodes) /\ DOMAIN operands' = 1..(Len(f) + 1)
        /\ operands'[Len(f) + 1] = Len(nodes) + 1
        /\ \A i \in 1..Len(f) : operands'[i] = f[i]
        /\ DOMAIN f = 1..Len(f) /\ Len(f) \in Nat
    BY <2>1, <2>2, AppendProperties, LenProperties
  <2>4. ASSUME NEW i \in DOMAIN operands' PROVE operands'[i] \in DOMAIN nodes'
    <3>1. CASE i \in 1..Len(f)
      <4>1. operands'[i] \in DOMAIN nodes BY <1>6, <2>3, <3>1 DEF f
      <4> QED BY <1>4, <1>5, <4>1
    <3>2. CASE i = Len(f) + 1 BY <1>4, <1>5, <2>3, <3>2
    <3> QED BY <2>3, <3>1, <3>2
  <2> QED BY <2>3, <2>4
<1>8. NodesInv'
  <2>1. Len(nodes') <= MaxNodes BY <1>2, <1>4, <1>5
  <2> QED BY <1>1, <1>2, <1>4, <1>7, <2>1 DEF NodesInv, Throws
<1>9. CallsInv'
  <2>1. pending = <<>> /\ code = <<>> BY <1>1, <1>2 DEF CallsInv
  <2>2. pending' = <<>> /\ code' = <<>> /\ DOMAIN pending' = {} BY <1>2, <2>1, EmptySeq
  <2> QED BY <2>2, EmptySeq DEF CallsInv
<1>10. TempsInv' BY <1>1, <1>2 DEF TempsInv
<1> QED BY <1>8, <1>9, <1>10 DEF IInv

LEMMA KindsAre ==
  /\ \A k \in {"FLOAT32", "INT32", "UINT32", "UINT64", "VOID"} : Builtin(k) \in Types
  /\ \A e \in DOMAIN EnumBacking : Builtin(EnumBacking[e]) \in Types
  /\ \A e \in DOMAIN EnumBacking : Builtin(EnumBacking[e]).kind # "ENUM"
<1>1. {"FLOAT32", "INT32", "UINT32", "UINT64", "VOID"} \subseteq Kinds \ {"STRUCT"}
  BY DEF Kinds
<1>2. \A e \in DOMAIN EnumBacking : EnumBacking[e] \in Kinds \ {"STRUCT", "ENUM"}
  BY ExpressionsAssumption
<1>3. \A e \in DOMAIN EnumBacking : Builtin(EnumBacking[e]).kind # "ENUM"
  BY <1>2 DEF Builtin
<1> QED BY <1>1, <1>2, <1>3, TypesAre

LEMMA LeafParsed ==
  ASSUME IInv, ParseLeaf
  PROVE  ParserMoves
<1>1. NodesInv /\ 0 <= Len(operands)
  BY OperandsAre DEF IInv
<1>2. <<>> \in Seq(Nat) /\ DOMAIN <<>> = {}
  BY EmptySeq
<1>3. {"", "zero"} \subseteq OpNames /\ DOMAIN Variables \subseteq OpNames /\ DOMAIN EnumBacking \subseteq OpNames
  BY NamesAre
<1>4. ASSUME NEW kind \in {"int", "float", "var", "enum"}, NEW op \in OpNames,
             NEW precision \in Types, Parsed(Node(kind, op, precision, <<>>), 0),
             kind = "var" => op \in DOMAIN Variables,
             kind \in Literals => precision.kind # "ENUM"
      PROVE  ParserMoves
  <2> DEFINE new == Node(kind, op, precision, <<>>)
  <2>1. kind \in NodeKinds BY DEF NodeKinds
  <2>2. new \in NodeSet /\ new.kind = kind /\ new.op = op /\ new.precision = precision /\ new.parts = <<>>
    BY <1>2, <1>3, <2>1 DEF Node, NodeSet
  <2> HIDE DEF new
  <2>3. Formed(new) BY <1>4, <2>2 DEF Formed, Leaf, Single, Throws
  <2>4. MemberOf(nodes, new) BY <2>2 DEF MemberOf
  <2>5. Parsed(new, 0) BY <1>4 DEF new
  <2>6. Len(new.parts) = 0 BY <2>2, EmptySeq
  <2>7. Made(new, 0) BY <1>1, <1>4, <2>2, <2>3, <2>4, <2>5, <2>6 DEF Made
  <2> QED BY <2>7 DEF ParserMoves
<1>5. /\ Builtin("INT32") \in Types /\ Builtin("FLOAT32") \in Types
      /\ Builtin("INT32").kind # "ENUM" /\ Builtin("FLOAT32").kind # "ENUM"
  BY KindsAre DEF Builtin
<1>6. CASE Parsed(Int32Literal, 0) BY <1>3, <1>4, <1>5, <1>6 DEF Int32Literal
<1>7. CASE Parsed(Float32Literal, 0) BY <1>3, <1>4, <1>5, <1>7 DEF Float32Literal
<1>8. CASE \E v \in DOMAIN Variables : Parsed(VariableAccess(v), 0)
  BY <1>3, <1>4, <1>5, <1>8 DEF VariableAccess, ZeroType, Literals
<1>9. CASE \E e \in DOMAIN EnumBacking : Parsed(EnumAccess(e), 0)
  BY <1>3, <1>4, <1>9, KindsAre DEF EnumAccess
<1> QED BY <1>6, <1>7, <1>8, <1>9 DEF ParseLeaf

(* A node of one part: an operator, a read, a member.                      *)
LEMMA SingleParsed ==
  ASSUME IInv, NEW kind \in {"unary", "read", "field"}, NEW op \in OpNames,
         NEW precision \in Types, kind = "unary" => precision = Builtin("INT32"),
         Len(operands) >= 1,
         Parsed(Node(kind, op, precision, <<Last(1)[1]>>), 1),
         MemberOf(nodes, Node(kind, op, precision, <<Last(1)[1]>>))
  PROVE  ParserMoves
<1> DEFINE p == Last(1)[1]  new == Node(kind, op, precision, <<p>>)
<1>1. NodesInv BY DEF IInv
<1>2. p \in DOMAIN nodes /\ 1 <= Len(operands) /\ p \in Nat
  BY <1>1, OperandsAre, Taken
<1>3. Parsed(new, 1) /\ MemberOf(nodes, new) OBVIOUS
<1> HIDE DEF p
<1>4. kind \in NodeKinds /\ <<p>> \in Seq(Nat) BY <1>2 DEF NodeKinds
<1>5. new \in NodeSet /\ new.kind = kind /\ new.parts = <<p>> /\ new.precision = precision
  <2>1. "zero" \in OpNames BY NamesAre
  <2> QED BY <1>4, <2>1 DEF Node, NodeSet
<1> HIDE DEF new
<1>6. Formed(new) BY <1>5 DEF Formed, Leaf, Single, Literals
<1>7. Len(new.parts) = 1 /\ \A i \in 1..1 : new.parts[i] = Last(1)[i] BY <1>5 DEF p
<1>8. Made(new, 1) BY <1>2, <1>3, <1>5, <1>6, <1>7 DEF Made
<1> QED BY <1>8 DEF ParserMoves

LEMMA UnaryParsed ==
  ASSUME IInv, ParseUnary
  PROVE  ParserMoves
<1>1. Builtin("INT32") \in Types /\ Unaries \subseteq OpNames BY KindsAre, NamesAre
<1>2. PICK op \in Unaries : Len(operands) >= 1 /\ Parsed(UnaryOp(op, Last(1)[1]), 1)
  BY DEF ParseUnary
<1>3. MemberOf(nodes, UnaryOp(op, Last(1)[1])) BY DEF MemberOf, UnaryOp, Node
<1> QED BY <1>1, <1>2, <1>3, SingleParsed DEF UnaryOp

LEMMA ReadParsed ==
  ASSUME IInv, ParseRead
  PROVE  ParserMoves
<1>1. Builtin("UINT32") \in Types /\ {"4", "8"} \subseteq OpNames BY KindsAre, NamesAre
<1>2. PICK bytes \in {"4", "8"} : Len(operands) >= 1 /\ Parsed(readAddr(bytes, Last(1)[1]), 1)
  BY DEF ParseRead
<1>3. MemberOf(nodes, readAddr(bytes, Last(1)[1])) BY DEF MemberOf, readAddr, Node
<1> QED BY <1>1, <1>2, <1>3, SingleParsed DEF readAddr

LEMMA FieldParsed ==
  ASSUME IInv, ParseField
  PROVE  ParserMoves
<1> DEFINE p == Last(1)[1]  base == TypeOf(p)
<1>1. /\ Len(operands) >= 1 /\ nodes[p].kind \in Chain /\ base.kind = "STRUCT"
      /\ \E f \in DOMAIN Fields[base.name] : Parsed(StructAccess(f, p), 1)
  BY DEF ParseField, Chain
<1>2. PICK f \in DOMAIN Fields[base.name] : Parsed(StructAccess(f, p), 1)
  BY <1>1
<1>3. base = Precisions(nodes)[p] BY PrecisionIsRule DEF TypeOf
<1>4. base.name \in DOMAIN Fields
  <2>1. NodesInv /\ Shaped(nodes) /\ Members(nodes) BY DEF IInv, NodesInv, Tree
  <2>2. p \in DOMAIN nodes BY <1>1, <2>1, OperandsAre, Taken
  <2>3. base \in Types BY <1>3, <2>1, <2>2, PrecisionTyped
  <2> QED BY <1>1, <2>3, TypesAre
<1>5. f \in OpNames BY <1>4, NamesAre
<1>6. Builtin("INT32") \in Types BY KindsAre
<1>7. MemberOf(nodes, StructAccess(f, p))
  <2>1. /\ StructAccess(f, p).kind = "field" /\ StructAccess(f, p).op = f
        /\ StructAccess(f, p).parts[1] = p
    BY DEF StructAccess, Node
  <2> QED BY <1>1, <1>3, <2>1 DEF MemberOf
<1> HIDE DEF p
<1>8. MemberOf(nodes, Node("field", f, Builtin("INT32"), <<p>>))
      /\ Parsed(Node("field", f, Builtin("INT32"), <<p>>), 1)
  BY <1>2, <1>7 DEF StructAccess
<1> QED BY <1>1, <1>5, <1>6, <1>8, SingleParsed DEF p

LEMMA BinaryParsed ==
  ASSUME IInv, ParseBinary
  PROVE  ParserMoves
<1>1. NodesInv BY DEF IInv
<1>2. Len(operands) >= 2 BY DEF ParseBinary
<1>3. PICK op \in Arithmetic \cup Compares : Parsed(BinaryOp(op, Last(2)[1], Last(2)[2]), 2)
  BY DEF ParseBinary
<1> DEFINE l == Last(2)[1]  r == Last(2)[2]  new == BinaryOp(op, l, r)
<1>4. l \in DOMAIN nodes /\ r \in DOMAIN nodes /\ 2 <= Len(operands) /\ l \in Nat /\ r \in Nat
  BY <1>1, <1>2, OperandsAre, Taken
<1>5. Parsed(new, 2) BY <1>3
<1> HIDE DEF l, r
<1>6. /\ "binary" \in NodeKinds /\ <<l, r>> \in Seq(Nat) /\ op \in OpNames
      /\ Builtin("INT32") \in Types /\ "zero" \in OpNames
  <2>1. "binary" \in NodeKinds /\ <<l, r>> \in Seq(Nat) BY <1>4 DEF NodeKinds
  <2>2. op \in OpNames /\ "zero" \in OpNames BY NamesAre
  <2> QED BY <2>1, <2>2, KindsAre
<1>7. new \in NodeSet /\ new.kind = "binary" /\ new.parts = <<l, r>>
  BY <1>6 DEF BinaryOp, Node, NodeSet
<1> HIDE DEF new
<1>8. Formed(new) BY <1>7 DEF Formed, Leaf, Single, Literals
<1>9. MemberOf(nodes, new) BY <1>7 DEF MemberOf
<1>10. Len(new.parts) = 2 /\ \A i \in 1..2 : new.parts[i] = Last(2)[i] BY <1>7 DEF l, r
<1>11. Made(new, 2) BY <1>4, <1>5, <1>7, <1>8, <1>9, <1>10 DEF Made
<1> QED BY <1>11 DEF ParserMoves

LEMMA CallParsed ==
  ASSUME IInv, ParseCall
  PROVE  ParserMoves
<1>1. NodesInv BY DEF IInv
<1>2. PICK f \in DOMAIN Functions, k \in 0..1 :
        Len(operands) >= k /\ Parsed(FuncCall(f, Last(k)), k)
  BY DEF ParseCall
<1> DEFINE args == Last(k)  new == FuncCall(f, args)
<1>3. k \in Nat /\ k <= Len(operands) BY <1>1, <1>2, OperandsAre
<1>4. args \in Seq(Nat) /\ Len(args) = k /\ \A i \in 1..k : args[i] \in DOMAIN nodes
  BY <1>1, <1>3, Taken
<1>5. Parsed(new, k) BY <1>2
<1> HIDE DEF args
<1>6. "call" \in NodeKinds /\ {f, "zero"} \subseteq OpNames /\ Builtin("VOID") \in Types
  BY NamesAre, KindsAre DEF NodeKinds
<1>7. new \in NodeSet /\ new.kind = "call" /\ new.op = f /\ new.parts = args
  BY <1>4, <1>6 DEF FuncCall, Node, NodeSet
<1> HIDE DEF new
<1>8. Formed(new) BY <1>7 DEF Formed, Leaf, Single, Literals
<1>9. MemberOf(nodes, new) BY <1>7 DEF MemberOf
<1>10. Len(new.parts) = k /\ \A i \in 1..k : new.parts[i] = Last(k)[i]
  BY <1>4, <1>7 DEF args
<1>11. Made(new, k) BY <1>3, <1>5, <1>7, <1>8, <1>9, <1>10 DEF Made
<1> QED BY <1>11 DEF ParserMoves

LEMMA ParseEnded ==
  ASSUME IInv, EndParse
  PROVE  IInv'
<1>1. NodesInv /\ CallsInv /\ TempsInv BY DEF IInv
<1>2. /\ phase = "parse" /\ Len(operands) = 1 /\ root' = operands[1] /\ phase' = "analyse"
      /\ UNCHANGED <<nodes, operands, target, next, errorNumber, pending, tempCounter, code>>
  BY DEF EndParse
<1>3. root' \in DOMAIN nodes BY <1>1, <1>2, OperandsAre
<1>4. NodesInv' BY <1>1, <1>2, <1>3 DEF NodesInv, Throws
<1>5. CallsInv' BY <1>1, <1>2 DEF CallsInv
<1>6. TempsInv' BY <1>1, <1>2 DEF TempsInv
<1> QED BY <1>4, <1>5, <1>6 DEF IInv

-----------------------------------------------------------------------------
(***************************************************************************)
(* The analyser.                                                           *)
(***************************************************************************)
LEMMA RewriteIs ==
  ASSUME NEW t, Tree(t), NEW k \in DOMAIN t, NEW new \in NodeSet, NEW extra \in Seq(NodeSet),
         new.kind = t[k].kind, new.op = t[k].op, t[k].kind # "promotion",
         t[k].kind \in Literals => new.precision = t[k].precision,
         t[k].kind \notin {"unary", "binary", "call"} => new.parts = t[k].parts,
         DOMAIN new.parts = DOMAIN t[k].parts,
         \A i \in DOMAIN t[k].parts :
           \/ new.parts[i] = t[k].parts[i]
           \/ \E j \in 1..Len(extra) :
                new.parts[i] = Len(t) + j /\ extra[j].parts = <<t[k].parts[i]>>,
         \A i \in 1..Len(extra) :
           \E to \in Types, p \in PartsOf(t[k]) : extra[i] = Promotion(to, p)
  PROVE  Rewritten(t, [t EXCEPT ![k] = new] \o extra, k)
<1> DEFINE w == [t EXCEPT ![k] = new]  u == w \o extra  N == Len(t)  M == Len(extra)
<1>1. t \in Seq(NodeSet) BY DEF Tree, Shaped
<1>2. N \in Nat /\ DOMAIN t = 1..N /\ M \in Nat
  BY <1>1, LenProperties
<1>3. w \in Seq(NodeSet) /\ Len(w) = N /\ \A n \in 1..N : w[n] = IF n = k THEN new ELSE t[n]
  BY <1>1, <1>2, ExceptSeq
<1> HIDE DEF w
<1>4. /\ u \in Seq(NodeSet) /\ Len(u) = N + M
      /\ \A n \in 1..N : u[n] = w[n]
      /\ \A n \in (N+1)..(N+M) : u[n] = extra[n - N]
  <2>1. /\ u \in Seq(NodeSet) /\ Len(u) = Len(w) + Len(extra)
        /\ \A n \in 1..Len(w) + Len(extra) :
             u[n] = IF n <= Len(w) THEN w[n] ELSE extra[n - Len(w)]
    <3>1. w \in Seq(NodeSet) /\ extra \in Seq(NodeSet) BY <1>3
    <3> QED BY ONLY <3>1, ConcatProperties
  <2> HIDE DEF u
  <2>2. \A n \in 1..N : n <= N /\ n \in 1..(N+M) BY <1>2
  <2>3. \A n \in (N+1)..(N+M) : ~(n <= N) /\ n \in 1..(N+M) BY <1>2
  <2> QED BY <1>3, <2>1, <2>2, <2>3
<1> HIDE DEF u
<1>5. \A n \in DOMAIN t : n # k => u[n] = t[n] BY <1>2, <1>3, <1>4
<1>6. u[k] = new BY <1>2, <1>3, <1>4
<1>7. ASSUME NEW n \in (N+1)..Len(u)
      PROVE  \E to \in Types, p \in PartsOf(t[k]) : u[n] = Promotion(to, p)
  <2>1. n - N \in 1..M /\ u[n] = extra[n - N] BY <1>2, <1>4
  <2>2. PICK to \in Types, p \in PartsOf(t[k]) : extra[n - N] = Promotion(to, p) BY <2>1
  <2> QED BY <2>1, <2>2
<1>8. N <= Len(u) BY <1>2, <1>4
<1>9. ASSUME NEW i \in DOMAIN t[k].parts, u[k].parts[i] # t[k].parts[i]
      PROVE  u[k].parts[i] \in (N+1)..Len(u) /\ u[u[k].parts[i]].parts = <<t[k].parts[i]>>
  <2>1. PICK j \in 1..M : new.parts[i] = N + j /\ extra[j].parts = <<t[k].parts[i]>>
    BY <1>6, <1>9
  <2>2. N + j \in (N+1)..(N+M) /\ (N + j) - N = j BY <1>2
  <2> QED BY <1>4, <1>6, <2>1, <2>2
<1>10. /\ u[k].kind = t[k].kind /\ u[k].op = t[k].op
       /\ t[k].kind \in Literals => u[k].precision = t[k].precision
       /\ t[k].kind \notin {"unary", "binary", "call"} => u[k].parts = t[k].parts
       /\ DOMAIN u[k].parts = DOMAIN t[k].parts
  BY <1>6
<1> HIDE DEF N
<1>11. Rewritten(t, u, k)
  <2>1. \A n \in (Len(t)+1)..Len(u) :
          \E to \in Types, p \in PartsOf(t[k]) : u[n] = Promotion(to, p)
    BY <1>7 DEF N
  <2> QED BY <1>4, <1>5, <1>8, <1>9, <1>10, <2>1 DEF Rewritten, N
<1> QED BY <1>11 DEF u, w

LEMMA PromotionTyped ==
  ASSUME NEW to \in Types, NEW p \in Nat
  PROVE  Promotion(to, p) \in NodeSet
<1>1. {"", "zero"} \subseteq OpNames BY NamesAre
<1>2. "promotion" \in NodeKinds /\ <<p>> \in Seq(Nat) BY DEF NodeKinds
<1> QED BY <1>1, <1>2 DEF Promotion, Node, NodeSet

(* Where the analyser is.                                                  *)
LEMMA AtNode ==
  ASSUME IInv, phase = "analyse", next <= Original
  PROVE  /\ Tree(nodes) /\ Shaped(nodes) /\ Members(nodes) /\ nodes \in Seq(NodeSet)
         /\ Len(nodes) \in Nat /\ DOMAIN nodes = 1..Len(nodes) /\ next \in DOMAIN nodes
         /\ node \in NodeSet /\ Formed(node) /\ node.parts \in Seq(Nat)
         /\ \A i \in DOMAIN node.parts : node.parts[i] \in DOMAIN nodes
         /\ \A n \in DOMAIN nodes : TypeOf(n) \in Types
         /\ next + 1 \in 1..MaxNodes+1
<1>1. NodesInv BY DEF IInv
<1>2. Tree(nodes) /\ Shaped(nodes) /\ Members(nodes) /\ nodes \in Seq(NodeSet)
  BY <1>1 DEF NodesInv, Tree, Shaped
<1>3. Original \in DOMAIN nodes /\ Original \in 1..MaxNodes
  BY <1>1, OperandsAre DEF NodesInv, Original
<1>4. Len(nodes) \in Nat /\ DOMAIN nodes = 1..Len(nodes) /\ MaxNodes \in Nat /\ next \in 1..MaxNodes+1
  BY <1>1, OperandsAre, ExpressionsAssumption DEF NodesInv
<1>5. next \in DOMAIN nodes /\ next + 1 \in 1..MaxNodes+1 BY <1>3, <1>4
<1>6. node \in NodeSet /\ Formed(node) /\ \A i \in DOMAIN node.parts : Below(nodes, node.parts[i], next)
  BY <1>2, <1>5, PartsBelow DEF Shaped, node
<1>7. node.parts \in Seq(Nat) BY <1>6 DEF NodeSet
<1>8. ASSUME NEW n \in DOMAIN nodes PROVE TypeOf(n) \in Types
  BY <1>2, PrecisionTyped, PrecisionIsRule DEF TypeOf
<1> QED BY <1>2, <1>4, <1>5, <1>6, <1>7, <1>8 DEF Below

(* What all actions of the analyser do at a node.                          *)
AnalyserMoves ==
  /\ phase = "analyse" /\ next <= Original
  /\ \E u : \E errors \in Nat :
       Analysed(u, errors) /\ (u = nodes \/ Rewritten(nodes, u, next))

LEMMA AnalyserMove ==
  ASSUME phase = "analyse", next <= Original, NEW u, NEW errors \in Nat,
         Analysed(u, errors), u = nodes \/ Rewritten(nodes, u, next)
  PROVE  AnalyserMoves
BY DEF AnalyserMoves

LEMMA AnalyserStep ==
  ASSUME IInv, AnalyserMoves
  PROVE  IInv'
<1>0. PICK u : \E errors \in Nat :
        Analysed(u, errors) /\ (u = nodes \/ Rewritten(nodes, u, next))
  BY DEF AnalyserMoves
<1>01. PICK errors \in Nat : Analysed(u, errors) /\ (u = nodes \/ Rewritten(nodes, u, next))
  BY <1>0
<1>02. phase = "analyse" /\ next <= Original BY DEF AnalyserMoves
<1>1. NodesInv /\ CallsInv /\ TempsInv BY DEF IInv
<1>2. /\ nodes' = u /\ next' = next + 1 /\ errorNumber' = errorNumber + errors
      /\ UNCHANGED <<operands, target, root, phase, pending, tempCounter, code>>
  BY <1>01 DEF Analysed
<1>3. Tree(nodes) /\ next + 1 \in 1..MaxNodes+1 BY <1>02, AtNode
<1>4. Tree(u) BY <1>01, <1>3, AnalyserRewrites
<1>5. DOMAIN nodes \subseteq DOMAIN u
  <2>1. CASE u = nodes BY <2>1
  <2>2. CASE Rewritten(nodes, u, next)
    <3>1. Len(nodes) <= Len(u) /\ u \in Seq(NodeSet) BY <2>2 DEF Rewritten
    <3>2. Len(u) \in Nat /\ DOMAIN u = 1..Len(u) /\ Len(nodes) \in Nat /\ DOMAIN nodes = 1..Len(nodes)
      BY <1>1, <3>1, OperandsAre, LenProperties
    <3> QED BY <3>1, <3>2
  <2> QED BY <1>01, <2>1, <2>2
<1>6. NodesInv'
  <2>1. /\ operands \in Seq(1..MaxNodes)
        /\ \A i \in DOMAIN operands : operands[i] \in DOMAIN u
        /\ root \in DOMAIN u /\ Len(operands) = 1
    BY <1>02, <1>1, <1>5 DEF NodesInv
  <2>2. target \in DOMAIN Variables /\ errorNumber + errors \in Nat
    BY <1>1 DEF NodesInv
  <2> QED BY <1>02, <1>2, <1>3, <1>4, <2>1, <2>2 DEF NodesInv, Throws
<1>7. CallsInv'
  <2>1. pending = <<>> /\ code = <<>> BY <1>02, <1>1 DEF CallsInv
  <2>2. pending' = <<>> /\ code' = <<>> /\ DOMAIN pending' = {} BY <1>2, <2>1, EmptySeq
  <2> QED BY <2>2, EmptySeq DEF CallsInv
<1>8. TempsInv' BY <1>1, <1>2 DEF TempsInv
<1> QED BY <1>6, <1>7, <1>8 DEF IInv

(* Where only the node itself is written, and with another type, slot or   *)
(* none.                                                                   *)
LEMMA NodeWritten ==
  ASSUME IInv, phase = "analyse", next <= Original, NEW new \in NodeSet,
         new.kind = node.kind, new.op = node.op, new.parts = node.parts,
         node.kind \notin Literals \cup {"promotion"}
  PROVE  Rewritten(nodes, [nodes EXCEPT ![next] = new], next)
<1> DEFINE w == [nodes EXCEPT ![next] = new]
<1>1. Tree(nodes) /\ next \in DOMAIN nodes /\ nodes \in Seq(NodeSet) /\ DOMAIN nodes = 1..Len(nodes)
  BY AtNode
<1>2. w \in Seq(NodeSet) BY <1>1, ExceptSeq
<1> HIDE DEF w
<1>3. w \o <<>> = w BY <1>2, ConcatEmptySeq
<1>4. <<>> \in Seq(NodeSet) /\ Len(<<>>) = 0 BY EmptySeq
<1>5. \A i \in DOMAIN nodes[next].parts : new.parts[i] = nodes[next].parts[i]
  BY DEF node
<1>6. Rewritten(nodes, w \o <<>>, next)
  <2> DEFINE extra == <<>>
  <2>1. extra \in Seq(NodeSet) /\ Len(extra) = 0 BY <1>4
  <2> HIDE DEF extra
  <2>2. /\ new.kind = nodes[next].kind /\ new.op = nodes[next].op /\ new.parts = nodes[next].parts
        /\ nodes[next].kind \notin Literals \cup {"promotion"}
    BY DEF node
  <2>3. \A i \in 1..Len(extra) :
          \E to \in Types, p \in PartsOf(nodes[next]) : extra[i] = Promotion(to, p)
    BY <2>1
  <2>4. Rewritten(nodes, [nodes EXCEPT ![next] = new] \o extra, next)
    BY <1>1, <1>5, <2>1, <2>2, <2>3, RewriteIs
  <2> QED BY <2>4 DEF extra, w
<1> QED BY <1>3, <1>6 DEF w

LEMMA LeafAnalysed ==
  ASSUME IInv, AnalyseLeaf \/ SkipArgument
  PROVE  AnalyserMoves
<1>1. phase = "analyse" /\ next <= Original /\ Analysed(nodes, 0)
  BY DEF AnalyseLeaf, SkipArgument, Analyse
<1> QED BY <1>1, AnalyserMove

LEMMA ReadAnalysed ==
  ASSUME IInv, AnalyseRead
  PROVE  AnalyserMoves
<1>1. phase = "analyse" /\ next <= Original /\ \E errors \in {0, 1} : Analysed(nodes, errors)
  BY DEF AnalyseRead, Analyse
<1> QED BY <1>1, AnalyserMove

LEMMA VariableAnalysed ==
  ASSUME IInv, AnalyseVariable
  PROVE  AnalyserMoves
<1> DEFINE new == [node EXCEPT !.precision = Variables[node.op], !.slot = node.op]
<1>1. /\ phase = "analyse" /\ next <= Original /\ node.kind = "var"
      /\ Analysed([nodes EXCEPT ![next].precision = Variables[node.op],
                                ![next].slot = node.op], 0)
  BY DEF AnalyseVariable, Analyse, node
<1>2. node \in NodeSet /\ next \in DOMAIN nodes /\ node.op \in DOMAIN Variables
  BY <1>1, AtNode DEF Formed
<1>3. Variables[node.op] \in Types /\ node.op \in OpNames BY <1>2, TypesAre, NamesAre
<1>4. /\ new \in NodeSet /\ new.kind = node.kind /\ new.op = node.op /\ new.parts = node.parts
  BY <1>2, <1>3 DEF NodeSet
<1>5. [nodes EXCEPT ![next].precision = Variables[node.op], ![next].slot = node.op]
        = [nodes EXCEPT ![next] = new]
  BY <1>2 DEF node
<1> HIDE DEF new
<1>6. Rewritten(nodes, [nodes EXCEPT ![next] = new], next)
  BY <1>1, <1>4, NodeWritten DEF Literals
<1> QED BY <1>1, <1>5, <1>6, AnalyserMove

LEMMA FieldAnalysed ==
  ASSUME IInv, AnalyseField
  PROVE  AnalyserMoves
<1> DEFINE new == [node EXCEPT !.precision = TypeOf(next), !.slot = node.op]
<1>1. /\ phase = "analyse" /\ next <= Original /\ node.kind = "field"
      /\ Analysed([nodes EXCEPT ![next].precision = TypeOf(next), ![next].slot = node.op], 0)
  BY DEF AnalyseField, Analyse, node
<1>2. node \in NodeSet /\ next \in DOMAIN nodes /\ TypeOf(next) \in Types
  BY <1>1, AtNode
<1>3. /\ new \in NodeSet /\ new.kind = node.kind /\ new.op = node.op /\ new.parts = node.parts
  BY <1>2 DEF NodeSet
<1>4. [nodes EXCEPT ![next].precision = TypeOf(next), ![next].slot = node.op]
        = [nodes EXCEPT ![next] = new]
  BY <1>2 DEF node
<1> HIDE DEF new
<1>5. Rewritten(nodes, [nodes EXCEPT ![next] = new], next)
  BY <1>1, <1>3, NodeWritten DEF Literals
<1> QED BY <1>1, <1>4, <1>5, AnalyserMove

(* The precision is written.                                               *)
LEMMA PrecisionWritten ==
  ASSUME IInv, phase = "analyse", next <= Original, NEW p \in Types,
         node.kind \notin Literals \cup {"promotion"}
  PROVE  Rewritten(nodes, WithPrecision(p), next)
<1> DEFINE new == [node EXCEPT !.precision = p]
<1>1. node \in NodeSet /\ next \in DOMAIN nodes BY AtNode
<1>2. new \in NodeSet /\ new.kind = node.kind /\ new.op = node.op /\ new.parts = node.parts
  BY <1>1 DEF NodeSet
<1>3. WithPrecision(p) = [nodes EXCEPT ![next] = new]
  BY <1>1 DEF node, WithPrecision
<1> HIDE DEF new
<1> QED BY <1>2, <1>3, NodeWritten

LEMMA ArithmeticAnalysed ==
  ASSUME IInv, AnalyseArithmetic
  PROVE  AnalyserMoves
<1>1. /\ phase = "analyse" /\ next <= Original /\ node.kind = "binary"
      /\ Analysed(WithPrecision(TypeOf(next)), 0)
  BY DEF AnalyseArithmetic, Analyse, node
<1>2. TypeOf(next) \in Types BY <1>1, AtNode
<1>3. Rewritten(nodes, WithPrecision(TypeOf(next)), next)
  BY <1>1, <1>2, PrecisionWritten DEF Literals
<1> QED BY <1>1, <1>3, AnalyserMove

(* Parts are exchanged for promotions that are added.                      *)
LEMMA PartsExchanged ==
  ASSUME IInv, phase = "analyse", next <= Original, node.kind \in {"unary", "binary"},
         NEW q \in Seq(Nat), DOMAIN q = DOMAIN node.parts, NEW extra \in Seq(NodeSet),
         \A i \in DOMAIN node.parts :
           \/ q[i] = node.parts[i]
           \/ \E j \in 1..Len(extra) :
                q[i] = Len(nodes) + j /\ extra[j].parts = <<node.parts[i]>>,
         \A i \in 1..Len(extra) :
           \E to \in Types, p \in PartsOf(node) : extra[i] = Promotion(to, p)
  PROVE  /\ [nodes EXCEPT ![next].parts = q] \in Seq(NodeSet)
         /\ Rewritten(nodes, [nodes EXCEPT ![next].parts = q] \o extra, next)
<1> DEFINE new == [node EXCEPT !.parts = q]
<1>1. Tree(nodes) /\ node \in NodeSet /\ next \in DOMAIN nodes /\ nodes \in Seq(NodeSet)
      /\ DOMAIN nodes = 1..Len(nodes)
  BY AtNode
<1>2. new \in NodeSet /\ new.kind = node.kind /\ new.op = node.op /\ new.parts = q
  BY <1>1 DEF NodeSet
<1>3. [nodes EXCEPT ![next].parts = q] = [nodes EXCEPT ![next] = new]
  BY <1>1 DEF node
<1> HIDE DEF new
<1>4. [nodes EXCEPT ![next] = new] \in Seq(NodeSet) BY <1>1, <1>2, ExceptSeq
<1>5. /\ new.kind = nodes[next].kind /\ new.op = nodes[next].op
      /\ nodes[next].kind \in {"unary", "binary"}
      /\ DOMAIN new.parts = DOMAIN nodes[next].parts
      /\ \A i \in DOMAIN nodes[next].parts :
           \/ new.parts[i] = nodes[next].parts[i]
           \/ \E j \in 1..Len(extra) :
                new.parts[i] = Len(nodes) + j /\ extra[j].parts = <<nodes[next].parts[i]>>
      /\ \A i \in 1..Len(extra) :
           \E to \in Types, p \in PartsOf(nodes[next]) : extra[i] = Promotion(to, p)
  BY <1>2 DEF node
<1>6. Rewritten(nodes, [nodes EXCEPT ![next] = new] \o extra, next)
  BY <1>1, <1>2, <1>5, RewriteIs DEF Literals
<1> QED BY <1>3, <1>4, <1>6

LEMMA UnaryAnalysed ==
  ASSUME IInv, AnalyseUnary
  PROVE  AnalyserMoves
<1> DEFINE operand == node.parts[1]  int32 == Builtin("INT32")
           promotion == Promotion(Promote(operand, int32), operand)
           w == [nodes EXCEPT ![next].parts = <<NewNode>>]
<1>1. phase = "analyse" /\ next <= Original /\ node.kind = "unary"
  BY DEF AnalyseUnary, Analyse, node
<1>2. \/ Analysed(WithPrecision(TypeOf(operand)), 0)
      \/ Analysed(Append(w, promotion), Errors(operand, int32))
      \/ Analysed(nodes, 0)
  BY DEF AnalyseUnary
<1>3. /\ Len(nodes) \in Nat /\ Len(node.parts) = 1 /\ node.parts \in Seq(Nat)
      /\ \A i \in DOMAIN node.parts : node.parts[i] \in DOMAIN nodes
      /\ \A n \in DOMAIN nodes : TypeOf(n) \in Types /\ n \in Nat
  BY <1>1, AtNode DEF Formed, Single
<1>4. DOMAIN node.parts = {1} /\ operand \in DOMAIN nodes /\ operand \in Nat
      /\ operand \in PartsOf(node)
  <2>1. DOMAIN node.parts = 1..1 BY <1>3, LenProperties
  <2> QED BY <1>3, <2>1 DEF PartsOf
<1>5. CASE Analysed(WithPrecision(TypeOf(operand)), 0)
  <2>1. Rewritten(nodes, WithPrecision(TypeOf(operand)), next)
    BY <1>1, <1>3, <1>4, PrecisionWritten DEF Literals
  <2> QED BY <1>1, <1>5, <2>1, AnalyserMove
<1>6. CASE Analysed(Append(w, promotion), Errors(operand, int32))
  <2>1. Promote(operand, int32) \in Types
    BY <1>3, <1>4, KindsAre, PromoteTyped DEF Promote
  <2>2. promotion \in NodeSet BY <1>4, <2>1, PromotionTyped
  <2>3. \E to \in Types, p \in PartsOf(node) : promotion = Promotion(to, p)
    BY <1>4, <2>1
  <2>12. promotion.parts = <<node.parts[1]>> BY DEF Promotion, Node
  <2> HIDE DEF promotion
  <2> DEFINE extra == <<promotion>>  q == <<NewNode>>
  <2>4. extra \in Seq(NodeSet) /\ Len(extra) = 1 /\ extra[1] = promotion BY <2>2
  <2>5. q \in Seq(Nat) /\ DOMAIN q = {1} /\ q[1] = Len(nodes) + 1
    BY <1>3 DEF NewNode
  <2>6. w = [nodes EXCEPT ![next].parts = q] OBVIOUS
  <2> HIDE DEF extra, q, w
  <2>7. \A i \in DOMAIN node.parts :
          \E j \in 1..Len(extra) : q[i] = Len(nodes) + j /\ extra[j].parts = <<node.parts[i]>>
    BY <1>3, <1>4, <2>4, <2>5, <2>12
  <2>8. \A i \in 1..Len(extra) :
          \E to \in Types, p \in PartsOf(node) : extra[i] = Promotion(to, p)
    BY <2>3, <2>4
  <2>9. w \in Seq(NodeSet) /\ Rewritten(nodes, w \o extra, next)
    BY <1>1, <1>4, <2>4, <2>5, <2>6, <2>7, <2>8, PartsExchanged
  <2>10. Append(w, promotion) = w \o extra BY <2>2, <2>9, AppendIsConcat DEF extra
  <2>11. Errors(operand, int32) \in Nat BY DEF Errors
  <2> QED BY <1>1, <1>6, <2>9, <2>10, <2>11, AnalyserMove
<1>7. CASE Analysed(nodes, 0) BY <1>1, <1>7, AnalyserMove
<1> QED BY <1>2, <1>5, <1>6, <1>7

LEMMA ComparisonAnalysed ==
  ASSUME IInv, AnalyseComparison
  PROVE  AnalyserMoves
<1> DEFINE l == node.parts[1]  r == node.parts[2]  left == TypeOf(l)  right == TypeOf(r)
           back == Promote(r, left)
           toRight == Promotion(Promote(l, right), l)
           second == <<Promotion(right, r), Promotion(back, l)>>
           u == [nodes EXCEPT ![next].parts = <<NewNode, r>>]
           w == [nodes EXCEPT ![next].parts = <<NewNode + 1, NewNode>>]
<1>1. phase = "analyse" /\ next <= Original /\ node.kind = "binary"
  BY DEF AnalyseComparison, Analyse, node
<1>2. \/ Analysed(nodes, 0)
      \/ Analysed(Append(u, toRight), 0)
      \/ \E errors \in {0, 1} : Analysed(w \o second, errors)
  BY DEF AnalyseComparison
<1>3. /\ Len(nodes) \in Nat /\ Len(node.parts) = 2 /\ node.parts \in Seq(Nat)
      /\ \A i \in DOMAIN node.parts : node.parts[i] \in DOMAIN nodes
      /\ \A n \in DOMAIN nodes : TypeOf(n) \in Types /\ n \in Nat
  BY <1>1, AtNode DEF Formed
<1>4. DOMAIN node.parts = {1, 2}
  BY <1>3, LenProperties
<1>5. /\ l \in DOMAIN nodes /\ l \in Nat /\ r \in DOMAIN nodes /\ r \in Nat
      /\ left \in Types /\ right \in Types /\ {l, r} \subseteq PartsOf(node)
  BY <1>3, <1>4 DEF PartsOf
<1>6. Promote(l, right) \in Types /\ back \in Types
  BY <1>5, PromoteTyped DEF Promote
<1>7. CASE Analysed(nodes, 0) BY <1>1, <1>7, AnalyserMove
<1>8. CASE Analysed(Append(u, toRight), 0)
  <2>1. toRight \in NodeSet BY <1>5, <1>6, PromotionTyped
  <2>2. \E to \in Types, p \in PartsOf(node) : toRight = Promotion(to, p) BY <1>5, <1>6
  <2>10. toRight.parts = <<node.parts[1]>> BY DEF Promotion, Node
  <2> DEFINE extra == <<toRight>>  q == <<NewNode, r>>
  <2> HIDE DEF toRight
  <2>3. extra \in Seq(NodeSet) /\ Len(extra) = 1 /\ extra[1] = toRight BY <2>1
  <2>4. q \in Seq(Nat) /\ DOMAIN q = {1, 2} /\ q[1] = Len(nodes) + 1 /\ q[2] = node.parts[2]
    <3>1. NewNode \in Nat /\ NewNode = Len(nodes) + 1 BY <1>3 DEF NewNode
    <3> QED BY <1>5, <3>1
  <2>5. u = [nodes EXCEPT ![next].parts = q] OBVIOUS
  <2> HIDE DEF extra, q, u
  <2>6. \A i \in DOMAIN node.parts :
          \/ q[i] = node.parts[i]
          \/ \E j \in 1..Len(extra) : q[i] = Len(nodes) + j /\ extra[j].parts = <<node.parts[i]>>
    BY <1>3, <1>4, <2>3, <2>4, <2>10
  <2>7. \A i \in 1..Len(extra) :
          \E to \in Types, p \in PartsOf(node) : extra[i] = Promotion(to, p)
    BY <2>2, <2>3
  <2>8. u \in Seq(NodeSet) /\ Rewritten(nodes, u \o extra, next)
    BY <1>1, <1>4, <2>3, <2>4, <2>5, <2>6, <2>7, PartsExchanged
  <2>9. Append(u, toRight) = u \o extra BY <2>1, <2>8, AppendIsConcat DEF extra
  <2> QED BY <1>1, <1>8, <2>8, <2>9, AnalyserMove
<1>9. CASE \E errors \in {0, 1} : Analysed(w \o second, errors)
  <2>1. Promotion(right, r) \in NodeSet /\ Promotion(back, l) \in NodeSet
    BY <1>5, <1>6, PromotionTyped
  <2>2. second \in Seq(NodeSet) /\ Len(second) = 2 BY <2>1
  <2>3. \A i \in 1..Len(second) :
          \E to \in Types, p \in PartsOf(node) : second[i] = Promotion(to, p)
    <3>1. \E to \in Types, p \in PartsOf(node) : second[1] = Promotion(to, p) BY <1>5
    <3>2. \E to \in Types, p \in PartsOf(node) : second[2] = Promotion(to, p) BY <1>5, <1>6
    <3> QED BY <2>2, <3>1, <3>2
  <2>9. second[1].parts = <<node.parts[2]>> /\ second[2].parts = <<node.parts[1]>>
    BY DEF Promotion, Node
  <2> DEFINE q == <<NewNode + 1, NewNode>>
  <2>4. q \in Seq(Nat) /\ DOMAIN q = {1, 2} /\ q[1] = Len(nodes) + 2 /\ q[2] = Len(nodes) + 1
    <3>1. NewNode \in Nat /\ NewNode = Len(nodes) + 1 /\ NewNode + 1 \in Nat
          /\ NewNode + 1 = Len(nodes) + 2
      BY <1>3 DEF NewNode
    <3> QED BY <3>1
  <2>5. w = [nodes EXCEPT ![next].parts = q] OBVIOUS
  <2> HIDE DEF second, q, w
  <2>6. \A i \in DOMAIN node.parts :
          \E j \in 1..Len(second) : q[i] = Len(nodes) + j /\ second[j].parts = <<node.parts[i]>>
    BY <1>3, <1>4, <2>2, <2>4, <2>9
  <2>7. Rewritten(nodes, w \o second, next)
    BY <1>1, <1>4, <2>2, <2>3, <2>4, <2>5, <2>6, PartsExchanged
  <2>8. PICK errors \in {0, 1} : Analysed(w \o second, errors) BY <1>9
  <2> QED BY <1>1, <2>7, <2>8, AnalyserMove
<1> QED BY <1>2, <1>7, <1>8, <1>9

(* The elements of a set of numbers, counted from the smallest: each has a *)
(* number of its own and every number up to the size of the set is one.    *)
LEMMA RankOnto ==
  ASSUME NEW n \in Nat, NEW W \in SUBSET (1..n)
  PROVE  /\ IsFiniteSet(W) /\ Cardinality(W) \in Nat
         /\ \A i \in W : Cardinality({j \in W : j <= i}) \in 1..Cardinality(W)
         /\ \A k \in 1..Cardinality(W) : \E i \in W : Cardinality({j \in W : j <= i}) = k
<1> DEFINE upto(m) == {j \in W : j <= m}
           S == {m \in 0..n : \A k \in 1..Cardinality(upto(m)) :
                                \E i \in W : Cardinality(upto(i)) = k}
<1>0. \A j \in W : j \in 1..n /\ j \in Nat
  OBVIOUS
<1>1. IsFiniteSet(W) /\ Cardinality(W) \in Nat
  <2>1. IsFiniteSet(1..n) BY FS_Interval
  <2> QED BY <2>1, FS_Subset, FS_CardinalityType
<1>2. ASSUME NEW m PROVE /\ IsFiniteSet(upto(m)) /\ Cardinality(upto(m)) \in Nat
                         /\ Cardinality(upto(m)) <= Cardinality(W)
  <2>1. upto(m) \subseteq W OBVIOUS
  <2> QED BY <1>1, <2>1, FS_Subset, FS_CardinalityType
<1>3. 0 \in S
  <2>0. \A j \in W : ~(j <= 0) BY <1>0
  <2>1. upto(0) = {} BY <2>0
  <2>2. Cardinality(upto(0)) = 0 BY <2>1, FS_EmptySet
  <2> HIDE DEF upto
  <2> QED BY <2>2
<1>4. ASSUME NEW m \in 1..n, m - 1 \in S PROVE m \in S
  <2>1. CASE m \notin W
    <3>1. \A j \in W : j <= m <=> j <= m - 1 BY <1>0, <2>1
    <3>2. upto(m) = upto(m - 1) BY <3>1
    <3> QED BY <1>4, <3>2
  <2>2. CASE m \in W
    <3>1. upto(m) = upto(m - 1) \cup {m} /\ m \notin upto(m - 1)
      <4>1. \A j \in W : j <= m <=> (j <= m - 1 \/ j = m) BY <1>0
      <4>2. ~(m <= m - 1) OBVIOUS
      <4> QED BY <2>2, <4>1, <4>2
    <3>2. Cardinality(upto(m)) = Cardinality(upto(m - 1)) + 1
      <4> DEFINE T == upto(m - 1)
      <4>1. IsFiniteSet(T) BY <1>2
      <4> HIDE DEF T
      <4>2. m \notin T => Cardinality(T \cup {m}) = Cardinality(T) + 1
        BY <4>1, FS_AddElement
      <4> QED BY <3>1, <4>2 DEF T
    <3>3. Cardinality(upto(m - 1)) \in Nat BY <1>2
    <3> HIDE DEF upto
    <3>4. ASSUME NEW k \in 1..Cardinality(upto(m)) PROVE \E i \in W : Cardinality(upto(i)) = k
      <4>1. k \in 1..Cardinality(upto(m - 1)) \/ k = Cardinality(upto(m)) BY <3>2, <3>3
      <4> QED BY <1>4, <2>2, <4>1
    <3> QED BY <3>4
  <2> QED BY <2>1, <2>2
<1>5. n \in S
  <2> HIDE DEF S
  <2>1. n \in 0..n OBVIOUS
  <2> QED BY <1>3, <1>4, <2>1, UpTo
<1>6. upto(n) = W
  <2>1. \A j \in W : j <= n BY <1>0
  <2> QED BY <2>1
<1>7. \A k \in 1..Cardinality(W) : \E i \in W : Cardinality(upto(i)) = k
  BY <1>5, <1>6
<1>8. ASSUME NEW i \in W PROVE Cardinality(upto(i)) \in 1..Cardinality(W)
  <2>1. i \in upto(i) BY <1>0
  <2>2. Cardinality(upto(i)) # 0 BY <1>2, <2>1, FS_EmptySet
  <2> QED BY <1>1, <1>2, <2>2
<1> QED BY <1>1, <1>7, <1>8

LEMMA RankOnce ==
  ASSUME NEW n \in Nat, NEW W \in SUBSET (1..n), NEW i \in W
  PROVE  (CHOOSE k \in W : Cardinality({j \in W : j <= k}) = Cardinality({j \in W : j <= i})) = i
<1> DEFINE upto(m) == {j \in W : j <= m}
<1>1. \A j \in W : j \in Nat OBVIOUS
<1>2. IsFiniteSet(W) BY RankOnto
<1>3. ASSUME NEW m PROVE IsFiniteSet(upto(m)) /\ Cardinality(upto(m)) \in Nat
  <2>1. upto(m) \subseteq W OBVIOUS
  <2> QED BY <1>2, <2>1, FS_Subset, FS_CardinalityType
<1>4. ASSUME NEW a \in W, NEW b \in W, a < b
      PROVE  Cardinality(upto(a)) # Cardinality(upto(b))
  <2>1. upto(a) \subseteq upto(b)
    <3>1. a \in Nat /\ b \in Nat BY <1>1
    <3>2. ASSUME NEW j \in W, j <= a PROVE j <= b
      <4>1. j \in Nat BY <1>1
      <4> QED BY <1>4, <3>1, <3>2, <4>1
    <3> QED BY <3>2
  <2>2. b \in upto(b) /\ b \notin upto(a) BY <1>1, <1>4
  <2> DEFINE A == upto(a)  B == upto(b)
  <2>3. IsFiniteSet(A) /\ IsFiniteSet(B) BY <1>3
  <2>4. A \subseteq B /\ A # B BY <2>1, <2>2
  <2> HIDE DEF A, B
  <2>5. Cardinality(A) < Cardinality(B) /\ Cardinality(A) \in Nat /\ Cardinality(B) \in Nat
    BY <2>3, <2>4, FS_Subset, FS_CardinalityType
  <2>6. Cardinality(A) # Cardinality(B) BY <2>5
  <2> QED BY <2>6 DEF A, B
<1> HIDE DEF upto
<1>5. ASSUME NEW k \in W, Cardinality(upto(k)) = Cardinality(upto(i)) PROVE k = i
  <2>1. k < i \/ i < k \/ k = i BY <1>1
  <2> QED BY <1>4, <1>5, <2>1
<1> DEFINE c == CHOOSE k \in W : Cardinality(upto(k)) = Cardinality(upto(i))
<1>6. c \in W /\ Cardinality(upto(c)) = Cardinality(upto(i)) OBVIOUS
<1>7. c = i BY <1>5, <1>6
<1> QED BY <1>7 DEF upto

(* A call gets the type of the function, and promotions of its arguments.  *)
LEMMA CallWritten ==
  ASSUME IInv, AnalyseCall
  PROVE  \E new \in NodeSet, extra \in Seq(NodeSet), errors \in Nat :
           /\ Analysed([nodes EXCEPT ![next] = new] \o extra, errors)
           /\ Rewritten(nodes, [nodes EXCEPT ![next] = new] \o extra, next)
           /\ new.precision = Functions[node.op].retType /\ new.slot = node.op
<1> DEFINE f == Functions[node.op]  args == node.parts
           checked == IF Len(args) < Len(f.paramType) THEN DOMAIN args ELSE DOMAIN f.paramType
           wrapped == {i \in checked : Differs(args[i], f.paramType[i])}
           rank(i) == Cardinality({j \in wrapped : j <= i})
           at(k)   == CHOOSE i \in wrapped : rank(i) = k
           q == [i \in DOMAIN args |-> IF i \in wrapped THEN Len(nodes) + rank(i) ELSE args[i]]
           C == Cardinality(wrapped)
           extra == [k \in 1..C |->
                       Promotion(Promote(args[at(k)], f.paramType[at(k)]), args[at(k)])]
           refused == {i \in wrapped : Refused(args[i], f.paramType[i])}
           errors == (IF Len(args) # Len(f.paramType) THEN 1 ELSE 0) + Cardinality(refused)
           w == [nodes EXCEPT ![next].precision = f.retType, ![next].slot = node.op,
                              ![next].parts = q]
           new == [node EXCEPT !.precision = f.retType, !.slot = node.op, !.parts = q]
<1>1. phase = "analyse" /\ next <= Original /\ node.kind = "call" /\ Analysed(w \o extra, errors)
  BY DEF AnalyseCall, Analyse, node
<1>2. /\ Tree(nodes) /\ node \in NodeSet /\ next \in DOMAIN nodes /\ nodes \in Seq(NodeSet)
      /\ Len(nodes) \in Nat /\ DOMAIN nodes = 1..Len(nodes)
      /\ args \in Seq(Nat) /\ node.op \in DOMAIN Functions
      /\ \A i \in DOMAIN args : args[i] \in DOMAIN nodes
      /\ \A n \in DOMAIN nodes : TypeOf(n) \in Types /\ n \in Nat
  <2>1. node.op \in DOMAIN Functions
    <3>1. Formed(node) BY <1>1, AtNode
    <3> QED BY <1>1, <3>1 DEF Formed
  <2>2. \A n \in DOMAIN nodes : TypeOf(n) \in Types /\ n \in Nat
    <3>1. \A n \in DOMAIN nodes : TypeOf(n) \in Types BY <1>1, AtNode
    <3>2. DOMAIN nodes = 1..Len(nodes) BY <1>1, AtNode
    <3>3. \A n \in 1..Len(nodes) : n \in Nat OBVIOUS
    <3> QED BY <3>1, <3>2, <3>3
  <2>3. \A i \in DOMAIN args : args[i] \in DOMAIN nodes
    BY <1>1, AtNode
  <2> QED BY <1>1, <2>1, <2>2, <2>3, AtNode
<1>3. f.paramType \in Seq(Types) /\ f.retType \in Types /\ node.op \in OpNames
  BY <1>2, ExpressionsAssumption, TypesAre, NamesAre
<1>4. /\ Len(args) \in Nat /\ DOMAIN args = 1..Len(args)
      /\ Len(f.paramType) \in Nat /\ DOMAIN f.paramType = 1..Len(f.paramType)
      /\ \A i \in DOMAIN f.paramType : f.paramType[i] \in Types
  BY <1>2, <1>3, LenProperties, ElementOfSeq
<1>5. checked \subseteq 1..Len(args) /\ checked \subseteq DOMAIN f.paramType
  BY <1>4
<1> HIDE DEF f, args, checked
<1>6. wrapped \in SUBSET (1..Len(args)) /\ wrapped \subseteq DOMAIN f.paramType
  BY <1>5
<1> HIDE DEF wrapped
<1>7. /\ IsFiniteSet(wrapped) /\ C \in Nat
      /\ \A i \in wrapped : rank(i) \in 1..C
      /\ \A k \in 1..C : \E i \in wrapped : rank(i) = k
  BY <1>4, <1>6, RankOnto
<1>8. ASSUME NEW k \in 1..C PROVE at(k) \in wrapped
  BY <1>7
<1>9. refused \subseteq wrapped BY Zenon
<1>10. errors \in Nat
  <2>1. Cardinality(refused) \in Nat
    <3> HIDE DEF refused
    <3> QED BY <1>7, <1>9, FS_Subset, FS_CardinalityType
  <2> HIDE DEF refused
  <2> QED BY <2>1
<1>17. ASSUME NEW i \in wrapped PROVE at(rank(i)) = i
  BY <1>6, <1>17, RankOnce
<1> HIDE DEF rank, at, C, errors
<1>16. ASSUME NEW i \in wrapped PROVE extra[rank(i)].parts = <<args[i]>>
  <2>1. rank(i) \in 1..C /\ at(rank(i)) = i BY <1>7, <1>17
  <2>2. extra[rank(i)] = Promotion(Promote(args[at(rank(i))], f.paramType[at(rank(i))]),
                                   args[at(rank(i))])
    BY <2>1
  <2> DEFINE to == Promote(args[i], f.paramType[i])  x == args[i]
  <2> HIDE DEF extra
  <2>3. extra[rank(i)] = Promotion(to, x) BY <2>1, <2>2
  <2> HIDE DEF to, x
  <2>4. Promotion(to, x).parts = <<x>> BY DEF Promotion, Node
  <2> QED BY <2>3, <2>4 DEF x
<1>11. extra \in Seq(NodeSet) /\ Len(extra) = C
       /\ \A i \in 1..Len(extra) :
          \E to \in Types, p \in PartsOf(node) : extra[i] = Promotion(to, p)
  <2>1. ASSUME NEW k \in 1..C
        PROVE  /\ extra[k] \in NodeSet
               /\ \E to \in Types, p \in PartsOf(node) : extra[k] = Promotion(to, p)
    <3> DEFINE p == args[at(k)]  to == Promote(p, f.paramType[at(k)])
    <3>1. p \in DOMAIN nodes /\ p \in Nat /\ f.paramType[at(k)] \in Types
      BY <1>2, <1>4, <1>6, <1>8
    <3>5. p \in PartsOf(node) BY <1>4, <1>6, <1>8 DEF PartsOf, args
    <3>2. to \in Types BY <1>2, <3>1, PromoteTyped DEF Promote
    <3>3. extra[k] = Promotion(to, p) OBVIOUS
    <3> HIDE DEF p, to, extra
    <3>4. Promotion(to, p) \in NodeSet BY <3>1, <3>2, PromotionTyped
    <3> QED BY <3>2, <3>3, <3>4, <3>5
  <2>2. DOMAIN extra = 1..C OBVIOUS
  <2>3. extra \in [1..C -> NodeSet]
    <3>1. extra = [k \in 1..C |-> extra[k]] OBVIOUS
    <3> HIDE DEF extra
    <3> QED BY <2>1, <3>1
  <2> HIDE DEF extra
  <2>4. extra \in Seq(NodeSet) /\ Len(extra) = C BY <1>7, <2>3, SeqDef
  <2> QED BY <2>1, <2>4
<1> HIDE DEF extra
<1>12. /\ q \in Seq(Nat) /\ DOMAIN q = DOMAIN args
       /\ \A i \in DOMAIN args :
            \/ q[i] = args[i]
            \/ \E j \in 1..C : q[i] = Len(nodes) + j /\ extra[j].parts = <<args[i]>>
  <2>1. ASSUME NEW i \in DOMAIN args
        PROVE  /\ q[i] \in Nat
               /\ \/ q[i] = args[i]
                  \/ \E j \in 1..C : q[i] = Len(nodes) + j /\ extra[j].parts = <<args[i]>>
    <3>1. CASE i \in wrapped
      <4>1. rank(i) \in 1..C /\ q[i] = Len(nodes) + rank(i) BY <1>7, <3>1
      <4>2. extra[rank(i)].parts = <<args[i]>> BY <1>16, <3>1
      <4>3. Len(nodes) + rank(i) \in Nat BY <1>2, <4>1
      <4> QED BY <4>1, <4>2, <4>3
    <3>2. CASE i \notin wrapped
      <4>1. args[i] \in Nat BY <1>2
      <4> QED BY <3>2, <4>1
    <3> QED BY <3>1, <3>2
  <2>2. q = [i \in DOMAIN args |-> q[i]] OBVIOUS
  <2> HIDE DEF q
  <2>3. q \in [1..Len(args) -> Nat] BY <1>4, <2>1, <2>2
  <2>4. q \in Seq(Nat) BY <1>4, <2>3, SeqDef
  <2> QED BY <2>1, <2>2, <2>4
<1> HIDE DEF q
<1>13. /\ new \in NodeSet /\ new.kind = node.kind /\ new.op = node.op /\ new.parts = q
       /\ new.precision = f.retType /\ new.slot = node.op
  BY <1>2, <1>3, <1>12 DEF NodeSet
<1>14. w = [nodes EXCEPT ![next] = new]
  BY <1>2 DEF node
<1> HIDE DEF new, w
<1>15. Rewritten(nodes, [nodes EXCEPT ![next] = new] \o extra, next)
  <2>1. /\ new.kind = nodes[next].kind /\ new.op = nodes[next].op /\ nodes[next].kind = "call"
        /\ DOMAIN new.parts = DOMAIN nodes[next].parts
        /\ \A i \in DOMAIN nodes[next].parts :
             \/ new.parts[i] = nodes[next].parts[i]
             \/ \E j \in 1..Len(extra) :
                  new.parts[i] = Len(nodes) + j /\ extra[j].parts = <<nodes[next].parts[i]>>
        /\ \A i \in 1..Len(extra) :
             \E to \in Types, p \in PartsOf(nodes[next]) : extra[i] = Promotion(to, p)
    BY <1>1, <1>11, <1>12, <1>13 DEF node, args
  <2> QED BY <1>2, <1>11, <1>13, <2>1, RewriteIs DEF Literals
<1> QED BY <1>1, <1>10, <1>11, <1>13, <1>14, <1>15 DEF f

LEMMA CallAnalysed ==
  ASSUME IInv, AnalyseCall
  PROVE  AnalyserMoves
<1>1. PICK new \in NodeSet, extra \in Seq(NodeSet), errors \in Nat :
        /\ Analysed([nodes EXCEPT ![next] = new] \o extra, errors)
        /\ Rewritten(nodes, [nodes EXCEPT ![next] = new] \o extra, next)
  BY CallWritten
<1>2. phase = "analyse" /\ next <= Original BY DEF AnalyseCall, Analyse
<1> QED BY <1>1, <1>2, AnalyserMove

(* The promotion to the type of the variable is the last node (Convert).   *)
LEMMA PromotionAdded ==
  ASSUME NEW t, Tree(t), NEW to \in Types, NEW p \in DOMAIN t
  PROVE  /\ Tree(Append(t, Promotion(to, p)))
         /\ Len(t) \in Nat /\ DOMAIN t = 1..Len(t)
         /\ DOMAIN Append(t, Promotion(to, p)) = 1..(Len(t) + 1)
<1> DEFINE new == Promotion(to, p)
<1>1. t \in Seq(NodeSet) BY DEF Tree, Shaped
<1>2. Len(t) \in Nat /\ DOMAIN t = 1..Len(t) BY <1>1, LenProperties
<1>3. p \in Nat BY <1>2
<1>4. new \in NodeSet BY <1>3, PromotionTyped
<1>5. new.kind = "promotion" /\ new.parts = <<p>> BY DEF Promotion, Node
<1>6. Formed(new) BY PromotionIs
<1> HIDE DEF new
<1>7. MemberOf(t, new) BY <1>5 DEF MemberOf
<1>8. \A i \in DOMAIN new.parts : new.parts[i] \in DOMAIN t BY <1>5
<1>9. Tree(Append(t, new)) /\ DOMAIN Append(t, new) = 1..(Len(t) + 1)
  BY <1>4, <1>6, <1>7, <1>8, ParserAdds
<1> QED BY <1>2, <1>9 DEF new

LEMMA Converted ==
  ASSUME IInv, Convert
  PROVE  IInv'
<1> DEFINE to == Variables[target]
<1>1. NodesInv /\ CallsInv /\ TempsInv BY DEF IInv
<1>2. /\ phase = "analyse"
      /\ \/ /\ nodes' = Append(nodes, Promotion(Promote(root, to), root))
            /\ root' = NewNode
         \/ UNCHANGED <<nodes, root>>
      /\ errorNumber' = errorNumber + Errors(root, to)
      /\ phase' = IF errorNumber' # 0 THEN "refused"
                  ELSE IF Throws(to) THEN "threw" ELSE "translate"
      /\ pending' = IF errorNumber' = 0 THEN <<[node |-> root', vals |-> <<>>]>> ELSE <<>>
      /\ UNCHANGED <<operands, target, next, tempCounter, code>>
  BY DEF Convert
<1>3. /\ Tree(nodes) /\ target \in DOMAIN Variables /\ errorNumber \in Nat
      /\ root \in DOMAIN nodes /\ Len(operands) = 1
  BY <1>1, <1>2 DEF NodesInv
<1>4. to \in Types BY <1>3, TypesAre
<1>5. Promote(root, to) \in Types
  <2>1. Shaped(nodes) /\ Members(nodes) BY <1>3 DEF Tree
  <2>2. TypeOf(root) \in Types BY <1>3, <2>1, PrecisionTyped, PrecisionIsRule DEF TypeOf
  <2> QED BY <1>4, <2>2, PromoteTyped DEF Promote
<1> HIDE DEF to
<1>6. /\ Tree(nodes') /\ root' \in DOMAIN nodes' /\ DOMAIN nodes \subseteq DOMAIN nodes'
      /\ root' \in Nat
  <2>1. Len(nodes) \in Nat /\ DOMAIN nodes = 1..Len(nodes) BY <1>3, <1>4, PromotionAdded
  <2>2. CASE nodes' = Append(nodes, Promotion(Promote(root, to), root)) /\ root' = NewNode
    <3>1. Tree(nodes') /\ DOMAIN nodes' = 1..(Len(nodes) + 1)
      BY <1>3, <1>5, <2>2, PromotionAdded
    <3>2. root' = Len(nodes) + 1 BY <2>2 DEF NewNode
    <3> QED BY <2>1, <3>1, <3>2
  <2>3. CASE UNCHANGED <<nodes, root>> BY <1>3, <2>1, <2>3
  <2> QED BY <1>2, <2>2, <2>3
<1>7. errorNumber' \in Nat
  <2>1. Errors(root, to) \in Nat BY DEF Errors
  <2> QED BY <1>2, <1>3, <2>1
<1>8. NodesInv'
  <2>1. \A i \in DOMAIN operands : operands[i] \in DOMAIN nodes' BY <1>1, <1>6 DEF NodesInv
  <2>2. phase' \in {"translate", "refused", "threw"} /\ (phase' = "translate" => ~Throws(to))
    BY <1>2
  <2> QED BY <1>1, <1>2, <1>3, <1>6, <1>7, <2>1, <2>2 DEF NodesInv, to, Throws
<1>9. pending = <<>> /\ code = <<>> BY <1>1, <1>2 DEF CallsInv
<1> DEFINE first == [node |-> root', vals |-> <<>>]
<1>10. first \in Calls /\ first.node = root' /\ first.vals = <<>> BY <1>6, EmptySeq DEF Calls
<1>11. \/ pending' = <<first>> /\ phase' \in {"translate", "threw"}
       \/ pending' = <<>> /\ phase' = "refused"
  BY <1>2
<1> HIDE DEF first
<1>12. CallsInv'
  <2>1. CASE pending' = <<first>> /\ phase' \in {"translate", "threw"}
    <3>1. pending' \in Seq(Calls) /\ DOMAIN pending' = {1} /\ pending'[1] = first /\ Len(pending') = 1
      BY <1>10, <2>1
    <3>2. nodes'[root'].parts \in Seq(Nat)
      <4>1. nodes'[root'] \in NodeSet BY <1>6, PartsBelow DEF Tree
      <4> QED BY <4>1 DEF NodeSet
    <3>3. Len(nodes'[root'].parts) \in Nat BY <3>2, LenProperties
    <3>4. Len(first.vals) = 0 BY <1>10, EmptySeq
    <3>5. Len(first.vals) <= Len(nodes'[root'].parts) BY <3>3, <3>4
    <3> QED BY <1>6, <1>10, <2>1, <3>1, <3>5 DEF CallsInv
  <2>2. CASE pending' = <<>> /\ phase' = "refused"
    <3>1. pending' \in Seq(Calls) /\ DOMAIN pending' = {} BY <2>2, EmptySeq
    <3> QED BY <1>2, <1>9, <2>2, <3>1 DEF CallsInv
  <2> QED BY <1>11, <2>1, <2>2
<1>13. TempsInv'
  <2>1. code' = <<>> /\ DOMAIN code' = {} /\ code' \in Seq(Instructions) BY <1>2, <1>9, EmptySeq
  <2>2. phase' # "done" BY <1>11
  <2>3. tempCounter' = Len(code') /\ tempCounter' \in Nat
    BY <1>1, <1>2 DEF TempsInv
  <2>4. \A i \in DOMAIN pending' : DOMAIN pending'[i].vals = {}
    <3>1. CASE pending' = <<first>>
      <4>1. DOMAIN pending' = {1} /\ pending'[1] = first BY <3>1
      <4> QED BY <1>10, <4>1, EmptySeq
    <3>2. CASE pending' = <<>> BY <3>2, EmptySeq
    <3> QED BY <1>11, <3>1, <3>2
  <2>5. Evaluated(code', pending')
    BY <2>1, <2>4 DEF Evaluated, Numbered, ReadsWritten, HoldsWritten, ResultsUsedOnce
  <2> QED BY <2>1, <2>2, <2>3, <2>5 DEF TempsInv
<1> QED BY <1>8, <1>12, <1>13 DEF IInv

-----------------------------------------------------------------------------
(***************************************************************************)
(* The translator.                                                         *)
(***************************************************************************)
LEMMA IRTyped ==
  ASSUME NEW t \in Types, ~Throws(t)
  PROVE  toIRType(t) \in IRTypes
<1>1. t.kind \in Kinds \ {"ENUM"} BY TypesAre DEF Throws
<1> QED BY <1>1 DEF toIRType, IRTypes, Kinds

LEMMA ValTyped ==
  ASSUME NEW class \in {"TEMP", "VAR", "CONST"}, NEW type \in IRTypes, NEW id \in OpNames
  PROVE  /\ Val(class, type, id) \in Values /\ Val(class, type, id).class = class
BY DEF Val, Values

(* Where the translator is.                                                *)
LEMMA AtCall ==
  ASSUME IInv, phase = "translate", pending # <<>>
  PROVE  /\ pending \in Seq(Calls) /\ Len(pending) \in Nat \ {0}
         /\ DOMAIN pending = 1..Len(pending)
         /\ Call \in Calls /\ Call.node \in DOMAIN nodes /\ Call.vals \in Seq(Values)
         /\ here \in NodeSet /\ Formed(here) /\ here.parts \in Seq(Nat)
         /\ \A i \in DOMAIN here.parts : here.parts[i] \in DOMAIN nodes /\ here.parts[i] \in Nat
         /\ Len(Call.vals) \in Nat /\ Len(here.parts) \in Nat /\ Len(Call.vals) <= Len(here.parts)
         /\ Callers \in Seq(Calls) /\ Len(Callers) = Len(pending) - 1
         /\ \A k \in DOMAIN Callers :
              /\ Callers[k].node \in DOMAIN nodes
              /\ Len(Callers[k].vals) < Len(nodes[Callers[k].node].parts)
         /\ code \in Seq(Instructions) /\ Evaluated(code, pending) /\ tempCounter = Len(code)
         /\ target \in DOMAIN Variables /\ ~Throws(Variables[target])
<1>1. NodesInv /\ CallsInv /\ TempsInv BY DEF IInv
<1>2. pending \in Seq(Calls) BY <1>1 DEF CallsInv
<1>3. /\ Len(pending) \in Nat \ {0} /\ DOMAIN pending = 1..Len(pending) /\ Call \in Calls
      /\ Callers \in Seq(Calls) /\ Len(Callers) = Len(pending) - 1
      /\ DOMAIN Callers = 1..(Len(pending) - 1)
      /\ \A k \in DOMAIN Callers : Callers[k] = pending[k]
  BY <1>2, FrontIs DEF Callers, Call
<1>4. Call.node \in DOMAIN nodes /\ Len(Call.vals) <= Len(here.parts)
  BY <1>1, <1>3 DEF CallsInv, Call, here
<1>5. Call.vals \in Seq(Values) BY <1>3 DEF Calls
<1>6. Tree(nodes) /\ Shaped(nodes) BY <1>1 DEF NodesInv, Tree
<1>7. here \in NodeSet /\ Formed(here) /\ \A i \in DOMAIN here.parts : Below(nodes, here.parts[i], Call.node)
  BY <1>4, <1>6, PartsBelow DEF Shaped, here
<1>8. here.parts \in Seq(Nat) BY <1>7 DEF NodeSet
<1>9. ASSUME NEW i \in DOMAIN here.parts
      PROVE  here.parts[i] \in DOMAIN nodes /\ here.parts[i] \in Nat
  <2>1. here.parts[i] \in DOMAIN nodes BY <1>7 DEF Below
  <2>2. DOMAIN nodes = 1..Len(nodes) /\ Len(nodes) \in Nat BY <1>1, OperandsAre
  <2> QED BY <2>1, <2>2
<1>10. Len(Call.vals) \in Nat /\ Len(here.parts) \in Nat BY <1>5, <1>8, LenProperties
<1>11. ASSUME NEW k \in DOMAIN Callers
       PROVE  /\ Callers[k].node \in DOMAIN nodes
              /\ Len(Callers[k].vals) < Len(nodes[Callers[k].node].parts)
  <2>1. k \in DOMAIN pending /\ k < Len(pending) /\ Callers[k] = pending[k] BY <1>3
  <2> QED BY <1>1, <2>1 DEF CallsInv
<1>12. /\ code \in Seq(Instructions) /\ Evaluated(code, pending) /\ tempCounter = Len(code)
       /\ target \in DOMAIN Variables /\ ~Throws(Variables[target])
  BY <1>1 DEF NodesInv, TempsInv
<1> QED BY <1>2, <1>3, <1>4, <1>5, <1>7, <1>8, <1>9, <1>10, <1>11, <1>12

LEMMA PartsCounted ==
  ASSUME IInv, NEW n \in DOMAIN nodes
  PROVE  Len(nodes[n].parts) \in Nat
<1>1. NodesInv BY DEF IInv
<1>2. nodes[n].parts \in Seq(Nat) BY <1>1, OperandsAre DEF NodeSet
<1> QED BY <1>2, LenProperties

(* Nothing changes but the calls, the instructions and the counter.        *)
LEMMA NodesStay ==
  ASSUME IInv, phase = "translate", phase' \in {"translate", "done", "threw"},
         UNCHANGED <<nodes, operands, target, root, next, errorNumber>>
  PROVE  NodesInv'
BY DEF IInv, NodesInv, Throws

LEMMA Thrown ==
  ASSUME IInv, phase = "translate", Throw
  PROVE  IInv'
<1>1. /\ phase' = "threw"
      /\ UNCHANGED <<nodes, operands, target, root, next, errorNumber, pending, tempCounter, code>>
  BY DEF Throw
<1>2. NodesInv' BY <1>1, NodesStay
<1>3. CallsInv' BY <1>1 DEF IInv, CallsInv
<1>4. TempsInv' BY <1>1 DEF IInv, TempsInv
<1> QED BY <1>2, <1>3, <1>4 DEF IInv

LEMMA OperandTranslated ==
  ASSUME IInv, TranslateOperand
  PROVE  IInv'
<1> DEFINE i == Len(Call.vals) + 1  x == [node |-> here.parts[i], vals |-> <<>>]
<1>1. /\ phase = "translate" /\ pending # <<>> /\ Len(Call.vals) < Len(here.parts)
      /\ pending' = Append(pending, x)
      /\ UNCHANGED <<nodes, operands, target, root, phase, next, errorNumber, tempCounter, code>>
  BY DEF TranslateOperand
<1>2. /\ pending \in Seq(Calls) /\ Len(pending) \in Nat \ {0}
      /\ DOMAIN pending = 1..Len(pending)
      /\ Evaluated(code, pending) /\ code \in Seq(Instructions) /\ tempCounter = Len(code)
  BY <1>1, AtCall
<1>3. here.parts[i] \in DOMAIN nodes /\ here.parts[i] \in Nat
  <2>1. Len(Call.vals) \in Nat /\ Len(here.parts) \in Nat BY <1>1, AtCall
  <2>2. i \in 1..Len(here.parts) BY <1>1, <2>1
  <2>3. DOMAIN here.parts = 1..Len(here.parts) BY <1>1, AtCall, LenProperties
  <2> HIDE DEF i
  <2> QED BY <1>1, <2>2, <2>3, AtCall
<1>4. x \in Calls /\ x.vals = <<>> /\ x.node \in DOMAIN nodes BY <1>3, EmptySeq DEF Calls
<1>5. CallsInv
  BY DEF IInv
<1>6. Len(nodes[x.node].parts) \in Nat BY <1>4, PartsCounted
<1>7. Call = pending[Len(pending)] /\ here = nodes[Call.node] BY DEF Call, here
<1> HIDE DEF x, i
<1>8. /\ pending' \in Seq(Calls) /\ Len(pending') = Len(pending) + 1
      /\ DOMAIN pending' = 1..(Len(pending) + 1)
      /\ pending'[Len(pending) + 1] = x
      /\ \A k \in 1..Len(pending) : pending'[k] = pending[k]
  BY <1>1, <1>2, <1>4, AppendProperties, LenProperties
<1>9. CallsInv'
  <2>1. ASSUME NEW k \in 1..(Len(pending) + 1)
        PROVE  /\ pending'[k].node \in DOMAIN nodes
               /\ Len(pending'[k].vals) <= Len(nodes[pending'[k].node].parts)
               /\ k < Len(pending') => Len(pending'[k].vals) < Len(nodes[pending'[k].node].parts)
    <3>1. CASE k = Len(pending) + 1
      <4>1. pending'[k] = x /\ Len(x.vals) = 0 BY <1>4, <1>8, <3>1, EmptySeq
      <4>2. ~(k < Len(pending')) BY <1>2, <1>8, <3>1
      <4> QED BY <1>4, <1>6, <4>1, <4>2
    <3>2. CASE k \in 1..Len(pending)
      <4>1. pending'[k] = pending[k] BY <1>8, <3>2
      <4>2. /\ pending[k].node \in DOMAIN nodes
            /\ Len(pending[k].vals) <= Len(nodes[pending[k].node].parts)
            /\ k < Len(pending) => Len(pending[k].vals) < Len(nodes[pending[k].node].parts)
        BY <1>2, <1>5, <3>2 DEF CallsInv
      <4>3. k < Len(pending) \/ k = Len(pending)
        <5> DEFINE n == Len(pending)
        <5>1. n \in Nat /\ k \in 1..n BY <1>2, <3>2
        <5> HIDE DEF n
        <5>2. k < n \/ k = n BY <5>1
        <5> QED BY <5>2 DEF n
      <4>4. k = Len(pending) => Len(pending[k].vals) < Len(nodes[pending[k].node].parts)
        BY <1>1, <1>7
      <4> QED BY <4>1, <4>2, <4>3, <4>4
    <3> QED BY <1>2, <3>1, <3>2
  <2> QED BY <1>1, <1>8, <2>1 DEF CallsInv
<1>10. NodesInv' BY <1>1, NodesStay
<1>11. Evaluated(code, Append(pending, x)) BY <1>2, <1>4, OperandBegun
<1>12. TempsInv' BY <1>1, <1>2, <1>11 DEF TempsInv, IInv
<1> QED BY <1>9, <1>10, <1>12 DEF IInv

(* A call returns v: the instructions it emits are in c already.           *)
LEMMA CallReturns ==
  ASSUME IInv, phase = "translate", pending # <<>>,
         NEW v \in Values, NEW instrs, NEW c \in Seq(Instructions),
         c = code \o instrs, Returned(c, Callers, v),
         Returns(v, instrs), tempCounter' = Len(c)
  PROVE  IInv'
<1>1. /\ Callers \in Seq(Calls)
      /\ \A k \in DOMAIN Callers :
           /\ Callers[k].node \in DOMAIN nodes
           /\ Len(Callers[k].vals) < Len(nodes[Callers[k].node].parts)
      /\ target \in DOMAIN Variables /\ ~Throws(Variables[target])
  BY AtCall
<1>2. UNCHANGED <<nodes, operands, target, root, next, errorNumber>>
  BY DEF Returns
<1>3. tempCounter' \in Nat BY LenProperties
<1>4. CASE Callers # <<>>
  <2> DEFINE m == Len(Callers)  p == [Callers EXCEPT ![m].vals = Append(@, v)]
  <2>1. pending' = p /\ code' = c /\ phase' = "translate"
    BY <1>4 DEF Returns
  <2>2. /\ m \in Nat \ {0} /\ DOMAIN Callers = 1..m
        /\ p \in Seq(Calls) /\ Len(p) = m /\ DOMAIN p = 1..m
        /\ \A i \in 1..m : i # m => p[i] = Callers[i]
        /\ p[m].node = Callers[m].node
        /\ Len(Callers[m].vals) \in Nat /\ Len(p[m].vals) = Len(Callers[m].vals) + 1
    BY <1>1, <1>4, CallerHolds
  <2>3. Evaluated(c, p) BY <1>1, <1>4, CallerGets
  <2> HIDE DEF p, m
  <2>4. ASSUME NEW k \in 1..m
        PROVE  /\ p[k].node \in DOMAIN nodes
               /\ Len(p[k].vals) <= Len(nodes[p[k].node].parts)
               /\ k < m => Len(p[k].vals) < Len(nodes[p[k].node].parts)
    <3>1. /\ Callers[k].node \in DOMAIN nodes
          /\ Len(Callers[k].vals) < Len(nodes[Callers[k].node].parts)
      BY <1>1, <2>2
    <3>2. CASE k # m
      <4>1. p[k] = Callers[k] BY <2>2, <3>2
      <4> DEFINE a == Len(Callers[k].vals)  b == Len(nodes[Callers[k].node].parts)
      <4>2. a \in Nat
        <5>1. Callers[k] \in Calls BY <1>1, <2>2, ElementOfSeq
        <5>2. Callers[k].vals \in Seq(Values) BY <5>1 DEF Calls
        <5> QED BY <5>2, LenProperties
      <4>3. b \in Nat BY <3>1, PartsCounted
      <4>4. a < b BY <3>1
      <4> HIDE DEF a, b
      <4>5. a <= b BY <4>2, <4>3, <4>4
      <4> QED BY <3>1, <4>1, <4>4, <4>5 DEF a, b
    <3>3. CASE k = m
      <4> DEFINE a == Len(Callers[m].vals)  b == Len(nodes[Callers[m].node].parts)
      <4>1. a \in Nat /\ a < b /\ Len(p[m].vals) = a + 1 BY <2>2, <3>1, <3>3
      <4>2. b \in Nat BY <3>1, <3>3, PartsCounted
      <4> HIDE DEF a, b
      <4>3. a + 1 <= b BY <4>1, <4>2
      <4>4. ~(k < m) BY <2>2, <3>3
      <4> QED BY <2>2, <3>1, <3>3, <4>1, <4>3, <4>4 DEF b
    <3> QED BY <3>2, <3>3
  <2>5. CallsInv' BY <1>2, <2>1, <2>2, <2>4 DEF CallsInv
  <2>6. NodesInv' BY <1>2, <2>1, NodesStay
  <2>7. TempsInv' BY <1>3, <2>1, <2>3 DEF TempsInv
  <2> QED BY <2>5, <2>6, <2>7 DEF IInv
<1>5. CASE Callers = <<>>
  <2> DEFINE store == IRInst(0, "STORE", Val("VAR", toIRType(Variables[target]), target), <<v>>)
  <2>1. pending' = <<>> /\ code' = c \o <<store>> /\ phase' = "done"
    BY <1>5 DEF Returns
  <2>2. Variables[target] \in Types /\ target \in OpNames BY <1>1, TypesAre, NamesAre
  <2>3. Val("VAR", toIRType(Variables[target]), target) \in Values
        /\ Val("VAR", toIRType(Variables[target]), target).class = "VAR"
    BY <1>1, <2>2, IRTyped, ValTyped
  <2>4. store \in Instructions /\ store.dst.class = "VAR" /\ store.args = <<v>>
    <3>1. <<v>> \in Seq(Values) OBVIOUS
    <3>2. "STORE" \in IROps BY DEF IROps
    <3> QED BY <2>3, <3>1, <3>2 DEF Instructions, IRInst
  <2> HIDE DEF store
  <2>5. code' = Append(c, store) BY <2>1, <2>4, AppendIsConcat
  <2>6. code' \in Seq(Instructions) BY <2>4, <2>5, AppendProperties
  <2>7. Stored(code') BY <1>5, <2>4, <2>5, AssignmentStores
  <2>8. CallsInv'
    <3>1. pending' \in Seq(Calls) /\ DOMAIN pending' = {} BY <2>1, EmptySeq
    <3> QED BY <2>1, <3>1 DEF CallsInv
  <2>9. NodesInv' BY <1>2, <2>1, NodesStay
  <2>10. TempsInv' BY <1>3, <2>1, <2>6, <2>7 DEF TempsInv
  <2> QED BY <2>8, <2>9, <2>10 DEF IInv
<1> QED BY <1>4, <1>5

LEMMA LeafTranslated ==
  ASSUME IInv, phase = "translate", pending # <<>>, here.kind \in Leaf,
         Len(Call.vals) = Len(here.parts),
         NEW v \in Values, v.class # "TEMP", Returns(v, <<>>), UNCHANGED tempCounter
  PROVE  IInv'
<1>1. /\ pending \in Seq(Calls) /\ code \in Seq(Instructions) /\ Evaluated(code, pending)
      /\ tempCounter = Len(code) /\ Formed(here) /\ Call.vals \in Seq(Values)
  BY AtCall
<1>2. here.parts = <<>> BY <1>1 DEF Formed
<1>3. Call.vals = <<>> BY <1>1, <1>2, EmptySeq
<1>4. Returned(code, Callers, v)
  <2>1. pending[Len(pending)].vals = <<>> BY <1>3 DEF Call
  <2> QED BY <1>1, <2>1, LeafReturns DEF Callers
<1>5. code = code \o <<>> BY <1>1, ConcatEmptySeq
<1> QED BY <1>1, <1>4, <1>5, CallReturns

LEMMA LiteralTranslated ==
  ASSUME IInv, TranslateLiteral
  PROVE  IInv'
<1> DEFINE v == Val("CONST", toIRType(here.precision), here.op)
<1>1. /\ phase = "translate" /\ pending # <<>> /\ Len(Call.vals) = Len(here.parts)
      /\ here.kind \in Literals
      /\ Returns(v, <<>>) /\ UNCHANGED tempCounter
  BY DEF TranslateLiteral, Translate, Literals
<1>2. here \in NodeSet /\ Formed(here) BY <1>1, AtCall
<1>3. here.precision \in Types /\ here.op \in OpNames BY <1>2 DEF NodeSet
<1>4. ~Throws(here.precision) BY <1>1, <1>2 DEF Formed
<1>5. v \in Values /\ v.class = "CONST" BY <1>3, <1>4, IRTyped, ValTyped
<1>6. here.kind \in Leaf BY <1>1 DEF Literals, Leaf
<1> HIDE DEF v
<1> QED BY <1>1, <1>5, <1>6, LeafTranslated

LEMMA VariableTranslated ==
  ASSUME IInv, TranslateVariable
  PROVE  IInv'
<1> DEFINE v == Val("VAR", toIRType(here.precision), here.slot)
<1>1. /\ phase = "translate" /\ pending # <<>> /\ Len(Call.vals) = Len(here.parts)
      /\ here.kind = "var"
      /\ IF Throws(here.precision) THEN Throw
         ELSE Returns(v, <<>>) /\ UNCHANGED tempCounter
  BY DEF TranslateVariable, Translate
<1>2. CASE Throws(here.precision) BY <1>1, <1>2, Thrown
<1>3. CASE ~Throws(here.precision)
  <2>1. here \in NodeSet BY <1>1, AtCall
  <2>2. here.precision \in Types /\ here.slot \in OpNames BY <2>1 DEF NodeSet
  <2>3. v \in Values /\ v.class = "VAR" BY <1>3, <2>2, IRTyped, ValTyped
  <2>4. here.kind \in Leaf BY <1>1 DEF Leaf
  <2> HIDE DEF v
  <2> QED BY <1>1, <1>3, <2>3, <2>4, LeafTranslated
<1> QED BY <1>2, <1>3

(* An instruction of type t on the operands ends the call (Compute).       *)
LEMMA Computed ==
  ASSUME IInv, phase = "translate", pending # <<>>,
         NEW t \in Types, NEW op \in IROps, NEW args \in Seq(Values),
         \A v : v.class = "TEMP" =>
           ((\E k \in DOMAIN args : args[k] = v) <=>
              (\E k \in DOMAIN Call.vals : Call.vals[k] = v)),
         Compute(t, op, args)
  PROVE  IInv'
<1>1. CASE Throws(t) BY <1>1, Thrown DEF Compute
<1>2. CASE ~Throws(t)
  <2> DEFINE tmp == makeTemp(toIRType(t))  inst == IRInst(Call.node, op, tmp, args)
             c == Append(code, inst)
  <2>1. /\ pending \in Seq(Calls) /\ code \in Seq(Instructions) /\ Evaluated(code, pending)
        /\ tempCounter = Len(code) /\ tempCounter \in Nat /\ Call \in Calls
    BY AtCall, LenProperties
  <2>2. Returns(tmp, <<inst>>) /\ tempCounter' = tempCounter + 1
    BY <1>2 DEF Compute
  <2>3. tmp \in Values /\ tmp.class = "TEMP" /\ tmp.temp = Len(code)
    <3>1. toIRType(t) \in IRTypes BY <1>2, IRTyped
    <3>2. "" \in OpNames BY DEF OpNames
    <3> QED BY <2>1, <3>1, <3>2 DEF makeTemp, Val, Values
  <2> HIDE DEF tmp
  <2>4. /\ inst \in Instructions /\ inst.dst = tmp /\ inst.args = args
    <3>1. Call.node \in Nat BY <2>1 DEF Calls
    <3> QED BY <2>3, <3>1 DEF IRInst, Instructions
  <2> HIDE DEF inst
  <2>5. Returned(c, Callers, tmp)
    <3>1. \A v : v.class = "TEMP" =>
            ((\E k \in DOMAIN inst.args : inst.args[k] = v) <=>
               (\E k \in DOMAIN pending[Len(pending)].vals : pending[Len(pending)].vals[k] = v))
      BY <2>4 DEF Call
    <3> QED BY <2>1, <2>3, <2>4, <3>1, ComputeReturns DEF Callers
  <2>6. c = code \o <<inst>> BY <2>1, <2>4, AppendIsConcat
  <2>7. c \in Seq(Instructions) /\ tempCounter' = Len(c)
    BY <2>1, <2>2, <2>4, AppendProperties
  <2> HIDE DEF c
  <2> QED BY <2>2, <2>3, <2>5, <2>6, <2>7, CallReturns
<1> QED BY <1>1, <1>2

LEMMA OperatorTranslated ==
  ASSUME IInv, TranslateBinary \/ TranslateUnary \/ TranslatePromotion
  PROVE  IInv'
<1>1. PICK op : /\ phase = "translate" /\ pending # <<>>
                /\ op \in IROps /\ Compute(here.precision, op, Call.vals)
  <2>1. binaryOp(here.op) \in IROps BY DEF binaryOp, IROps
  <2>2. unaryOp(here.op) \in IROps BY DEF unaryOp, IROps
  <2>3. "CAST" \in IROps BY DEF IROps
  <2> QED BY <2>1, <2>2, <2>3
      DEF TranslateBinary, TranslateUnary, TranslatePromotion, Translate
<1>2. here \in NodeSet /\ Call.vals \in Seq(Values) BY <1>1, AtCall
<1>3. here.precision \in Types BY <1>2 DEF NodeSet
<1> QED BY <1>1, <1>2, <1>3, Computed

LEMMA CallTranslated ==
  ASSUME IInv, TranslateCall
  PROVE  IInv'
<1>1. PICK t : /\ phase = "translate" /\ pending # <<>>
               /\ t \in {Builtin("INT32"), Builtin("ENUM"), here.precision}
               /\ Compute(t, "CALL", Call.vals)
  BY DEF TranslateCall, Translate
<1>2. here \in NodeSet /\ Call.vals \in Seq(Values) BY <1>1, AtCall
<1>3. here.precision \in Types BY <1>2 DEF NodeSet
<1>4. Builtin("INT32") \in Types /\ Builtin("ENUM") \in Types
  <2>1. {"INT32", "ENUM"} \subseteq Kinds \ {"STRUCT"} BY DEF Kinds
  <2> QED BY <2>1, TypesAre
<1>5. t \in Types /\ "CALL" \in IROps BY <1>1, <1>3, <1>4 DEF IROps
<1> QED BY <1>1, <1>2, <1>5, Computed

LEMMA ReadTranslated ==
  ASSUME IInv, TranslateRead
  PROVE  IInv'
<1>1. PICK t : /\ phase = "translate" /\ pending # <<>>
               /\ t \in {Builtin("UINT64"), Builtin("UINT32")}
               /\ Compute(t, "LOAD", Call.vals)
  BY DEF TranslateRead, Translate
<1>2. Call.vals \in Seq(Values) BY <1>1, AtCall
<1>3. t \in Types /\ "LOAD" \in IROps BY <1>1, KindsAre DEF IROps
<1> QED BY <1>1, <1>2, <1>3, Computed

(* The offset of the member is added; a constant is no temporary.          *)
LEMMA FieldTranslated ==
  ASSUME IInv, TranslateField
  PROVE  IInv'
<1> DEFINE offset == Val("CONST", "I32", here.slot)  args == Append(Call.vals, offset)
<1>1. /\ phase = "translate" /\ pending # <<>>
      /\ Compute(Builtin("UINT64"), "ADD", args)
  BY DEF TranslateField, Translate
<1>2. here \in NodeSet /\ Call.vals \in Seq(Values) BY <1>1, AtCall
<1>3. offset \in Values /\ offset.class = "CONST"
  <2>1. here.slot \in OpNames BY <1>2 DEF NodeSet
  <2>2. "I32" \in IRTypes BY DEF IRTypes
  <2> QED BY <2>1, <2>2, ValTyped
<1> HIDE DEF offset
<1>4. /\ args \in Seq(Values) /\ DOMAIN args = 1..(Len(Call.vals) + 1)
      /\ args[Len(Call.vals) + 1] = offset
      /\ DOMAIN Call.vals = 1..Len(Call.vals) /\ Len(Call.vals) \in Nat
      /\ \A k \in 1..Len(Call.vals) : args[k] = Call.vals[k]
  BY <1>2, <1>3, AppendProperties, LenProperties
<1> HIDE DEF args
<1>5. ASSUME NEW v, v.class = "TEMP"
      PROVE  (\E k \in DOMAIN args : args[k] = v) <=>
               (\E k \in DOMAIN Call.vals : Call.vals[k] = v)
  <2> DEFINE n == Len(Call.vals)
  <2>1. offset # v BY <1>3, <1>5
  <2>2. \A k : k \in 1..(n + 1) <=> (k \in 1..n \/ k = n + 1)
    <3>1. n \in Nat BY <1>4
    <3> HIDE DEF n
    <3> QED BY <3>1
  <2> HIDE DEF n
  <2>3. \A k : k \in DOMAIN args <=> (k \in DOMAIN Call.vals \/ k = n + 1)
    BY <1>4, <2>2 DEF n
  <2>4. args[n + 1] = offset /\ \A k \in DOMAIN Call.vals : args[k] = Call.vals[k]
    BY <1>4 DEF n
  <2> QED BY <2>1, <2>3, <2>4
<1>6. Builtin("UINT64") \in Types /\ "ADD" \in IROps BY KindsAre DEF IROps
<1> QED BY <1>1, <1>4, <1>5, <1>6, Computed

-----------------------------------------------------------------------------
(***************************************************************************)
(* The theorems.                                                           *)
(***************************************************************************)
LEMMA Begins ==
  ASSUME Init
  PROVE  IInv
<1>1. DOMAIN nodes = {} /\ DOMAIN operands = {} /\ DOMAIN code = {} /\ DOMAIN pending = {}
  BY EmptySeq DEF Init
<1>2. Len(nodes) = 0 /\ Len(code) = 0 BY EmptySeq DEF Init
<1>3. MaxNodes \in Nat BY ExpressionsAssumption
<1>4. Tree(nodes)
  <2>1. nodes \in Seq(NodeSet) BY EmptySeq DEF Init
  <2> QED BY <1>1, <2>1 DEF Tree, Shaped, Members
<1>5. NodesInv
  <2>1. operands \in Seq(1..MaxNodes) BY EmptySeq DEF Init
  <2>2. next \in 1..MaxNodes+1 BY <1>3 DEF Init
  <2>3. Len(nodes) <= MaxNodes BY <1>2, <1>3
  <2> QED BY <1>1, <1>4, <2>1, <2>2, <2>3 DEF NodesInv, Init
<1>6. CallsInv
  <2>1. pending \in Seq(Calls) BY EmptySeq DEF Init
  <2> QED BY <1>1, <2>1 DEF CallsInv, Init
<1>7. TempsInv
  <2>1. code \in Seq(Instructions) BY EmptySeq DEF Init
  <2>2. Evaluated(code, pending)
    BY <1>1 DEF Evaluated, Numbered, ReadsWritten, HoldsWritten, ResultsUsedOnce
  <2> QED BY <1>2, <2>1, <2>2 DEF TempsInv, Init
<1> QED BY <1>5, <1>6, <1>7 DEF IInv

LEMMA Stutters ==
  ASSUME IInv, UNCHANGED vars
  PROVE  IInv'
BY DEF vars, IInv, NodesInv, CallsInv, TempsInv

LEMMA Keeps ==
  ASSUME IInv, [Next]_vars
  PROVE  IInv'
<1>1. CASE ParseLeaf BY <1>1, LeafParsed, ParserStep
<1>2. CASE ParseUnary BY <1>2, UnaryParsed, ParserStep
<1>3. CASE ParseBinary BY <1>3, BinaryParsed, ParserStep
<1>4. CASE ParseRead BY <1>4, ReadParsed, ParserStep
<1>5. CASE ParseCall BY <1>5, CallParsed, ParserStep
<1>6. CASE ParseField BY <1>6, FieldParsed, ParserStep
<1>7. CASE EndParse BY <1>7, ParseEnded
<1>8. CASE AnalyseLeaf \/ SkipArgument BY <1>8, LeafAnalysed, AnalyserStep
<1>9. CASE AnalyseVariable BY <1>9, VariableAnalysed, AnalyserStep
<1>10. CASE AnalyseUnary BY <1>10, UnaryAnalysed, AnalyserStep
<1>11. CASE AnalyseArithmetic BY <1>11, ArithmeticAnalysed, AnalyserStep
<1>12. CASE AnalyseComparison BY <1>12, ComparisonAnalysed, AnalyserStep
<1>13. CASE AnalyseCall BY <1>13, CallAnalysed, AnalyserStep
<1>14. CASE AnalyseRead BY <1>14, ReadAnalysed, AnalyserStep
<1>15. CASE AnalyseField BY <1>15, FieldAnalysed, AnalyserStep
<1>16. CASE Convert BY <1>16, Converted
<1>17. CASE TranslateOperand BY <1>17, OperandTranslated
<1>18. CASE TranslateLiteral BY <1>18, LiteralTranslated
<1>19. CASE TranslateVariable BY <1>19, VariableTranslated
<1>20. CASE TranslateBinary \/ TranslateUnary \/ TranslatePromotion
  BY <1>20, OperatorTranslated
<1>21. CASE TranslateCall BY <1>21, CallTranslated
<1>22. CASE TranslateRead BY <1>22, ReadTranslated
<1>23. CASE TranslateField BY <1>23, FieldTranslated
<1>24. CASE Done BY <1>24, Stutters DEF Done
<1>25. CASE Stop BY <1>25, Stutters DEF Stop
<1>26. CASE UNCHANGED vars BY <1>26, Stutters
<1> QED
  BY <1>1, <1>2, <1>3, <1>4, <1>5, <1>6, <1>7, <1>8, <1>9, <1>10, <1>11, <1>12, <1>13,
     <1>14, <1>15, <1>16, <1>17, <1>18, <1>19, <1>20, <1>21, <1>22, <1>23, <1>24, <1>25,
     <1>26 DEF Next

(* What is true of every state of every expression: the arena is a tree    *)
(* the analyser may still be putting promotions into, every call in        *)
(* progress has values for its first operands only, and what those and the *)
(* emitted instructions say of the temporaries.                            *)
THEOREM ExpressionInvariant == Spec => []IInv
<1>1. Init => IInv BY Begins
<1>2. IInv /\ [Next]_vars => IInv' BY Keeps
<1> QED BY <1>1, <1>2, PTL DEF Spec

LEMMA InvariantTyped ==
  ASSUME IInv
  PROVE  TypeOK
<1>1. NodesInv /\ CallsInv /\ TempsInv BY DEF IInv
<1>2. ASSUME NEW n \in DOMAIN nodes
      PROVE  /\ nodes[n].kind \in NodeKinds
             /\ nodes[n].precision.kind \in Kinds
             /\ \A i \in DOMAIN nodes[n].parts : nodes[n].parts[i] \in DOMAIN nodes \ {n}
  <2>1. Shaped(nodes) BY <1>1 DEF NodesInv, Tree
  <2>2. nodes[n] \in NodeSet /\ n \in Nat
    <3>1. DOMAIN nodes = 1..Len(nodes) /\ Len(nodes) \in Nat BY <1>1, OperandsAre
    <3> QED BY <2>1, <3>1, PartsBelow
  <2>3. ASSUME NEW i \in DOMAIN nodes[n].parts
        PROVE  nodes[n].parts[i] \in DOMAIN nodes \ {n}
    <3> DEFINE p == nodes[n].parts[i]
    <3>1. Below(nodes, p, n) BY <2>1 DEF Shaped
    <3> HIDE DEF p
    <3>2. p # n BY <2>2, <3>1 DEF Below
    <3> QED BY <3>1, <3>2 DEF Below, p
  <2>4. nodes[n].precision \in Types /\ nodes[n].kind \in NodeKinds BY <2>2 DEF NodeSet
  <2> QED BY <2>3, <2>4, TypesAre
<1>3. root \in {0} \cup DOMAIN nodes BY <1>1 DEF NodesInv
<1>4. ASSUME NEW i \in DOMAIN code PROVE code[i].dst.type \in IRTypes
  <2>1. code[i] \in Instructions BY <1>1, ElementOfSeq, LenProperties DEF TempsInv
  <2>2. code[i].dst \in Values BY <2>1 DEF Instructions
  <2> QED BY <2>2 DEF Values
<1> QED BY <1>1, <1>2, <1>3, <1>4 DEF TypeOK, NodesInv, CallsInv, TempsInv

(* Types: operands come before what they are operands of or are the        *)
(* analyser's, no call has more values than operands, and every value has  *)
(* an IR type: toIRType is never asked for one it has not                  *)
(* (codeSemanticAnalyses, TranslateExpr).                                  *)
THEOREM ExpressionsTyped == Spec => []TypeOK
<1>1. IInv => TypeOK BY InvariantTyped
<1> QED BY <1>1, ExpressionInvariant, PTL

(* One instruction writes a temporary: its number says which.              *)
LEMMA WrittenOnce ==
  ASSUME NEW n \in Nat, NEW c, n <= Len(c), Len(c) \in Nat, DOMAIN c = 1..Len(c),
         \A j \in 1..n : c[j].dst.class = "TEMP" /\ c[j].dst.temp = j - 1,
         \A j \in (n+1)..Len(c) : c[j].dst.class # "TEMP",
         NEW v, v.class = "TEMP", NEW j \in DOMAIN c, c[j].dst = v
  PROVE  {i \in DOMAIN c : c[i].dst = v} = {j}
<1>1. ASSUME NEW i \in DOMAIN c, c[i].dst = v PROVE i \in 1..n /\ v.temp = i - 1
  <2>1. i \notin (n+1)..Len(c) BY <1>1
  <2>2. i \in 1..n BY <2>1
  <2> QED BY <1>1, <2>2
<1>2. j \in 1..n /\ v.temp = j - 1 BY <1>1
<1>3. ASSUME NEW i \in DOMAIN c, c[i].dst = v PROVE i = j
  BY <1>1, <1>2, <1>3
<1> QED BY <1>3

LEMMA InvariantTemps ==
  ASSUME IInv
  PROVE  TempsWellDefined
<1>1. TempsInv BY DEF IInv
<1>2. code \in Seq(Instructions) /\ Len(code) \in Nat /\ DOMAIN code = 1..Len(code)
  BY <1>1, LenProperties DEF TempsInv
<1>3. ReadsWritten(code) BY <1>1 DEF TempsInv, Evaluated, Stored
<1>4. PICK n \in Nat :
        /\ n <= Len(code)
        /\ \A j \in 1..n : code[j].dst.class = "TEMP" /\ code[j].dst.temp = j - 1
        /\ \A j \in (n+1)..Len(code) : code[j].dst.class # "TEMP"
  <2> DEFINE l == Len(code)
  <2>1. CASE phase = "done"
    <3>1. /\ l > 0 /\ code[l].dst.class = "VAR"
          /\ \A j \in 1..l-1 : code[j].dst.class = "TEMP" /\ code[j].dst.temp = j - 1
      BY <1>1, <2>1 DEF TempsInv, Stored
    <3>2. l \in Nat BY <1>2
    <3> HIDE DEF l
    <3>3. l - 1 \in Nat /\ l - 1 <= l /\ \A j \in ((l-1)+1)..l : j = l BY <3>1, <3>2
    <3> QED BY <3>1, <3>3 DEF l
  <2>2. CASE phase # "done"
    <3>1. \A j \in 1..l : code[j].dst.class = "TEMP" /\ code[j].dst.temp = j - 1
      BY <1>1, <1>2, <2>2 DEF TempsInv, Evaluated, Numbered
    <3>2. l \in Nat BY <1>2
    <3> HIDE DEF l
    <3>3. l <= l /\ (l+1)..l = {} BY <3>2
    <3> QED BY <3>1, <3>2, <3>3 DEF l
  <2> QED BY <2>1, <2>2
<1>5. ASSUME NEW v, v.class = "TEMP", NEW j \in DOMAIN code, code[j].dst = v
      PROVE  Writes(v) = {j}
  BY <1>2, <1>4, <1>5, WrittenOnce DEF Writes
<1>6. ASSUME NEW i \in DOMAIN code, NEW k \in DOMAIN code[i].args,
             code[i].args[k].class = "TEMP"
      PROVE  \E j \in 1..i-1 : Writes(code[i].args[k]) = {j}
  <2>1. PICK j \in 1..i-1 : code[j].dst = code[i].args[k] BY <1>3, <1>6 DEF ReadsWritten
  <2>2. j \in DOMAIN code
    <3> DEFINE l == Len(code)
    <3>1. l \in Nat /\ i \in 1..l /\ DOMAIN code = 1..l BY <1>2
    <3> HIDE DEF l
    <3> QED BY <3>1
  <2> QED BY <1>5, <1>6, <2>1, <2>2
<1>7. ASSUME phase = "done", NEW i \in DOMAIN code, code[i].dst.class = "TEMP"
      PROVE  Cardinality(Reads(code[i].dst)) = 1
  <2> DEFINE v == code[i].dst
  <2>1. i \in 1..Len(code)-1
    <3>1. code[Len(code)].dst.class = "VAR" BY <1>1, <1>7 DEF TempsInv, Stored
    <3>2. i # Len(code) BY <1>7, <3>1
    <3> DEFINE l == Len(code)
    <3>3. l \in Nat /\ i \in 1..l /\ i # l BY <1>2, <3>2
    <3> HIDE DEF l
    <3>4. i \in 1..l-1 BY <3>3
    <3> QED BY <3>4 DEF l
  <2>2. WasRead(code, <<>>, v) BY <1>1, <1>7, <2>1 DEF TempsInv, Stored
  <2>3. Reads(v) = {j \in DOMAIN code : ReadBy(code, v, j)} BY DEF Reads, ReadBy
  <2> HIDE DEF v
  <2>4. PICK j : ReadBy(code, v, j) /\ \A l : ReadBy(code, v, l) => l = j
    BY <2>2 DEF WasRead
  <2>5. Reads(v) = {j} BY <2>3, <2>4 DEF ReadBy
  <2> QED BY <2>5, FS_Singleton DEF v
<1> QED BY <1>6, <1>7 DEF TempsWellDefined

(* makeTemp and TranslateExpr: in whatever way operators, calls, reads,    *)
(* members and promotions nest, a temporary that an instruction reads was  *)
(* written by one instruction, an earlier one, and when the value is       *)
(* stored every temporary has been read by one.                            *)
THEOREM EachTemporaryOnce == Spec => []TempsWellDefined
<1>1. IInv => TempsWellDefined BY InvariantTemps
<1> QED BY <1>1, ExpressionInvariant, PTL

-----------------------------------------------------------------------------
(***************************************************************************)
(* The order of evaluation.  The nodes of an operand are a run of the      *)
(* numbers of the parser, from lo to its own, and the runs of the parts of *)
(* a node follow one another up to the node.  A promotion stands for the   *)
(* node it converts.                                                       *)
(***************************************************************************)
Base(t, p) == IF t[p].kind = "promotion" THEN t[p].parts[1] ELSE p

(* The last node of the run when i parts of n have been translated.        *)
Before(t, lo, n, i) == IF i = 0 THEN lo[Base(t, n)] - 1 ELSE Base(t, t[n].parts[i])

FromSource(t, p) == Base(t, p) \in DOMAIN t /\ t[Base(t, p)].kind # "promotion"

TiledAt(t, lo, n) ==
  /\ lo[n] \in 1..n
  /\ \A i \in DOMAIN t[n].parts :
       /\ FromSource(t, t[n].parts[i])
       /\ Base(t, t[n].parts[i]) < n
       /\ lo[Base(t, t[n].parts[i])] = Before(t, lo, n, i - 1) + 1
  /\ Before(t, lo, n, Len(t[n].parts)) = n - 1

Tiled(t, lo) ==
  /\ lo \in [Nat -> Nat]
  /\ \A n \in DOMAIN t : t[n].kind # "promotion" => TiledAt(t, lo, n)

(* Where the run of an operand ends that has no parent yet.                *)
Seam(ops, i) == IF i = 0 THEN 0 ELSE ops[i]

OrderedNodes(lo) ==
  /\ Tiled(nodes, lo)
  /\ phase = "parse" =>
       /\ \A n \in DOMAIN nodes : nodes[n].kind # "promotion"
       /\ \A i \in DOMAIN operands : lo[operands[i]] = Seam(operands, i - 1) + 1
       /\ Seam(operands, Len(operands)) = Len(nodes)
  /\ phase # "parse" =>
       /\ lo[Original] = 1
       /\ \A n \in DOMAIN nodes : nodes[n].kind = "promotion" <=> n > Original
       /\ Base(nodes, root) = Original
  /\ phase = "analyse" =>
       /\ root = Original
       /\ \A n \in next..Original : \A i \in DOMAIN nodes[n].parts :
            nodes[nodes[n].parts[i]].kind # "promotion"

(* The calls and reads that have been emitted, and those up to a node.     *)
Effects(c)     == {i \in DOMAIN c : c[i].op \in {"CALL", "LOAD"}}
Emitted(c)     == {c[i].node : i \in Effects(c)}
Ascending(c)   == \A i, j \in Effects(c) : i < j => c[i].node < c[j].node
EffectsUpTo(m) == {n \in DOMAIN nodes : nodes[n].kind \in {"call", "read"} /\ n <= m}

OrderedCode(lo) ==
  /\ Ascending(code)
  /\ phase = "translate" =>
       /\ pending # <<>> /\ pending[1].node = root
       /\ \A k \in DOMAIN pending : FromSource(nodes, pending[k].node)
       /\ \A k \in 1..Len(pending)-1 :
            pending[k+1].node = nodes[pending[k].node].parts[Len(pending[k].vals) + 1]
       /\ Emitted(code) = EffectsUpTo(Before(nodes, lo, Call.node, Len(Call.vals)))
  /\ phase = "done" =>
       Emitted(code) = {n \in DOMAIN nodes : nodes[n].kind \in {"call", "read"}}

OrderInv == \E lo : OrderedNodes(lo) /\ OrderedCode(lo)

(* What is done to a node that leaves it a run.                            *)
LEMMA TilesKept ==
  ASSUME NEW t, Shaped(t), NEW lo, Tiled(t, lo), NEW u, NEW mo, DOMAIN t \subseteq DOMAIN u,
         \A n \in DOMAIN t :
           /\ mo[n] = lo[n] /\ u[n].kind = t[n].kind
           /\ Base(u, n) = Base(t, n)
           /\ DOMAIN u[n].parts = DOMAIN t[n].parts /\ Len(u[n].parts) = Len(t[n].parts)
           /\ t[n].kind # "promotion" =>
                \A i \in DOMAIN t[n].parts : Base(u, u[n].parts[i]) = Base(t, t[n].parts[i])
  PROVE  \A n \in DOMAIN t : t[n].kind # "promotion" => TiledAt(u, mo, n)
<1> SUFFICES ASSUME NEW n \in DOMAIN t, t[n].kind # "promotion" PROVE TiledAt(u, mo, n)
  OBVIOUS
<1> DEFINE m == Len(t[n].parts)
<1>1. TiledAt(t, lo, n) BY DEF Tiled
<1>2. t[n].parts \in Seq(Nat) BY PartsBelow DEF NodeSet
<1>3. m \in Nat /\ DOMAIN t[n].parts = 1..m BY <1>2, LenProperties
<1>4. ASSUME NEW i \in 0..m PROVE Before(u, mo, n, i) = Before(t, lo, n, i)
  <2>1. CASE i = 0
    <3>1. Base(u, n) = n /\ Base(t, n) = n BY DEF Base
    <3> QED BY <2>1, <3>1 DEF Before
  <2>2. CASE i # 0
    <3>1. i \in DOMAIN t[n].parts BY <1>3, <2>2
    <3> QED BY <2>2, <3>1 DEF Before
  <2> QED BY <2>1, <2>2
<1>5. ASSUME NEW i \in DOMAIN t[n].parts
      PROVE  /\ FromSource(u, u[n].parts[i])
             /\ Base(u, u[n].parts[i]) < n
             /\ mo[Base(u, u[n].parts[i])] = Before(u, mo, n, i - 1) + 1
  <2> DEFINE b == Base(t, t[n].parts[i])
  <2>1. Base(u, u[n].parts[i]) = b OBVIOUS
  <2>2. b \in DOMAIN t /\ t[b].kind # "promotion" /\ b < n /\ lo[b] = Before(t, lo, n, i - 1) + 1
    BY <1>1 DEF TiledAt, FromSource
  <2>3. i - 1 \in 0..m BY <1>3
  <2> HIDE DEF b
  <2>4. Before(u, mo, n, i - 1) = Before(t, lo, n, i - 1) BY <1>4, <2>3
  <2>5. FromSource(u, u[n].parts[i]) BY <2>1, <2>2 DEF FromSource
  <2> QED BY <2>1, <2>2, <2>4, <2>5
<1>6. Before(u, mo, n, Len(u[n].parts)) = n - 1
  <2>1. m \in 0..m /\ Len(u[n].parts) = m BY <1>3
  <2>2. Before(t, lo, n, m) = n - 1 BY <1>1 DEF TiledAt
  <2> HIDE DEF m
  <2> QED BY <1>4, <2>1, <2>2
<1>7. mo[n] \in 1..n BY <1>1 DEF TiledAt
<1> QED BY <1>5, <1>6, <1>7 DEF TiledAt

(* The operands become the parts of a new node: its run is what their runs *)
(* were together.                                                          *)
LEMMA ParserOrders ==
  ASSUME IInv, NEW new, NEW k, Made(new, k), NEW lo, OrderedNodes(lo)
  PROVE  \E mo : OrderedNodes(mo)'
<1> DEFINE N == Len(nodes)  l == Len(operands)  s == Seam(operands, l - k) + 1
<1>1. /\ phase = "parse" /\ phase' = "parse"
      /\ nodes' = Append(nodes, new) /\ operands' = Append(First(k), N + 1)
      /\ k \in Nat /\ k <= l /\ new \in NodeSet /\ new.kind # "promotion"
      /\ Len(new.parts) = k /\ \A i \in 1..k : new.parts[i] = Last(k)[i]
  BY DEF Made, Parsed
<1>2. /\ NodesInv /\ Shaped(nodes) /\ nodes \in Seq(NodeSet)
      /\ N \in Nat /\ DOMAIN nodes = 1..N
      /\ l \in Nat /\ DOMAIN operands = 1..l /\ \A i \in 1..l : operands[i] \in 1..N
  <2>1. NodesInv BY DEF IInv
  <2>2. Shaped(nodes) /\ nodes \in Seq(NodeSet) BY <2>1 DEF NodesInv, Tree, Shaped
  <2> QED BY <2>1, <2>2, OperandsAre
<1>3. /\ Tiled(nodes, lo) /\ \A n \in 1..N : nodes[n].kind # "promotion"
      /\ \A i \in 1..l : lo[operands[i]] = Seam(operands, i - 1) + 1
      /\ Seam(operands, l) = N /\ lo \in [Nat -> Nat]
  BY <1>1, <1>2 DEF OrderedNodes, Tiled
<1>4. l - k \in Nat /\ l - k \in 0..l BY <1>1, <1>2
<1>5. ASSUME NEW i \in 0..l PROVE Seam(operands, i) \in 0..N
  BY <1>2 DEF Seam
<1>6. /\ Len(First(k)) = l - k /\ First(k) \in Seq(1..MaxNodes)
      /\ \A i \in 1..(l - k) : First(k)[i] = operands[i]
      /\ \A i \in 1..k : new.parts[i] = operands[(l - k) + i]
  BY <1>1, <1>2, TakenAre
<1>7. /\ DOMAIN nodes' = 1..(N + 1) /\ nodes'[N + 1] = new /\ Len(nodes') = N + 1
      /\ \A n \in 1..N : nodes'[n] = nodes[n]
  BY <1>1, <1>2, AppendProperties, LenProperties
<1>8. /\ DOMAIN operands' = 1..((l - k) + 1) /\ operands'[(l - k) + 1] = N + 1
      /\ Len(operands') = (l - k) + 1
      /\ \A i \in 1..(l - k) : operands'[i] = operands[i]
  <2> DEFINE f == First(k)  x == N + 1
  <2>1. f \in Seq(Nat) /\ x \in Nat
    <3>1. 1..MaxNodes \subseteq Nat OBVIOUS
    <3>2. f \in Seq(Nat)
      <4>1. f \in Seq(1..MaxNodes) BY <1>6
      <4> QED BY ONLY <3>1, <4>1, SeqMonotonic
    <3>3. x \in Nat BY <1>2
    <3> QED BY <3>2, <3>3
  <2>2. operands' = Append(f, x) /\ Len(f) = l - k /\ \A i \in 1..(l - k) : f[i] = operands[i]
    BY <1>1, <1>6
  <2> HIDE DEF f, x, l
  <2>3. /\ Len(Append(f, x)) = Len(f) + 1 /\ DOMAIN Append(f, x) = 1..(Len(f) + 1)
        /\ Append(f, x)[Len(f) + 1] = x /\ \A i \in 1..Len(f) : Append(f, x)[i] = f[i]
    BY <2>1, AppendProperties, LenProperties
  <2> QED BY <2>2, <2>3 DEF x
<1>9. s \in Nat /\ s \in 1..(N + 1)
  <2>1. Seam(operands, l - k) \in 0..N BY <1>4, <1>5
  <2> QED BY <1>2, <2>1
<1> HIDE DEF s
<1>21. PICK mo : mo = [lo EXCEPT ![N + 1] = s] OBVIOUS
<1>10. mo \in [Nat -> Nat] /\ mo[N + 1] = s /\ \A n \in 1..N : mo[n] = lo[n]
  <2>1. N + 1 \in Nat /\ \A n \in 1..N : n # N + 1 /\ n \in Nat BY <1>2
  <2> QED BY <1>3, <1>9, <1>21, <2>1
<1>11. \A n \in 1..N : TiledAt(nodes', mo, n)
  <2>1. ASSUME NEW n \in 1..N, NEW i \in DOMAIN nodes[n].parts
        PROVE  Base(nodes', nodes[n].parts[i]) = Base(nodes, nodes[n].parts[i])
    <3>1. nodes[n].parts[i] \in 1..N
      BY <1>2 DEF Shaped, Below
    <3> QED BY <1>7, <3>1 DEF Base
  <2>2. \A n \in 1..N : Base(nodes', n) = Base(nodes, n) BY <1>7 DEF Base
  <2>3. DOMAIN nodes \subseteq DOMAIN nodes' BY <1>2, <1>7
  <2> DEFINE u == nodes'
  <2>4. \A n \in DOMAIN nodes : /\ mo[n] = lo[n] /\ u[n] = nodes[n]
                                /\ Base(u, n) = Base(nodes, n)
    BY <1>2, <1>7, <1>10, <2>2
  <2>5. \A n \in DOMAIN nodes : \A i \in DOMAIN nodes[n].parts :
          Base(u, nodes[n].parts[i]) = Base(nodes, nodes[n].parts[i])
    BY <1>2, <2>1
  <2> HIDE DEF u
  <2>6. \A n \in DOMAIN nodes : nodes[n].kind # "promotion" => TiledAt(u, mo, n)
    <3>1. DOMAIN nodes \subseteq DOMAIN u BY <2>3 DEF u
    <3>2. \A n \in DOMAIN nodes :
            /\ mo[n] = lo[n] /\ u[n].kind = nodes[n].kind
            /\ Base(u, n) = Base(nodes, n)
            /\ DOMAIN u[n].parts = DOMAIN nodes[n].parts
            /\ Len(u[n].parts) = Len(nodes[n].parts)
            /\ nodes[n].kind # "promotion" =>
                 \A i \in DOMAIN nodes[n].parts :
                   Base(u, u[n].parts[i]) = Base(nodes, nodes[n].parts[i])
      BY <2>4, <2>5
    <3>3. Shaped(nodes) /\ Tiled(nodes, lo) BY <1>2, <1>3
    <3> QED BY ONLY <3>1, <3>2, <3>3, TilesKept
  <2> QED BY <1>2, <1>3, <2>6 DEF u
<1>12. DOMAIN new.parts = 1..k
  <2>1. new.parts \in Seq(Nat) BY <1>1 DEF NodeSet
  <2> QED BY <1>1, <2>1, LenProperties
<1>13. ASSUME NEW j \in 0..k PROVE Before(nodes', mo, N + 1, j) = Seam(operands, (l - k) + j)
  <2>1. CASE j = 0
    <3>1. Base(nodes', N + 1) = N + 1 BY <1>1, <1>7 DEF Base
    <3>2. Before(nodes', mo, N + 1, 0) = s - 1 BY <1>10, <3>1 DEF Before
    <3>3. Seam(operands, l - k) \in 0..N BY <1>4, <1>5
    <3>4. s - 1 = Seam(operands, l - k) BY <3>3 DEF s
    <3>5. (l - k) + j = l - k BY <1>4, <2>1
    <3> QED BY <2>1, <3>2, <3>4, <3>5
  <2>2. CASE j # 0
    <3>1. j \in 1..k /\ (l - k) + j \in 1..l /\ (l - k) + j # 0 BY <1>1, <1>2, <2>2
    <3>2. nodes'[N + 1].parts[j] = operands[(l - k) + j] BY <1>6, <1>7, <3>1
    <3>3. operands[(l - k) + j] \in 1..N BY <1>2, <3>1
    <3>4. Base(nodes', operands[(l - k) + j]) = operands[(l - k) + j]
      BY <1>3, <1>7, <3>3 DEF Base
    <3>5. Before(nodes', mo, N + 1, j) = operands[(l - k) + j] BY <2>2, <3>2, <3>4 DEF Before
    <3>6. Seam(operands, (l - k) + j) = operands[(l - k) + j] BY <3>1 DEF Seam
    <3> QED BY <3>5, <3>6
  <2> QED BY <2>1, <2>2
<1>14. TiledAt(nodes', mo, N + 1)
  <2>1. ASSUME NEW i \in 1..k
        PROVE  /\ FromSource(nodes', new.parts[i])
               /\ Base(nodes', new.parts[i]) < N + 1
               /\ mo[Base(nodes', new.parts[i])] = Before(nodes', mo, N + 1, i - 1) + 1
    <3> DEFINE p == new.parts[i]  a == (l - k) + i
    <3>1. a \in 1..l /\ a - 1 = (l - k) + (i - 1) /\ i - 1 \in 0..k BY <1>1, <1>2
    <3>2. p = operands[a] /\ p \in 1..N BY <1>2, <1>6, <3>1
    <3>3. nodes'[p] = nodes[p] /\ p \in DOMAIN nodes' /\ nodes[p].kind # "promotion"
      <4>1. p \in 1..(N + 1) BY <1>2, <3>2
      <4> QED BY <1>3, <1>7, <3>2, <4>1
    <3>4. lo[operands[a]] = Seam(operands, a - 1) + 1 BY <1>3, <3>1
    <3> HIDE DEF p, a
    <3>5. Base(nodes', p) = p /\ FromSource(nodes', p) BY <3>3 DEF Base, FromSource
    <3>6. mo[p] = lo[p] BY <1>10, <3>2
    <3>7. Before(nodes', mo, N + 1, i - 1) = Seam(operands, (l - k) + (i - 1)) BY <1>13, <3>1
    <3>8. p < N + 1 BY <1>2, <3>2
    <3>9. mo[p] = Before(nodes', mo, N + 1, i - 1) + 1
      BY ONLY <3>1, <3>2, <3>4, <3>6, <3>7
    <3> QED BY <3>5, <3>8, <3>9 DEF p
  <2>2. Before(nodes', mo, N + 1, k) = N
    <3>1. k \in 0..k /\ (l - k) + k = l BY <1>1, <1>2
    <3> QED BY <1>3, <1>13, <3>1
  <2>3. N = (N + 1) - 1 BY <1>2
  <2>4. mo[N + 1] \in 1..(N + 1) BY <1>9, <1>10
  <2> QED BY <1>1, <1>7, <1>12, <2>1, <2>2, <2>3, <2>4 DEF TiledAt
<1>15. Tiled(nodes', mo)
  <2>1. \A n \in 1..(N + 1) : n \in 1..N \/ n = N + 1 BY <1>2
  <2> QED BY <1>7, <1>10, <1>11, <1>14, <2>1 DEF Tiled
<1>16. \A n \in DOMAIN nodes' : nodes'[n].kind # "promotion"
  <2>1. \A n \in 1..(N + 1) : n \in 1..N \/ n = N + 1 BY <1>2
  <2> QED BY <1>1, <1>3, <1>7, <2>1
<1>17. ASSUME NEW i \in 0..(l - k) PROVE Seam(operands', i) = Seam(operands, i)
  <2>1. i = 0 \/ i \in 1..(l - k) BY <1>4
  <2> QED BY <1>8, <2>1 DEF Seam
<1>18. ASSUME NEW i \in DOMAIN operands' PROVE mo[operands'[i]] = Seam(operands', i - 1) + 1
  <2>1. CASE i \in 1..(l - k)
    <3>1. i \in 1..l /\ i - 1 \in 0..(l - k) BY <1>1, <1>2, <2>1
    <3>2. operands'[i] = operands[i] /\ operands[i] \in 1..N BY <1>2, <1>8, <2>1, <3>1
    <3>3. mo[operands'[i]] = lo[operands[i]]
      <4> DEFINE x == operands[i]
      <4>1. x \in 1..N /\ operands'[i] = x BY <3>2
      <4> HIDE DEF x, N
      <4>2. mo[x] = lo[x] BY <1>10, <4>1
      <4> QED BY <4>1, <4>2 DEF x
    <3> QED BY <1>3, <1>17, <3>1, <3>3
  <2>2. CASE i = (l - k) + 1
    <3>1. i - 1 = l - k /\ l - k \in 0..(l - k) BY <1>4, <2>2
    <3>2. mo[operands'[i]] = s BY <1>8, <1>10, <2>2
    <3>3. Seam(operands', i - 1) = Seam(operands, l - k) BY <1>17, <3>1
    <3> QED BY <3>2, <3>3 DEF s
  <2> QED BY <1>4, <1>8, <2>1, <2>2
<1>19. Seam(operands', Len(operands')) = Len(nodes')
  <2>1. (l - k) + 1 # 0 BY <1>4
  <2> QED BY <1>7, <1>8, <2>1 DEF Seam
<1>20. OrderedNodes(mo)'
  BY <1>1, <1>15, <1>16, <1>18, <1>19 DEF OrderedNodes
<1> QED BY <1>20

LEMMA ParseEndOrders ==
  ASSUME IInv, EndParse, NEW lo, OrderedNodes(lo)
  PROVE  OrderedNodes(lo)'
<1> DEFINE o == operands[1]
<1>1. /\ phase = "parse" /\ phase' = "analyse" /\ Len(operands) = 1 /\ root' = o
      /\ nodes' = nodes /\ operands' = operands /\ next' = next
  BY DEF EndParse
<1>2. /\ NodesInv /\ Shaped(nodes) /\ Len(nodes) \in Nat /\ DOMAIN nodes = 1..Len(nodes)
      /\ DOMAIN operands = 1..1 /\ o \in DOMAIN nodes
  <2>1. NodesInv BY DEF IInv
  <2>2. Shaped(nodes) BY <2>1 DEF NodesInv, Tree
  <2> QED BY <1>1, <2>1, <2>2, OperandsAre
<1>3. /\ Tiled(nodes, lo) /\ \A n \in DOMAIN nodes : nodes[n].kind # "promotion"
      /\ lo[o] = Seam(operands, 0) + 1 /\ Seam(operands, 1) = Len(nodes)
  BY <1>1, <1>2 DEF OrderedNodes
<1>4. Original' = o /\ o = Len(nodes) /\ lo[o] = 1
  BY <1>1, <1>3 DEF Original, Seam
<1>5. Base(nodes, o) = o BY <1>2, <1>3 DEF Base
<1> HIDE DEF o
<1>6. \A n \in DOMAIN nodes : nodes[n].kind = "promotion" <=> n > o
  BY <1>2, <1>3, <1>4
<1>7. \A n \in DOMAIN nodes : \A i \in DOMAIN nodes[n].parts :
        nodes[n].parts[i] \in DOMAIN nodes
  BY <1>2 DEF Shaped, Below
<1>8. \A n \in next..o : \A i \in DOMAIN nodes[n].parts :
        nodes[nodes[n].parts[i]].kind # "promotion"
  <2>1. next \in Nat \ {0}
    <3>1. next \in 1..MaxNodes + 1 /\ MaxNodes \in Nat BY <1>2, ExpressionsAssumption DEF NodesInv
    <3> QED BY <3>1
  <2>2. \A n \in next..o : n \in DOMAIN nodes BY <1>2, <1>4, <2>1
  <2> QED BY <1>3, <1>7, <2>2
<1> QED BY <1>1, <1>3, <1>4, <1>5, <1>6, <1>8 DEF OrderedNodes

(* A part that is exchanged for a promotion is what the promotion stands   *)
(* for, so the runs stay what they are.                                    *)
LEMMA RewriteTiles ==
  ASSUME NEW t, Tree(t), NEW u, NEW k, Rewritten(t, u, k), NEW lo, Tiled(t, lo),
         \A i \in DOMAIN t[k].parts : t[t[k].parts[i]].kind # "promotion"
  PROVE  /\ Tiled(u, lo)
         /\ DOMAIN t \subseteq DOMAIN u
         /\ \A n \in DOMAIN t : Base(u, n) = Base(t, n) /\ u[n].kind = t[n].kind
         /\ \A n \in DOMAIN t : n # k => u[n] = t[n]
         /\ \A n \in DOMAIN u \ DOMAIN t : u[n].kind = "promotion"
<1> DEFINE N == Len(t)  M == Len(u)
<1>1. Shaped(t) /\ t \in Seq(NodeSet) /\ Tree(u) /\ Shaped(u)
  BY AnalyserRewrites DEF Tree, Shaped
<1>2. /\ N \in Nat /\ DOMAIN t = 1..N /\ M \in Nat /\ DOMAIN u = 1..M /\ N <= M
      /\ k \in 1..N
  BY <1>1, LenProperties DEF Rewritten, Shaped
<1>3. DOMAIN t \subseteq DOMAIN u BY <1>2
<1>4. \A n \in DOMAIN t : n # k => u[n] = t[n] BY DEF Rewritten
<1>5. ASSUME NEW n \in DOMAIN t PROVE Base(u, n) = Base(t, n) /\ u[n].kind = t[n].kind
  <2>1. CASE n # k
    <3>1. u[n] = t[n] BY <1>4, <2>1
    <3> QED BY <3>1 DEF Base
  <2>2. CASE n = k
    <3>1. u[k].kind = t[k].kind /\ t[k].kind # "promotion" BY DEF Rewritten
    <3> QED BY <2>2, <3>1 DEF Base
  <2> QED BY <2>1, <2>2
<1>6. ASSUME NEW n \in (N+1)..M
      PROVE  u[n].kind = "promotion"
  <2>1. PICK to \in Types, p \in PartsOf(t[k]) : u[n] = Promotion(to, p) BY <1>6 DEF Rewritten
  <2>2. Promotion(to, p).kind = "promotion" BY DEF Promotion, Node
  <2> QED BY ONLY <2>1, <2>2
<1>7. \A n \in DOMAIN u \ DOMAIN t : u[n].kind = "promotion"
  <2>1. \A n \in DOMAIN u \ DOMAIN t : n \in (N+1)..M BY <1>2
  <2> QED BY <1>6, <2>1
<1>8. ASSUME NEW n \in DOMAIN t
      PROVE  /\ DOMAIN u[n].parts = DOMAIN t[n].parts /\ Len(u[n].parts) = Len(t[n].parts)
             /\ \A i \in DOMAIN t[n].parts : Base(u, u[n].parts[i]) = Base(t, t[n].parts[i])
  <2>1. \A i \in DOMAIN t[n].parts : t[n].parts[i] \in DOMAIN t BY <1>1 DEF Shaped, Below
  <2>2. CASE n # k
    <3>1. u[n] = t[n] BY <1>4, <2>2
    <3> QED BY <1>5, <2>1, <3>1
  <2>3. CASE n = k
    <3>1. DOMAIN u[k].parts = DOMAIN t[k].parts BY DEF Rewritten
    <3>2. Len(u[k].parts) = Len(t[k].parts)
      <4>1. k \in DOMAIN u /\ k \in DOMAIN t BY <1>2
      <4>2. u[k] \in NodeSet /\ t[k] \in NodeSet BY <1>1, <4>1, PartsBelow
      <4>3. u[k].parts \in Seq(Nat) /\ t[k].parts \in Seq(Nat) BY <4>2 DEF NodeSet
      <4> QED BY <3>1, <4>3, LenProperties
    <3>3. ASSUME NEW i \in DOMAIN t[k].parts
          PROVE  Base(u, u[k].parts[i]) = Base(t, t[k].parts[i])
      <4> DEFINE p == t[k].parts[i]  q == u[k].parts[i]
      <4>1. p \in DOMAIN t /\ t[p].kind # "promotion" BY <2>1, <2>3
      <4>2. q = p \/ (q \in (N+1)..M /\ u[q].parts = <<p>>) BY DEF Rewritten
      <4> HIDE DEF p, q
      <4>3. ASSUME q = p PROVE Base(u, q) = Base(t, p) BY <1>5, <4>1, <4>3
      <4>4. ASSUME q \in (N+1)..M, u[q].parts = <<p>> PROVE Base(u, q) = Base(t, p)
        <5>1. Base(u, q) = p BY <1>6, <4>4 DEF Base
        <5>2. Base(t, p) = p BY <4>1 DEF Base
        <5> QED BY <5>1, <5>2
      <4>5. Base(u, q) = Base(t, p) BY <4>2, <4>3, <4>4
      <4> QED BY <4>5 DEF p, q
    <3> QED BY <2>3, <3>1, <3>2, <3>3
  <2> QED BY <2>2, <2>3
<1>9. \A n \in DOMAIN t : t[n].kind # "promotion" => TiledAt(u, lo, n)
  <2>1. \A n \in DOMAIN t :
          /\ lo[n] = lo[n] /\ u[n].kind = t[n].kind
          /\ Base(u, n) = Base(t, n)
          /\ DOMAIN u[n].parts = DOMAIN t[n].parts /\ Len(u[n].parts) = Len(t[n].parts)
          /\ t[n].kind # "promotion" =>
               \A i \in DOMAIN t[n].parts : Base(u, u[n].parts[i]) = Base(t, t[n].parts[i])
    BY <1>5, <1>8
  <2>2. Tiled(t, lo) OBVIOUS
  <2> QED BY ONLY <1>1, <1>3, <2>1, <2>2, TilesKept
<1>10. Tiled(u, lo)
  <2>1. lo \in [Nat -> Nat] BY DEF Tiled
  <2>2. \A n \in DOMAIN u : u[n].kind # "promotion" => n \in DOMAIN t /\ t[n].kind # "promotion"
    BY <1>5, <1>7
  <2> QED BY <1>9, <2>1, <2>2 DEF Tiled
<1> QED BY <1>3, <1>4, <1>5, <1>7, <1>10

LEMMA AnalyserOrders ==
  ASSUME IInv, AnalyserMoves, NEW lo, OrderedNodes(lo)
  PROVE  OrderedNodes(lo)'
<1> DEFINE o == Original
<1>1. PICK u : \E errors \in Nat :
        Analysed(u, errors) /\ (u = nodes \/ Rewritten(nodes, u, next))
  BY DEF AnalyserMoves
<1>2. /\ nodes' = u /\ next' = next + 1
      /\ operands' = operands /\ root' = root /\ phase' = phase
      /\ u = nodes \/ Rewritten(nodes, u, next)
  BY <1>1 DEF Analysed
<1>3. phase = "analyse" /\ next <= o BY DEF AnalyserMoves
<1>4. /\ Tree(nodes) /\ Shaped(nodes) /\ next \in DOMAIN nodes
      /\ Len(nodes) \in Nat /\ DOMAIN nodes = 1..Len(nodes)
  BY <1>3, AtNode
<1>5. /\ Tiled(nodes, lo) /\ lo[o] = 1 /\ root = o /\ Base(nodes, root) = o
      /\ \A n \in DOMAIN nodes : nodes[n].kind = "promotion" <=> n > o
      /\ \A n \in next..o : \A i \in DOMAIN nodes[n].parts :
           nodes[nodes[n].parts[i]].kind # "promotion"
  BY <1>3 DEF OrderedNodes
<1>6. o \in DOMAIN nodes
  <2>1. NodesInv BY DEF IInv
  <2> QED BY <1>3, <2>1, OperandsAre DEF NodesInv, Original
<1>7. Original' = o BY <1>2 DEF Original
<1> HIDE DEF o
<1>8. /\ Tiled(u, lo) /\ DOMAIN nodes \subseteq DOMAIN u
      /\ \A n \in DOMAIN nodes : Base(u, n) = Base(nodes, n) /\ u[n].kind = nodes[n].kind
      /\ \A n \in DOMAIN nodes : n # next => u[n] = nodes[n]
      /\ \A n \in DOMAIN u \ DOMAIN nodes : u[n].kind = "promotion"
  <2>1. CASE u = nodes BY <1>5, <2>1
  <2>2. CASE Rewritten(nodes, u, next)
    <3>1. next \in next..o BY <1>3, <1>4, <1>6
    <3>2. \A i \in DOMAIN nodes[next].parts : nodes[nodes[next].parts[i]].kind # "promotion"
      BY <1>5, <3>1
    <3> QED BY <1>4, <1>5, <2>2, <3>2, RewriteTiles
  <2> QED BY <1>2, <2>1, <2>2
<1>9. \A n \in DOMAIN u : u[n].kind = "promotion" <=> n > o
  <2>1. Tree(u) BY <1>2, <1>4, AnalyserRewrites
  <2>2. u \in Seq(NodeSet) BY <2>1 DEF Tree, Shaped
  <2>3. DOMAIN u = 1..Len(u) /\ Len(u) \in Nat BY <2>2, LenProperties
  <2>4. \A n \in DOMAIN u \ DOMAIN nodes : n > o BY <1>4, <1>6, <2>3
  <2> QED BY <1>5, <1>8, <2>4
<1>10. ASSUME NEW n \in (next + 1)..o, NEW i \in DOMAIN u[n].parts
       PROVE  u[u[n].parts[i]].kind # "promotion"
  <2>1. n \in DOMAIN nodes /\ n # next /\ n \in next..o BY <1>4, <1>6
  <2>2. u[n] = nodes[n] BY <1>8, <2>1
  <2>3. nodes[n].parts[i] \in DOMAIN nodes BY <1>4, <1>10, <2>1, <2>2 DEF Shaped, Below
  <2> QED BY <1>5, <1>8, <1>10, <2>1, <2>2, <2>3
<1>11. Base(u, root) = o BY <1>5, <1>6, <1>8
<1> QED BY <1>2, <1>3, <1>5, <1>7, <1>8, <1>9, <1>10, <1>11 DEF OrderedNodes

LEMMA ConvertOrders ==
  ASSUME IInv, Convert, NEW lo, OrderedNodes(lo), OrderedCode(lo)
  PROVE  OrderedNodes(lo)' /\ OrderedCode(lo)'
<1> DEFINE to == Variables[target]  o == Original  N == Len(nodes)
<1>1. /\ phase = "analyse"
      /\ \/ nodes' = Append(nodes, Promotion(Promote(root, to), root)) /\ root' = N + 1
         \/ nodes' = nodes /\ root' = root
      /\ phase' \in {"translate", "refused", "threw"}
      /\ phase' = "translate" => pending' = <<[node |-> root', vals |-> <<>>]>>
      /\ operands' = operands /\ next' = next /\ code' = code
  BY DEF Convert, NewNode
<1>2. /\ Tree(nodes) /\ Shaped(nodes) /\ N \in Nat /\ DOMAIN nodes = 1..N
      /\ root \in DOMAIN nodes /\ o \in DOMAIN nodes /\ code = <<>>
      /\ to \in Types
  <2>1. NodesInv /\ CallsInv BY DEF IInv
  <2>2. Tree(nodes) /\ Shaped(nodes) /\ to \in Types BY <2>1, TypesAre DEF NodesInv, Tree
  <2>3. root \in DOMAIN nodes /\ code = <<>> BY <1>1, <2>1 DEF NodesInv, CallsInv
  <2>4. o \in DOMAIN nodes BY <1>1, <2>1, OperandsAre DEF NodesInv, Original
  <2> QED BY <2>1, <2>2, <2>3, <2>4, OperandsAre
<1>3. /\ Tiled(nodes, lo) /\ lo[o] = 1 /\ root = o
      /\ \A n \in DOMAIN nodes : nodes[n].kind = "promotion" <=> n > o
  BY <1>1 DEF OrderedNodes
<1>4. Promote(root, to) \in Types
  <2>1. Shaped(nodes) /\ Members(nodes) BY <1>2 DEF Tree
  <2>2. TypeOf(root) \in Types BY <1>2, <2>1, PrecisionTyped, PrecisionIsRule DEF TypeOf
  <2> QED BY <1>2, <2>2, PromoteTyped DEF Promote
<1>5. Original' = o BY <1>1 DEF Original
<1> DEFINE u == nodes'
<1>6. /\ Tree(u) /\ DOMAIN nodes \subseteq DOMAIN u /\ \A n \in DOMAIN nodes : u[n] = nodes[n]
      /\ \A n \in DOMAIN u \ DOMAIN nodes : u[n].kind = "promotion" /\ n > o
      /\ Base(u, root') = o
  <2>1. CASE nodes' = Append(nodes, Promotion(Promote(root, to), root)) /\ root' = N + 1
    <3> DEFINE p == Promotion(Promote(root, to), root)
    <3>1. Tree(u) /\ DOMAIN u = 1..(N + 1) BY <1>2, <1>4, <2>1, PromotionAdded
    <3>2. p \in NodeSet /\ p.kind = "promotion" /\ p.parts = <<root>>
      <4>1. root \in Nat BY <1>2
      <4>2. p \in NodeSet BY <1>4, <4>1, PromotionTyped
      <4> QED BY <4>2 DEF Promotion, Node
    <3>3. nodes \in Seq(NodeSet) BY <1>2 DEF Shaped
    <3>4. u = Append(nodes, p) BY <2>1
    <3> HIDE DEF p
    <3>5. u[N + 1] = p /\ \A n \in 1..N : u[n] = nodes[n]
      BY <3>2, <3>3, <3>4, AppendProperties
    <3>6. Base(u, N + 1) = root BY <3>2, <3>5 DEF Base
    <3>7. \A n \in DOMAIN u \ DOMAIN nodes : n = N + 1 /\ n > o BY <1>2, <3>1
    <3> QED BY <1>2, <1>3, <2>1, <3>1, <3>2, <3>5, <3>6, <3>7
  <2>2. CASE nodes' = nodes /\ root' = root
    <3>1. Base(nodes, root) = o BY <1>1 DEF OrderedNodes
    <3> QED BY <1>2, <2>2, <3>1
  <2> QED BY <1>1, <2>1, <2>2
<1> HIDE DEF o, u
<1>7. ASSUME NEW n \in DOMAIN nodes PROVE Base(u, n) = Base(nodes, n)
  BY <1>6 DEF Base
<1>8. \A n \in DOMAIN nodes : nodes[n].kind # "promotion" => TiledAt(u, lo, n)
  <2>1. \A n \in DOMAIN nodes : \A i \in DOMAIN nodes[n].parts : nodes[n].parts[i] \in DOMAIN nodes
    BY <1>2 DEF Shaped, Below
  <2>2. \A n \in DOMAIN nodes :
          /\ lo[n] = lo[n] /\ u[n].kind = nodes[n].kind
          /\ Base(u, n) = Base(nodes, n)
          /\ DOMAIN u[n].parts = DOMAIN nodes[n].parts
          /\ Len(u[n].parts) = Len(nodes[n].parts)
          /\ nodes[n].kind # "promotion" =>
               \A i \in DOMAIN nodes[n].parts :
                 Base(u, u[n].parts[i]) = Base(nodes, nodes[n].parts[i])
    BY <1>6, <1>7, <2>1
  <2> QED BY ONLY <1>2, <1>3, <1>6, <2>2, TilesKept
<1>9. Tiled(u, lo)
  <2>1. \A n \in DOMAIN u : u[n].kind # "promotion" => n \in DOMAIN nodes /\ nodes[n].kind # "promotion"
    BY <1>6
  <2> QED BY <1>3, <1>8, <2>1 DEF Tiled
<1>10. \A n \in DOMAIN u : u[n].kind = "promotion" <=> n > o
  BY <1>3, <1>6
<1>11. OrderedNodes(lo)'
  BY <1>1, <1>3, <1>5, <1>6, <1>9, <1>10 DEF OrderedNodes, u
<1>12. Effects(<<>>) = {} /\ Emitted(<<>>) = {}
  <2>1. DOMAIN <<>> = {} BY EmptySeq
  <2> QED BY <2>1 DEF Effects, Emitted
<1>13. Ascending(code') BY <1>1, <1>2, <1>12 DEF Ascending
<1>14. ASSUME phase' = "translate"
       PROVE  /\ pending' # <<>> /\ pending'[1].node = root'
              /\ \A k \in DOMAIN pending' : FromSource(u, pending'[k].node)
              /\ \A k \in 1..Len(pending')-1 :
                   pending'[k+1].node = u[pending'[k].node].parts[Len(pending'[k].vals) + 1]
              /\ Emitted(code') = (EffectsUpTo(Before(nodes, lo, Call.node, Len(Call.vals))))'
  <2> DEFINE x == [node |-> root', vals |-> <<>>]
  <2>1. x.node = root' /\ Len(x.vals) = 0 BY EmptySeq
  <2>2. pending' = <<x>> BY <1>1, <1>14
  <2> HIDE DEF x
  <2>3. pending' # <<>> /\ Len(pending') = 1 /\ DOMAIN pending' = {1} /\ pending'[1] = x
    BY <2>2, EmptySeq
  <2>4. Call' = x BY <2>3 DEF Call
  <2>5. Before(u, lo, root', 0) = 0 BY <1>3, <1>6 DEF Before
  <2>6. FromSource(u, root')
    <3>1. o \in DOMAIN u /\ u[o] = nodes[o] /\ nodes[o].kind # "promotion" BY <1>2, <1>3, <1>6
    <3> QED BY <1>6, <3>1 DEF FromSource
  <2>7. \A n \in DOMAIN u : ~(n <= 0)
    <3>1. u \in Seq(NodeSet) BY <1>6 DEF Tree, Shaped
    <3>2. DOMAIN u = 1..Len(u) BY <3>1, LenProperties
    <3> QED BY <3>2
  <2>8. (EffectsUpTo(Before(nodes, lo, Call.node, Len(Call.vals))))' = {}
    BY <2>1, <2>4, <2>5, <2>7 DEF EffectsUpTo, u
  <2>9. Emitted(code') = {} BY <1>1, <1>2, <1>12
  <2>10. 1..Len(pending')-1 = {} BY <2>3
  <2> QED BY <2>1, <2>3, <2>6, <2>8, <2>9, <2>10
<1>15. OrderedCode(lo)'
  BY <1>1, <1>13, <1>14 DEF OrderedCode, u
<1> QED BY <1>11, <1>15

(* The translator does not change the nodes.                               *)
LEMMA RunsStay ==
  ASSUME phase = "translate", phase' \in {"translate", "done", "threw"},
         UNCHANGED <<nodes, operands, root>>, NEW lo, OrderedNodes(lo)
  PROVE  OrderedNodes(lo)'
<1>1. Original' = Original BY DEF Original
<1> QED BY <1>1 DEF OrderedNodes

(* An instruction added at the end.                                        *)
LEMMA EmitsLast ==
  ASSUME NEW S, NEW c \in Seq(S), NEW x \in S
  PROVE  /\ x.op \notin {"CALL", "LOAD"} => Emitted(Append(c, x)) = Emitted(c)
         /\ x.op \in {"CALL", "LOAD"} => Emitted(Append(c, x)) = Emitted(c) \cup {x.node}
         /\ Ascending(c) /\ (x.op \in {"CALL", "LOAD"} => \A m \in Emitted(c) : m < x.node)
              => Ascending(Append(c, x))
<1> DEFINE d == Append(c, x)  n == Len(c)
<1>1. /\ n \in Nat /\ DOMAIN c = 1..n /\ DOMAIN d = 1..(n + 1)
      /\ d[n + 1] = x /\ \A i \in 1..n : d[i] = c[i]
  BY AppendProperties, LenProperties
<1> HIDE DEF d, n
<1>2. \A i : i \in 1..(n + 1) <=> (i \in 1..n \/ i = n + 1) BY <1>1
<1>3. n + 1 \notin 1..n BY <1>1
<1>4. CASE x.op \notin {"CALL", "LOAD"}
  <2>1. Effects(d) = Effects(c) BY <1>1, <1>2, <1>3, <1>4 DEF Effects
  <2>2. \A i \in Effects(c) : d[i] = c[i] BY <1>1 DEF Effects
  <2>3. Emitted(d) = Emitted(c) BY <2>1, <2>2 DEF Emitted
  <2>4. Ascending(c) => Ascending(d) BY <2>1, <2>2 DEF Ascending
  <2> QED BY <1>4, <2>3, <2>4 DEF d
<1>5. CASE x.op \in {"CALL", "LOAD"}
  <2>1. Effects(d) = Effects(c) \cup {n + 1} BY <1>1, <1>2, <1>3, <1>5 DEF Effects
  <2>2. \A i \in Effects(c) : d[i] = c[i] /\ i \in 1..n BY <1>1 DEF Effects
  <2>3. Emitted(d) = Emitted(c) \cup {x.node} BY <1>1, <2>1, <2>2 DEF Emitted
  <2>4. ASSUME Ascending(c), \A m \in Emitted(c) : m < x.node PROVE Ascending(d)
    <3>1. ASSUME NEW i \in Effects(d), NEW j \in Effects(d), i < j
          PROVE  d[i].node < d[j].node
      <4>1. i \in Effects(c)
        <5>1. j \in 1..(n + 1) BY <1>1, <3>1 DEF Effects
        <5>2. i # n + 1 BY <1>1, <3>1, <5>1
        <5> QED BY <2>1, <3>1, <5>2
      <4>2. CASE j \in Effects(c) BY <2>2, <2>4, <3>1, <4>1, <4>2 DEF Ascending
      <4>3. CASE j = n + 1
        <5>1. c[i].node \in Emitted(c) BY <4>1 DEF Emitted
        <5> QED BY <1>1, <2>2, <2>4, <4>1, <4>3, <5>1
      <4> QED BY <2>1, <3>1, <4>2, <4>3
    <3> QED BY <3>1 DEF Ascending
  <2> QED BY <1>5, <2>3, <2>4 DEF d
<1> QED BY <1>4, <1>5

(* A call ends with the instruction its node has, or with none.            *)
Emits(n, inst) ==
  /\ inst.node = n
  /\ inst.op \in {"CALL", "LOAD"} <=> nodes[n].kind \in {"call", "read"}

Ends ==
  /\ phase = "translate" /\ pending # <<>> /\ Len(Call.vals) = Len(here.parts)
  /\ \E v, instrs :
       /\ Returns(v, instrs)
       /\ \/ instrs = <<>> /\ here.kind \in Leaf
          \/ \E inst : instrs = <<inst>> /\ Emits(Call.node, inst)

TranslatorMoves == Ends \/ (phase = "translate" /\ Throw) \/ TranslateOperand

LEMMA ComputeMoves ==
  ASSUME phase = "translate", pending # <<>>, Len(Call.vals) = Len(here.parts),
         NEW t, NEW op, NEW args, Compute(t, op, args),
         op \in {"CALL", "LOAD"} <=> here.kind \in {"call", "read"}
  PROVE  TranslatorMoves
<1>1. CASE Throws(t) BY <1>1 DEF Compute, TranslatorMoves
<1>2. CASE ~Throws(t)
  <2> DEFINE tmp == makeTemp(toIRType(t))  inst == IRInst(Call.node, op, tmp, args)
  <2>1. Returns(tmp, <<inst>>) BY <1>2 DEF Compute
  <2>2. inst.node = Call.node /\ inst.op = op BY DEF IRInst
  <2> HIDE DEF tmp, inst
  <2>3. Emits(Call.node, inst) BY <2>2 DEF Emits, here
  <2> QED BY <2>1, <2>3 DEF Ends, TranslatorMoves
<1> QED BY <1>1, <1>2

LEMMA TranslatorActs ==
  ASSUME \/ TranslateOperand \/ TranslateLiteral \/ TranslateVariable \/ TranslateBinary
         \/ TranslateUnary \/ TranslateCall \/ TranslatePromotion \/ TranslateRead
         \/ TranslateField
  PROVE  TranslatorMoves
<1>1. CASE TranslateOperand BY <1>1 DEF TranslatorMoves
<1>2. CASE TranslateLiteral
  BY <1>2 DEF TranslatorMoves, Ends, TranslateLiteral, Translate, Leaf
<1>3. CASE TranslateVariable
  BY <1>3 DEF TranslatorMoves, Ends, TranslateVariable, Translate, Leaf
<1>4. CASE TranslateBinary
  <2>1. binaryOp(here.op) \notin {"CALL", "LOAD"} BY DEF binaryOp
  <2> QED BY <1>4, <2>1, ComputeMoves DEF TranslateBinary, Translate
<1>5. CASE TranslateUnary
  <2>1. unaryOp(here.op) \notin {"CALL", "LOAD"} BY DEF unaryOp
  <2> QED BY <1>5, <2>1, ComputeMoves DEF TranslateUnary, Translate
<1>6. CASE TranslateCall BY <1>6, ComputeMoves DEF TranslateCall, Translate
<1>7. CASE TranslatePromotion BY <1>7, ComputeMoves DEF TranslatePromotion, Translate
<1>8. CASE TranslateRead BY <1>8, ComputeMoves DEF TranslateRead, Translate
<1>9. CASE TranslateField BY <1>9, ComputeMoves DEF TranslateField, Translate
<1> QED BY <1>1, <1>2, <1>3, <1>4, <1>5, <1>6, <1>7, <1>8, <1>9

(* What a call stands for, when it begins and when it has its values.      *)
LEMMA RunOfCall ==
  ASSUME IInv, phase = "translate", NEW lo, OrderedNodes(lo), OrderedCode(lo)
  PROVE  LET b == Base(nodes, Call.node)
             m == Len(here.parts)
         IN  /\ b \in DOMAIN nodes /\ nodes[b].kind # "promotion" /\ b \in Nat /\ m \in Nat
             /\ DOMAIN here.parts = 1..m
             /\ here.kind = "promotion" => m = 1 /\ here.parts[1] = b
             /\ here.kind # "promotion" => Call.node = b
             /\ here.kind = "promotion" => Before(nodes, lo, Call.node, m) = b
             /\ here.kind # "promotion" => Before(nodes, lo, Call.node, m) = b - 1
             /\ \A i \in 1..m :
                  /\ FromSource(nodes, here.parts[i])
                  /\ lo[Base(nodes, here.parts[i])] - 1 = Before(nodes, lo, Call.node, i - 1)
<1> DEFINE n == Call.node  b == Base(nodes, n)  m == Len(here.parts)
<1>1. /\ pending # <<>> /\ \A k \in DOMAIN pending : FromSource(nodes, pending[k].node)
      /\ Tiled(nodes, lo)
  BY DEF OrderedCode, OrderedNodes
<1>2. /\ DOMAIN pending = 1..Len(pending) /\ Len(pending) \in Nat \ {0}
      /\ n \in DOMAIN nodes /\ m \in Nat /\ here.parts \in Seq(Nat) /\ Formed(here)
  BY <1>1, AtCall
<1>3. NodesInv /\ Shaped(nodes) /\ DOMAIN nodes = 1..Len(nodes) /\ Len(nodes) \in Nat
  <2>1. NodesInv BY DEF IInv
  <2> QED BY <2>1, OperandsAre DEF NodesInv, Tree
<1>4. b \in DOMAIN nodes /\ nodes[b].kind # "promotion" /\ b \in Nat
  <2>1. FromSource(nodes, n) BY <1>1, <1>2 DEF Call
  <2> QED BY <1>3, <2>1 DEF FromSource
<1>5. DOMAIN here.parts = 1..m BY <1>2, LenProperties
<1>6. here = nodes[n] BY DEF here
<1>7. lo \in [Nat -> Nat] BY <1>1 DEF Tiled
<1>8. CASE here.kind = "promotion"
  <2>1. m = 1 /\ here.parts[1] = b
    <3>1. m = 1 BY <1>2, <1>8 DEF Formed, Single
    <3> QED BY <1>6, <1>8, <3>1 DEF Base
  <2>2. Base(nodes, b) = b /\ FromSource(nodes, b) BY <1>4 DEF Base, FromSource
  <2>3. Before(nodes, lo, n, 1) = b BY <1>6, <2>1, <2>2 DEF Before
  <2>4. Before(nodes, lo, n, 0) = lo[b] - 1 BY DEF Before
  <2>5. \A i \in 1..m : i = 1 /\ i - 1 = 0 BY <2>1
  <2> HIDE DEF b, m, n
  <2>6. \A i \in 1..m :
          /\ FromSource(nodes, here.parts[i])
          /\ lo[Base(nodes, here.parts[i])] - 1 = Before(nodes, lo, n, i - 1)
    BY <2>1, <2>2, <2>4, <2>5
  <2>7. Before(nodes, lo, n, m) = b BY <2>1, <2>3
  <2> QED BY <1>2, <1>4, <1>5, <1>8, <2>1, <2>6, <2>7 DEF b, m, n
<1>9. CASE here.kind # "promotion"
  <2>1. b = n BY <1>6, <1>9 DEF Base
  <2>2. TiledAt(nodes, lo, n) BY <1>1, <1>2, <1>6, <1>9 DEF Tiled
  <2>3. Before(nodes, lo, n, m) = b - 1 BY <1>6, <2>1, <2>2 DEF TiledAt
  <2>4. ASSUME NEW i \in 1..m
        PROVE  /\ FromSource(nodes, here.parts[i])
               /\ lo[Base(nodes, here.parts[i])] - 1 = Before(nodes, lo, n, i - 1)
    <3> DEFINE p == here.parts[i]  c == Base(nodes, p)
    <3>1. FromSource(nodes, p) /\ lo[c] = Before(nodes, lo, n, i - 1) + 1
      BY <1>5, <1>6, <2>2 DEF TiledAt
    <3>2. Before(nodes, lo, n, i - 1) \in Int
      <4>1. CASE i - 1 = 0
        <5>1. lo[b] \in Nat BY <1>4, <1>7
        <5>2. Before(nodes, lo, n, i - 1) = lo[b] - 1 BY <4>1 DEF Before
        <5> HIDE DEF b
        <5> QED BY <5>1, <5>2
      <4>2. CASE i - 1 # 0
        <5>1. i - 1 \in 1..m BY <1>2, <4>2
        <5>2. FromSource(nodes, here.parts[i - 1]) BY <1>5, <1>6, <2>2, <5>1 DEF TiledAt
        <5>3. Base(nodes, here.parts[i - 1]) \in DOMAIN nodes BY <5>2 DEF FromSource
        <5>4. Before(nodes, lo, n, i - 1) = Base(nodes, here.parts[i - 1])
          BY <1>6, <4>2 DEF Before
        <5> QED BY <1>3, <5>3, <5>4
      <4> QED BY <4>1, <4>2
    <3> DEFINE e == Before(nodes, lo, n, i - 1)  x == lo[c]
    <3>3. e \in Int /\ x = e + 1 BY <3>1, <3>2
    <3> HIDE DEF e, x
    <3>4. x - 1 = e BY <3>3
    <3> QED BY <3>1, <3>4 DEF e, x
  <2> HIDE DEF b, m, n
  <2> QED BY <1>2, <1>4, <1>5, <1>9, <2>1, <2>3, <2>4 DEF b, m, n
<1> QED BY <1>8, <1>9

LEMMA OperandOrders ==
  ASSUME IInv, TranslateOperand, NEW lo, OrderedNodes(lo), OrderedCode(lo)
  PROVE  OrderedNodes(lo)' /\ OrderedCode(lo)'
<1> DEFINE j == Len(Call.vals)  i == j + 1  p == here.parts[i]
           x == [node |-> p, vals |-> <<>>]  l == Len(pending)
<1>1. /\ phase = "translate" /\ pending # <<>> /\ j < Len(here.parts)
      /\ pending' = Append(pending, x)
      /\ UNCHANGED <<nodes, operands, root, phase, code>>
  BY DEF TranslateOperand
<1>2. /\ pending \in Seq(Calls) /\ l \in Nat \ {0} /\ DOMAIN pending = 1..l
      /\ j \in Nat /\ Len(here.parts) \in Nat /\ here.parts \in Seq(Nat)
  BY <1>1, AtCall
<1>3. i \in 1..Len(here.parts) /\ i - 1 = j
  <2> DEFINE m == Len(here.parts)
  <2>1. j \in Nat /\ m \in Nat /\ j < m BY <1>1, <1>2
  <2> HIDE DEF j, m
  <2>2. j + 1 \in 1..m /\ (j + 1) - 1 = j BY <2>1
  <2> QED BY <2>2 DEF m
<1> HIDE DEF j, i
<1>4. /\ FromSource(nodes, p)
      /\ lo[Base(nodes, p)] - 1 = Before(nodes, lo, Call.node, j)
  BY <1>1, <1>3, RunOfCall
<1>5. p \in Nat
  <2>1. DOMAIN here.parts = 1..Len(here.parts) BY <1>2, LenProperties
  <2> QED BY <1>1, <1>3, <2>1, AtCall
<1> HIDE DEF p
<1>6. x \in Calls /\ x.node = p /\ Len(x.vals) = 0 BY <1>5, EmptySeq DEF Calls
<1> HIDE DEF x
<1>7. /\ Len(pending') = l + 1 /\ DOMAIN pending' = 1..(l + 1)
      /\ pending'[l + 1] = x /\ \A k \in 1..l : pending'[k] = pending[k]
      /\ pending' # <<>>
  BY <1>1, <1>2, <1>6, AppendProperties, LenProperties, EmptySeq
<1>8. /\ Ascending(code) /\ pending[1].node = root
      /\ \A k \in 1..l : FromSource(nodes, pending[k].node)
      /\ \A k \in 1..l-1 :
           pending[k+1].node = nodes[pending[k].node].parts[Len(pending[k].vals) + 1]
      /\ Emitted(code) = EffectsUpTo(Before(nodes, lo, Call.node, j))
  BY <1>1, <1>2 DEF OrderedCode, j
<1>9. Call = pending[l] /\ here = nodes[pending[l].node] BY DEF Call, here
<1>10. p = nodes[pending[l].node].parts[Len(pending[l].vals) + 1]
  BY <1>9 DEF p, i, j
<1> HIDE DEF l
<1>11. pending'[1].node = root
  <2>1. 1 \in 1..l BY <1>2
  <2> QED BY <1>7, <1>8, <2>1
<1>12. \A k \in DOMAIN pending' : FromSource(nodes, pending'[k].node)
  <2>1. \A k \in 1..(l+1) : k \in 1..l \/ k = l + 1 BY <1>2
  <2> QED BY <1>4, <1>6, <1>7, <1>8, <2>1
<1>13. ASSUME NEW k \in 1..Len(pending')-1
       PROVE  pending'[k+1].node = nodes[pending'[k].node].parts[Len(pending'[k].vals) + 1]
  <2>1. k \in 1..l /\ (k = l \/ (k \in 1..l-1 /\ k + 1 \in 1..l)) BY <1>2, <1>7
  <2>2. pending'[k] = pending[k] BY <1>7, <2>1
  <2>3. CASE k = l BY <1>6, <1>7, <1>10, <2>2, <2>3
  <2>4. CASE k \in 1..l-1 /\ k + 1 \in 1..l
    <3>1. pending'[k+1] = pending[k+1] BY <1>7, <2>4
    <3> QED BY <1>8, <2>2, <2>4, <3>1
  <2> QED BY <2>1, <2>3, <2>4
<1>14. Call' = x BY <1>7 DEF Call
<1>15. Before(nodes, lo, p, 0) = Before(nodes, lo, Call.node, j) BY <1>4 DEF Before
<1>16. Emitted(code') = (EffectsUpTo(Before(nodes, lo, Call.node, Len(Call.vals))))'
  BY <1>1, <1>6, <1>8, <1>14, <1>15 DEF EffectsUpTo
<1>17. OrderedCode(lo)'
  BY <1>1, <1>7, <1>8, <1>11, <1>12, <1>13, <1>16 DEF OrderedCode
<1> QED BY <1>1, <1>17, RunsStay

(* What a call emits when it ends.                                         *)
LEMMA EndEmits ==
  ASSUME IInv, phase = "translate", Len(Call.vals) = Len(here.parts),
         NEW lo, OrderedNodes(lo), OrderedCode(lo), NEW instrs,
         \/ instrs = <<>> /\ here.kind \in Leaf
         \/ \E inst : instrs = <<inst>> /\ Emits(Call.node, inst)
  PROVE  /\ \E S : code \o instrs \in Seq(S)
         /\ Ascending(code \o instrs)
         /\ Emitted(code \o instrs) = EffectsUpTo(Base(nodes, Call.node))
<1> DEFINE b == Base(nodes, Call.node)
<1>1. /\ code \in Seq(Instructions) /\ Ascending(code) /\ pending # <<>>
      /\ Emitted(code) = EffectsUpTo(Before(nodes, lo, Call.node, Len(here.parts)))
  BY AtCall DEF OrderedCode
<1>2. /\ b \in Nat
      /\ here.kind = "promotion" => Before(nodes, lo, Call.node, Len(here.parts)) = b
      /\ here.kind # "promotion" =>
           Call.node = b /\ Before(nodes, lo, Call.node, Len(here.parts)) = b - 1
  BY RunOfCall
<1>3. here = nodes[Call.node] /\ DOMAIN nodes = 1..Len(nodes) /\ Len(nodes) \in Nat
      /\ Call.node \in DOMAIN nodes
  <2>1. NodesInv BY DEF IInv
  <2> QED BY <1>1, <2>1, OperandsAre, AtCall DEF here
<1> HIDE DEF b
<1>4. /\ \A m \in Emitted(code) : here.kind # "promotion" => m < b
      /\ here.kind \notin {"call", "read"} => Emitted(code) = EffectsUpTo(b)
      /\ here.kind \in {"call", "read"} => EffectsUpTo(b) = Emitted(code) \cup {b}
  <2>1. CASE here.kind = "promotion" BY <1>1, <1>2, <2>1
  <2>2. CASE here.kind # "promotion"
    <3>1. Emitted(code) = EffectsUpTo(b - 1) /\ here = nodes[b] /\ b \in DOMAIN nodes
      BY <1>1, <1>2, <1>3, <2>2
    <3>2. \A n \in DOMAIN nodes : n <= b <=> (n <= b - 1 \/ n = b) BY <1>2, <1>3
    <3>3. \A n \in DOMAIN nodes : n <= b - 1 => n < b BY <1>2, <1>3
    <3> QED BY <3>1, <3>2, <3>3 DEF EffectsUpTo
  <2> QED BY <2>1, <2>2
<1>5. CASE instrs = <<>> /\ here.kind \in Leaf
  <2>1. code \o instrs = code BY <1>1, <1>5, ConcatEmptySeq
  <2>2. here.kind \notin {"call", "read"} BY <1>5 DEF Leaf
  <2> QED BY <1>1, <1>4, <2>1, <2>2 DEF b
<1>6. CASE \E inst : instrs = <<inst>> /\ Emits(Call.node, inst)
  <2>1. PICK inst : instrs = <<inst>> /\ Emits(Call.node, inst) BY <1>6
  <2> DEFINE S == Instructions \cup {inst}
  <2>2. code \in Seq(S) /\ inst \in S
    <3>1. Instructions \subseteq S OBVIOUS
    <3> HIDE DEF S
    <3>2. code \in Seq(S) BY <1>1, <3>1, SeqMonotonic
    <3> QED BY <3>2 DEF S
  <2> HIDE DEF S
  <2>3. code \o instrs = Append(code, inst) BY <2>1, <2>2, AppendIsConcat
  <2>4. Append(code, inst) \in Seq(S) BY <2>2, AppendProperties
  <2>5. inst.node = Call.node /\ (inst.op \in {"CALL", "LOAD"} <=> here.kind \in {"call", "read"})
    BY <1>3, <2>1 DEF Emits
  <2>6. here.kind \in {"call", "read"} => inst.node = b BY <1>2, <2>5
  <2>7. /\ inst.op \notin {"CALL", "LOAD"} => Emitted(Append(code, inst)) = Emitted(code)
        /\ inst.op \in {"CALL", "LOAD"}
             => Emitted(Append(code, inst)) = Emitted(code) \cup {inst.node}
        /\ Ascending(code)
             /\ (inst.op \in {"CALL", "LOAD"} => \A m \in Emitted(code) : m < inst.node)
             => Ascending(Append(code, inst))
    BY <2>2, EmitsLast
  <2>8. Ascending(Append(code, inst)) BY <1>1, <1>4, <2>5, <2>6, <2>7
  <2>9. Emitted(Append(code, inst)) = EffectsUpTo(b) BY <1>4, <2>5, <2>6, <2>7
  <2> QED BY <2>3, <2>4, <2>8, <2>9 DEF b
<1> QED BY <1>5, <1>6

(* The call that gets the value has translated one operand more.           *)
LEMMA CallerOrders ==
  ASSUME IInv, IInv', phase = "translate", phase' = "translate", UNCHANGED <<nodes, root>>,
         NEW lo, OrderedNodes(lo), OrderedCode(lo),
         Callers # <<>>, NEW v,
         pending' = [Callers EXCEPT ![Len(Callers)].vals = Append(@, v)],
         Ascending(code'), Emitted(code') = EffectsUpTo(Base(nodes, Call.node))
  PROVE  OrderedCode(lo)'
<1> DEFINE f == Callers  m == Len(f)  l == Len(pending)  r == f[m].vals
<1>1. /\ pending # <<>> /\ pending[1].node = root
      /\ \A k \in DOMAIN pending : FromSource(nodes, pending[k].node)
      /\ \A k \in 1..l-1 :
           pending[k+1].node = nodes[pending[k].node].parts[Len(pending[k].vals) + 1]
  BY DEF OrderedCode
<1>2. pending \in Seq(Calls) BY <1>1, AtCall
<1>3. /\ f \in Seq(Calls) /\ m = l - 1 /\ DOMAIN f = 1..m /\ DOMAIN pending = 1..l
      /\ l \in Nat \ {0} /\ \A k \in 1..m : f[k] = pending[k]
  BY <1>1, <1>2, FrontIs DEF Callers
<1>4. m \in Nat \ {0}
  <2>1. m # 0 BY <1>3, EmptySeq
  <2> HIDE DEF m, l
  <2> QED BY <1>3, <2>1
<1>5. r \in Seq(Values)
  <2>1. f[m] \in Calls BY <1>3, <1>4
  <2> QED BY <2>1 DEF Calls
<1>6. Len(Append(r, v)) = Len(r) + 1
  <2> DEFINE S == Values \cup {v}
  <2>1. Values \subseteq S /\ v \in S OBVIOUS
  <2> HIDE DEF S, r
  <2>2. r \in Seq(S) BY <1>5, <2>1, SeqMonotonic
  <2> QED BY <2>1, <2>2, AppendProperties
<1>7. /\ DOMAIN pending' = 1..m /\ \A k \in 1..m : k # m => pending'[k] = pending[k]
      /\ pending'[m].node = pending[m].node /\ pending'[m].vals = Append(r, v)
  <2>1. f[m] \in Calls BY <1>3, <1>4
  <2>2. f[m] = [node |-> f[m].node, vals |-> r] BY <2>1 DEF Calls
  <2>3. pending'[m] = [f[m] EXCEPT !.vals = Append(r, v)] BY <1>3, <1>4
  <2>4. pending'[m].node = f[m].node /\ pending'[m].vals = Append(r, v) BY <2>2, <2>3
  <2>5. DOMAIN pending' = 1..m /\ \A k \in 1..m : k # m => pending'[k] = f[k] BY <1>3
  <2>6. m \in 1..m BY <1>4
  <2> HIDE DEF f, m, r
  <2> QED BY <1>3, <2>4, <2>5, <2>6
<1>8. Len(pending') = m
  <2>1. pending' \in Seq(Calls) BY DEF IInv, CallsInv
  <2> HIDE DEF m
  <2> QED BY <1>4, <1>7, <2>1, LenProperties
<1>9. Len(pending'[m].vals) = Len(pending[m].vals) + 1
  <2>1. f[m] = pending[m] BY <1>3, <1>4
  <2> QED BY <1>6, <1>7, <2>1
<1>10. m \in DOMAIN pending /\ m \in 1..l-1 /\ m + 1 = l
  <2> HIDE DEF m, l
  <2> QED BY <1>3, <1>4
<1>11. Call.node = nodes[pending[m].node].parts[Len(pending[m].vals) + 1]
  BY <1>1, <1>10 DEF Call
<1>12. Len(pending[m].vals) \in Nat
  <2>1. pending[m] \in Calls BY <1>2, <1>10
  <2>2. pending[m].vals \in Seq(Values) BY <2>1 DEF Calls
  <2> QED BY <2>2, LenProperties
<1> HIDE DEF f, r, m, l
<1>13. \A k \in 1..m : pending'[k].node = pending[k].node BY <1>7
<1>14. pending' # <<>> /\ pending'[1].node = root
  <2>1. 1 \in 1..m BY <1>4
  <2>2. pending'[1].node = root BY <1>1, <1>13, <2>1
  <2>3. pending' # <<>> BY <1>4, <1>8, EmptySeq
  <2> QED BY <2>2, <2>3
<1>15. \A k \in DOMAIN pending' : FromSource(nodes, pending'[k].node)
  <2>1. \A k \in 1..m : k \in 1..l BY <1>3, <1>4
  <2> QED BY <1>1, <1>3, <1>7, <1>13, <2>1
<1>16. ASSUME NEW k \in 1..m-1
       PROVE  pending'[k+1].node = nodes[pending'[k].node].parts[Len(pending'[k].vals) + 1]
  <2>1. k \in 1..m /\ k # m /\ k + 1 \in 1..m /\ k \in 1..l-1 BY <1>3, <1>4
  <2>2. pending'[k] = pending[k] /\ pending'[k+1].node = pending[k+1].node BY <1>7, <1>13, <2>1
  <2> QED BY <1>1, <2>1, <2>2
<1>17. Call' = pending'[m] BY <1>8 DEF Call
<1>18. Before(nodes, lo, pending'[m].node, Len(pending'[m].vals)) = Base(nodes, Call.node)
  <2> DEFINE j == Len(pending[m].vals)
  <2>1. j + 1 # 0 BY <1>12
  <2> QED BY <1>7, <1>9, <1>11, <2>1 DEF Before
<1>19. Emitted(code') = (EffectsUpTo(Before(nodes, lo, Call.node, Len(Call.vals))))'
  BY <1>17, <1>18 DEF EffectsUpTo
<1> QED BY <1>8, <1>14, <1>15, <1>16, <1>19 DEF OrderedCode

LEMMA EndOrders ==
  ASSUME IInv, IInv', Ends, NEW lo, OrderedNodes(lo), OrderedCode(lo)
  PROVE  OrderedNodes(lo)' /\ OrderedCode(lo)'
<1> DEFINE b == Base(nodes, Call.node)
<1>1. PICK v, instrs :
        /\ Returns(v, instrs)
        /\ \/ instrs = <<>> /\ here.kind \in Leaf
           \/ \E inst : instrs = <<inst>> /\ Emits(Call.node, inst)
  BY DEF Ends
<1>2. phase = "translate" /\ pending # <<>> /\ Len(Call.vals) = Len(here.parts)
  BY DEF Ends
<1> DEFINE c == code \o instrs
<1>3. Ascending(c) /\ Emitted(c) = EffectsUpTo(b) /\ \E S : c \in Seq(S)
  BY <1>1, <1>2, EndEmits
<1> HIDE DEF c
<1>4. UNCHANGED <<nodes, operands, root>> BY <1>1 DEF Returns
<1>5. CASE Callers # <<>>
  <2>1. /\ pending' = [Callers EXCEPT ![Len(Callers)].vals = Append(@, v)]
        /\ code' = c /\ phase' = phase
    BY <1>1, <1>5 DEF Returns, c
  <2>2. OrderedCode(lo)' BY <1>2, <1>3, <1>4, <1>5, <2>1, CallerOrders
  <2> QED BY <1>2, <1>4, <2>1, <2>2, RunsStay
<1>6. CASE Callers = <<>>
  <2> DEFINE store == IRInst(0, "STORE", Val("VAR", toIRType(Variables[target]), target), <<v>>)
  <2>1. code' = c \o <<store>> /\ phase' = "done" BY <1>1, <1>6 DEF Returns, c
  <2>2. store.op = "STORE" BY DEF IRInst
  <2> HIDE DEF store
  <2>3. PICK S : c \in Seq(S) BY <1>3
  <2> DEFINE T == S \cup {store}
  <2>4. c \in Seq(T) /\ store \in T
    <3>1. S \subseteq T /\ store \in T OBVIOUS
    <3> HIDE DEF T
    <3> QED BY <2>3, <3>1, SeqMonotonic
  <2> HIDE DEF T
  <2>5. code' = Append(c, store) BY <2>1, <2>4, AppendIsConcat
  <2>6. Ascending(code') /\ Emitted(code') = EffectsUpTo(b)
    BY <1>3, <2>2, <2>4, <2>5, EmitsLast
  <2>7. b = Original
    <3>1. pending \in Seq(Calls) BY <1>2, AtCall
    <3>2. Len(pending) \in Nat \ {0} /\ Len(Callers) = Len(pending) - 1
      BY <1>2, <3>1, FrontIs DEF Callers
    <3>3. Len(Callers) = 0 BY <1>6, EmptySeq
    <3>4. Len(pending) = 1 BY <3>2, <3>3
    <3>5. Call.node = root BY <1>2, <3>4 DEF Call, OrderedCode
    <3> QED BY <1>2, <3>5 DEF OrderedNodes
  <2>8. EffectsUpTo(b) = {n \in DOMAIN nodes : nodes[n].kind \in {"call", "read"}}
    <3>1. NodesInv BY DEF IInv
    <3>2. DOMAIN nodes = 1..Len(nodes) /\ Len(nodes) \in Nat /\ Original \in Nat
      BY <1>2, <3>1, OperandsAre DEF NodesInv, Original
    <3>3. \A n \in DOMAIN nodes : nodes[n].kind = "promotion" <=> n > Original
      BY <1>2 DEF OrderedNodes
    <3>4. \A n \in DOMAIN nodes : nodes[n].kind \in {"call", "read"} => n <= Original
      BY <3>2, <3>3
    <3> QED BY <2>7, <3>4 DEF EffectsUpTo
  <2>9. OrderedCode(lo)' BY <1>4, <2>1, <2>6, <2>8 DEF OrderedCode
  <2> QED BY <1>2, <1>4, <2>1, <2>9, RunsStay
<1> QED BY <1>5, <1>6

LEMMA ThrowOrders ==
  ASSUME IInv, phase = "translate", Throw, NEW lo, OrderedNodes(lo), OrderedCode(lo)
  PROVE  OrderedNodes(lo)' /\ OrderedCode(lo)'
<1>1. phase' = "threw" /\ UNCHANGED <<nodes, operands, root, code>> BY DEF Throw
<1>2. OrderedCode(lo)' BY <1>1 DEF OrderedCode
<1> QED BY <1>1, <1>2, RunsStay

LEMMA OrderBegins ==
  ASSUME Init
  PROVE  OrderInv
<1> DEFINE lo == [n \in Nat |-> 0]
<1>1. DOMAIN nodes = {} /\ DOMAIN operands = {} /\ DOMAIN code = {} /\ phase = "parse"
      /\ Len(nodes) = 0 /\ Len(operands) = 0
  BY EmptySeq DEF Init
<1>2. lo \in [Nat -> Nat] OBVIOUS
<1> HIDE DEF lo
<1>3. OrderedNodes(lo) BY <1>1, <1>2 DEF OrderedNodes, Tiled, Seam
<1>4. OrderedCode(lo) BY <1>1 DEF OrderedCode, Ascending, Effects
<1> QED BY <1>3, <1>4 DEF OrderInv

(* As long as nothing is translated nothing is emitted.                    *)
LEMMA NoCodeYet ==
  ASSUME IInv', phase' \in {"parse", "analyse"}, NEW lo
  PROVE  OrderedCode(lo)'
<1>1. code' = <<>> BY DEF IInv, CallsInv
<1>2. DOMAIN code' = {} BY <1>1, EmptySeq
<1> QED BY <1>2 DEF OrderedCode, Ascending, Effects

LEMMA OrderKeeps ==
  ASSUME IInv, OrderInv, [Next]_vars
  PROVE  OrderInv'
<1>1. IInv' BY Keeps
<1>2. PICK lo : OrderedNodes(lo) /\ OrderedCode(lo) BY DEF OrderInv
<1>3. ASSUME ParserMoves PROVE OrderInv'
  <2>1. PICK new, k : Made(new, k) BY <1>3 DEF ParserMoves
  <2>2. PICK mo : OrderedNodes(mo)' BY <1>2, <2>1, ParserOrders
  <2>3. phase' = "parse" BY <2>1 DEF Made, Parsed
  <2>4. OrderedCode(mo)' BY <1>1, <2>3, NoCodeYet
  <2> QED BY <2>2, <2>4 DEF OrderInv
<1>4. CASE EndParse
  <2>1. OrderedNodes(lo)' BY <1>2, <1>4, ParseEndOrders
  <2>2. phase' = "analyse" BY <1>4 DEF EndParse
  <2>3. OrderedCode(lo)' BY <1>1, <2>2, NoCodeYet
  <2> QED BY <2>1, <2>3 DEF OrderInv
<1>5. ASSUME AnalyserMoves PROVE OrderInv'
  <2>1. OrderedNodes(lo)' BY <1>2, <1>5, AnalyserOrders
  <2>2. phase' = "analyse" BY <1>5 DEF AnalyserMoves, Analysed
  <2>3. OrderedCode(lo)' BY <1>1, <2>2, NoCodeYet
  <2> QED BY <2>1, <2>3 DEF OrderInv
<1>6. CASE Convert
  <2>1. OrderedNodes(lo)' /\ OrderedCode(lo)' BY <1>2, <1>6, ConvertOrders
  <2> QED BY <2>1 DEF OrderInv
<1>7. ASSUME TranslatorMoves PROVE OrderInv'
  <2>1. OrderedNodes(lo)' /\ OrderedCode(lo)'
    BY <1>1, <1>2, <1>7, EndOrders, ThrowOrders, OperandOrders DEF TranslatorMoves
  <2> QED BY <2>1 DEF OrderInv
<1>8. ASSUME UNCHANGED vars PROVE OrderInv'
  <2>1. OrderedNodes(lo)' /\ OrderedCode(lo)'
    BY <1>2, <1>8 DEF vars, OrderedNodes, OrderedCode, Original, Call, EffectsUpTo
  <2> QED BY <2>1 DEF OrderInv
<1>9. CASE ParseLeaf \/ ParseUnary \/ ParseBinary \/ ParseRead \/ ParseCall \/ ParseField
  BY <1>3, <1>9, LeafParsed, UnaryParsed, BinaryParsed, ReadParsed, CallParsed, FieldParsed
<1>10. CASE \/ SkipArgument \/ AnalyseLeaf \/ AnalyseVariable \/ AnalyseUnary
            \/ AnalyseArithmetic \/ AnalyseComparison \/ AnalyseCall \/ AnalyseRead
            \/ AnalyseField
  BY <1>5, <1>10, LeafAnalysed, VariableAnalysed, UnaryAnalysed, ArithmeticAnalysed,
     ComparisonAnalysed, CallAnalysed, ReadAnalysed, FieldAnalysed
<1>11. CASE \/ TranslateOperand \/ TranslateLiteral \/ TranslateVariable \/ TranslateBinary
            \/ TranslateUnary \/ TranslateCall \/ TranslatePromotion \/ TranslateRead
            \/ TranslateField
  BY <1>7, <1>11, TranslatorActs
<1>12. CASE Done \/ Stop BY <1>8, <1>12 DEF Done, Stop
<1>13. CASE UNCHANGED vars BY <1>8, <1>13
<1> QED BY <1>4, <1>6, <1>9, <1>10, <1>11, <1>12, <1>13 DEF Next

(* In every state of every expression the calls and reads emitted are      *)
(* those of the nodes the translator has come to, in their order.          *)
THEOREM OrderInvariant == Spec => [](IInv /\ OrderInv)
<1>1. Init => IInv /\ OrderInv BY Begins, OrderBegins
<1>2. IInv /\ OrderInv /\ [Next]_vars => (IInv /\ OrderInv)' BY Keeps, OrderKeeps
<1> QED BY <1>1, <1>2, PTL DEF Spec

(* TranslateExpr, and the promotions codeSemanticAnalyses puts between     *)
(* nodes: whatever the analyser rewrites, an expression makes its calls    *)
(* and reads once each, in the order they have in the source.              *)
THEOREM EffectsInSourceOrder == Spec => []EffectsInOrder
<1>1. OrderInv => EffectsInOrder
  BY DEF OrderInv, OrderedCode, EffectsInOrder, Ascending, Emitted, Effects
<1> QED BY <1>1, OrderInvariant, PTL

-----------------------------------------------------------------------------
(***************************************************************************)
(* The types values are checked with.                                      *)
(***************************************************************************)

(* What is below a call, the equation and its solution: the analyser does  *)
(* not come there.                                                         *)
ArgumentRule(t, e, n) ==
  \E m \in DOMAIN t :
    /\ \E i \in DOMAIN t[m].parts : t[m].parts[i] = n
    /\ t[m].kind = "call" \/ e[m]

ArgumentTable(t) == CHOOSE e : e = [n \in DOMAIN t |-> ArgumentRule(t, e, n)]

ArgumentsOf(t) == {n \in DOMAIN t : ArgumentTable(t)[n]}

LEMMA ArgumentsAre == InArguments = ArgumentsOf(nodes)
BY DEF InArguments, ArgumentsOf, ArgumentTable, ArgumentRule

(* The least set that has the operands of calls and of its members solves  *)
(* the equation.                                                           *)
LEMMA ArgumentsSolve ==
  ASSUME NEW t
  PROVE  \A n \in DOMAIN t :
           n \in ArgumentsOf(t) <=>
             \E m \in DOMAIN t :
               /\ \E i \in DOMAIN t[m].parts : t[m].parts[i] = n
               /\ t[m].kind = "call" \/ m \in ArgumentsOf(t)
<1> DEFINE From(n, S) == \E m \in DOMAIN t :
                           /\ \E i \in DOMAIN t[m].parts : t[m].parts[i] = n
                           /\ t[m].kind = "call" \/ m \in S
           Closed(S) == \A n \in DOMAIN t : From(n, S) => n \in S
           least == {n \in DOMAIN t : \A S \in SUBSET DOMAIN t : Closed(S) => n \in S}
           e == [n \in DOMAIN t |-> n \in least]
<1>1. ASSUME NEW S, NEW T, S \subseteq T, NEW n, From(n, S) PROVE From(n, T)
  BY <1>1
<1>2. \A S \in SUBSET DOMAIN t : Closed(S) => least \subseteq S
  OBVIOUS
<1>3. ASSUME NEW n \in DOMAIN t, From(n, least) PROVE n \in least
  <2>1. ASSUME NEW S \in SUBSET DOMAIN t, Closed(S) PROVE n \in S
    <3>1. least \subseteq S BY <1>2, <2>1
    <3> HIDE DEF least
    <3>2. From(n, S) BY <1>1, <1>3, <3>1
    <3> QED BY <2>1, <3>2
  <2> QED BY <2>1
<1>4. ASSUME NEW n \in least PROVE From(n, least)
  <2> DEFINE T == {m \in DOMAIN t : From(m, least)}
  <2>1. T \subseteq least BY <1>3
  <2>2. \A m \in DOMAIN t : From(m, T) => From(m, least)
    <3> HIDE DEF T, least, From
    <3> QED BY <1>1, <2>1
  <2>3. Closed(T)
    <3> HIDE DEF least, From
    <3> QED BY <2>2
  <2>4. T \in SUBSET DOMAIN t OBVIOUS
  <2>5. n \in T
    <3> HIDE DEF T
    <3> QED BY <1>4, <2>3, <2>4
  <2> QED BY <2>5
<1>5. \A n \in DOMAIN t : n \in least <=> From(n, least)
  BY <1>3, <1>4
<1>6. e = [n \in DOMAIN t |-> ArgumentRule(t, e, n)]
  <2>1. \A m \in DOMAIN t : e[m] <=> m \in least
    <3> HIDE DEF least
    <3> QED OBVIOUS
  <2>2. ASSUME NEW n \in DOMAIN t PROVE (n \in least) = ArgumentRule(t, e, n)
    <3> HIDE DEF least, e
    <3>1. From(n, least) <=> ArgumentRule(t, e, n) BY <2>1 DEF ArgumentRule
    <3> HIDE DEF From
    <3>2. ArgumentRule(t, e, n) \in BOOLEAN BY DEF ArgumentRule
    <3> QED BY <1>5, <3>1, <3>2
  <2> DEFINE rule == [n \in DOMAIN t |-> ArgumentRule(t, e, n)]
  <2>3. e = [n \in DOMAIN t |-> n \in least] OBVIOUS
  <2> HIDE DEF least, e
  <2> QED BY <2>2, <2>3
<1> DEFINE f == ArgumentTable(t)
<1>7. f = [n \in DOMAIN t |-> ArgumentRule(t, f, n)]
  <2> HIDE DEF e
  <2>1. \E d : d = [n \in DOMAIN t |-> ArgumentRule(t, d, n)] BY <1>6
  <2> QED BY <2>1, Zenon DEF ArgumentTable
<1> HIDE DEF f
<1>8. \A n \in DOMAIN t : f[n] = ArgumentRule(t, f, n) BY <1>7
<1>9. \A n \in DOMAIN t : n \in ArgumentsOf(t) <=> f[n] BY DEF ArgumentsOf, f
<1> QED BY <1>8, <1>9 DEF ArgumentRule

(* A promotion is one of a node of the parser.                             *)
Direct(t) == \A n \in DOMAIN t : t[n].kind = "promotion" => t[t[n].parts[1]].kind # "promotion"

(* Nodes of the parser that are below a call stay there, whichever of      *)
(* their parents' parts are exchanged for promotions of them.              *)
LEMMA ArgumentsStay ==
  ASSUME NEW t, Shaped(t), Direct(t), NEW lo, Tiled(t, lo), NEW u, DOMAIN t \subseteq DOMAIN u,
         \A m \in DOMAIN t :
           /\ u[m].kind = t[m].kind
           /\ DOMAIN u[m].parts = DOMAIN t[m].parts
           /\ t[m].kind = "promotion" => u[m].parts = t[m].parts
           /\ \A i \in DOMAIN t[m].parts :
                \/ u[m].parts[i] = t[m].parts[i]
                \/ /\ u[m].parts[i] \in DOMAIN u
                   /\ u[u[m].parts[i]].parts = <<t[m].parts[i]>>
                   /\ t[t[m].parts[i]].kind # "promotion"
  PROVE  \A n \in DOMAIN t : t[n].kind # "promotion" /\ n \in ArgumentsOf(t) => n \in ArgumentsOf(u)
<1> DEFINE N == Len(t)  A == ArgumentsOf(t)  B == ArgumentsOf(u)
           S == {d \in 0..N : \A n \in DOMAIN t :
                   n > N - d /\ t[n].kind # "promotion" /\ n \in A => n \in B}
<1>1. t \in Seq(NodeSet) BY DEF Shaped
<1>2. N \in Nat /\ DOMAIN t = 1..N BY <1>1, LenProperties
<1>3. /\ \A n \in DOMAIN t : n \in A <=>
           \E m \in DOMAIN t : /\ \E i \in DOMAIN t[m].parts : t[m].parts[i] = n
                               /\ t[m].kind = "call" \/ m \in A
      /\ \A n \in DOMAIN u : n \in B <=>
           \E m \in DOMAIN u : /\ \E i \in DOMAIN u[m].parts : u[m].parts[i] = n
                               /\ u[m].kind = "call" \/ m \in B
  BY ArgumentsSolve
<1> HIDE DEF A, B, N
<1>4. 0 \in S BY <1>2
<1>5. ASSUME NEW d \in 1..N, d - 1 \in S PROVE d \in S
  <2> SUFFICES ASSUME NEW n \in DOMAIN t, n > N - d, t[n].kind # "promotion", n \in A
               PROVE  n \in B
    BY <1>2
  <2>1. ASSUME NEW m \in DOMAIN t, m > n, t[m].kind # "promotion", m \in A PROVE m \in B
    <3>1. m > N - (d - 1) BY <1>2, <2>1
    <3> QED BY <1>5, <2>1, <3>1
  <2>2. ASSUME NEW m \in DOMAIN t, t[m].kind # "promotion", NEW i \in DOMAIN t[m].parts
        PROVE  Base(t, t[m].parts[i]) < m
    BY <2>2 DEF Tiled, TiledAt
  <2>3. PICK m \in DOMAIN t : /\ \E i \in DOMAIN t[m].parts : t[m].parts[i] = n
                              /\ t[m].kind = "call" \/ m \in A
    BY <1>3
  <2>4. PICK i \in DOMAIN t[m].parts : t[m].parts[i] = n BY <2>3
  <2>5. n \in DOMAIN u /\ m \in DOMAIN u OBVIOUS
  <2>6. CASE t[m].kind # "promotion"
    <3>1. Base(t, n) = n BY DEF Base
    <3>2. m > n BY <1>2, <2>2, <2>4, <2>6, <3>1
    <3>3. u[m].kind = "call" \/ m \in B BY <2>1, <2>3, <2>6, <3>2
    <3>4. CASE u[m].parts[i] = n BY <1>3, <2>4, <2>5, <3>3, <3>4
    <3>5. CASE u[m].parts[i] # n
      <4> DEFINE q == u[m].parts[i]
      <4>1. q \in DOMAIN u /\ u[q].parts = <<n>> BY <2>4, <3>5
      <4>2. i \in DOMAIN u[m].parts BY <2>4
      <4>3. q \in B BY <1>3, <2>5, <3>3, <4>1, <4>2
      <4> HIDE DEF q
      <4>4. 1 \in DOMAIN u[q].parts /\ u[q].parts[1] = n BY <4>1
      <4> QED BY <1>3, <2>5, <4>1, <4>3, <4>4
    <3> QED BY <3>4, <3>5
  <2>7. CASE t[m].kind = "promotion"
    <3>1. Formed(t[m]) /\ t[m].parts \in Seq(Nat)
      <4>1. t[m] \in NodeSet BY PartsBelow
      <4> QED BY <4>1 DEF Shaped, NodeSet
    <3>2. Len(t[m].parts) = 1 BY <2>7, <3>1 DEF Formed, Single
    <3>3. DOMAIN t[m].parts = {1} BY <3>1, <3>2, LenProperties
    <3>4. t[m].parts[1] = n BY <2>4, <3>3
    <3>5. m \in A BY <2>3, <2>7
    <3>6. PICK p \in DOMAIN t : /\ \E j \in DOMAIN t[p].parts : t[p].parts[j] = m
                                /\ t[p].kind = "call" \/ p \in A
      BY <1>3, <3>5
    <3>7. PICK j \in DOMAIN t[p].parts : t[p].parts[j] = m BY <3>6
    <3>8. t[p].kind # "promotion"
      <4>1. SUFFICES ASSUME t[p].kind = "promotion" PROVE FALSE OBVIOUS
      <4>2. Formed(t[p]) /\ t[p].parts \in Seq(Nat)
        <5>1. t[p] \in NodeSet BY PartsBelow
        <5> QED BY <5>1 DEF Shaped, NodeSet
      <4>3. Len(t[p].parts) = 1 BY <4>1, <4>2 DEF Formed, Single
      <4>4. DOMAIN t[p].parts = {1} BY <4>2, <4>3, LenProperties
      <4>5. t[p].parts[1] = m BY <3>7, <4>4
      <4> QED BY <2>7, <4>1, <4>5 DEF Direct
    <3>9. Base(t, m) = n BY <2>7, <3>4 DEF Base
    <3>10. p > n BY <1>2, <2>2, <3>7, <3>8, <3>9
    <3>11. u[p].kind = "call" \/ p \in B BY <2>1, <3>6, <3>8, <3>10
    <3>12. u[p].parts[j] = m /\ j \in DOMAIN u[p].parts BY <2>7, <3>7
    <3>13. m \in B BY <1>3, <2>5, <3>11, <3>12
    <3>14. u[m].parts[1] = n /\ 1 \in DOMAIN u[m].parts BY <2>7, <3>3, <3>4
    <3> QED BY <1>3, <2>5, <3>13, <3>14
  <2> QED BY <2>6, <2>7
<1>6. N \in S
  <2> HIDE DEF S
  <2>1. N \in 0..N BY <1>2
  <2> QED BY <1>2, <1>4, <1>5, <2>1, UpTo
<1>7. ASSUME NEW n \in DOMAIN t PROVE n > N - N BY <1>2
<1> QED BY <1>6, <1>7 DEF A, B

(* The types of the nodes below k, and of promotions, stay what they are   *)
(* while these nodes do.                                                   *)
LEMMA TypesStay ==
  ASSUME NEW t, Shaped(t), NEW u, Shaped(u), DOMAIN t \subseteq DOMAIN u, NEW k \in Nat,
         \A n \in DOMAIN t : n < k \/ t[n].kind = "promotion" => u[n] = t[n]
  PROVE  \A n \in DOMAIN t : n < k \/ t[n].kind = "promotion" =>
           Precisions(u)[n] = Precisions(t)[n]
<1> DEFINE N == Len(t)  d == Precisions(t)  e == Precisions(u)
           S == {m \in 0..N : \A n \in 1..m : n < k => e[n] = d[n]}
<1>1. N \in Nat /\ DOMAIN t = 1..N
  BY LenProperties DEF Shaped
<1>2. /\ \A n \in DOMAIN t : d[n] = PrecisionRule(t, d, n)
      /\ \A n \in DOMAIN u : e[n] = PrecisionRule(u, e, n)
  BY PrecisionsSolve
<1> HIDE DEF N, d, e
<1>3. ASSUME NEW n \in DOMAIN t, t[n].kind = "promotion" PROVE e[n] = d[n]
  <2>1. u[n] = t[n] /\ n \in DOMAIN u BY <1>3
  <2> QED BY <1>2, <1>3, <2>1 DEF PrecisionRule
<1>4. 0 \in S BY <1>1
<1>5. ASSUME NEW m \in 1..N, m - 1 \in S PROVE m \in S
  <2>1. m \in DOMAIN t /\ m \in DOMAIN u /\ m \in 0..N BY <1>1
  <2>2. ASSUME m < k PROVE e[m] = d[m]
    <3>1. u[m] = t[m] BY <2>1, <2>2
    <3>2. d[m] = PrecisionRule(t, d, m) /\ e[m] = PrecisionRule(u, e, m) BY <1>2, <2>1
    <3>3. ASSUME NEW p, Below(t, p, m) PROVE e[p] = d[p]
      <4>1. p \in DOMAIN t /\ (p < m \/ t[p].kind = "promotion") BY <3>3 DEF Below
      <4>2. CASE t[p].kind = "promotion" BY <1>3, <4>1, <4>2
      <4>3. CASE p < m
        <5>1. p \in 1..(m-1) /\ p < k BY <1>1, <2>2, <4>1, <4>3
        <5> QED BY <1>5, <5>1
      <4> QED BY <4>1, <4>2, <4>3
    <3>4. CASE t[m].kind = "binary"
      <4>1. Below(t, t[m].parts[1], m) /\ Below(t, t[m].parts[2], m) BY <2>1, <3>4, PartsBelow
      <4>2. e[t[m].parts[1]] = d[t[m].parts[1]] /\ e[t[m].parts[2]] = d[t[m].parts[2]]
        BY <3>3, <4>1
      <4> QED BY <3>1, <3>2, <3>4, <4>2 DEF PrecisionRule
    <3>5. CASE t[m].kind \in {"unary", "field"}
      <4>1. Below(t, t[m].parts[1], m) BY <2>1, <3>5, PartsBelow
      <4>2. e[t[m].parts[1]] = d[t[m].parts[1]] BY <3>3, <4>1
      <4> QED BY <3>1, <3>2, <3>5, <4>2 DEF PrecisionRule
    <3>6. CASE t[m].kind \notin {"binary", "unary", "field"}
      BY <3>1, <3>2, <3>6 DEF PrecisionRule
    <3> QED BY <3>4, <3>5, <3>6
  <2>3. \A n \in 1..m : n = m \/ n \in 1..(m-1) BY <1>1
  <2> QED BY <1>5, <2>1, <2>2, <2>3
<1>6. N \in S
  <2> HIDE DEF S
  <2>1. N \in 0..N BY <1>1
  <2> QED BY <1>1, <1>4, <1>5, <2>1, UpTo
<1> QED BY <1>1, <1>3, <1>6 DEF d, e

(* What the analyser does to a node leaves the types of those it has been  *)
(* to, and what is below a call.                                           *)
LEMMA RewriteKeeps ==
  ASSUME NEW t, Tree(t), Direct(t), NEW u, NEW k \in DOMAIN t, u = t \/ Rewritten(t, u, k),
         NEW lo, Tiled(t, lo), t[k].kind # "promotion",
         \A i \in DOMAIN t[k].parts : t[t[k].parts[i]].kind # "promotion"
  PROVE  /\ Shaped(u) /\ Direct(u) /\ DOMAIN t \subseteq DOMAIN u
         /\ \A n \in DOMAIN t : n # k => u[n] = t[n]
         /\ u[k].kind = t[k].kind /\ u[k].op = t[k].op
         /\ \A n \in DOMAIN t : n < k \/ t[n].kind = "promotion" =>
              Precisions(u)[n] = Precisions(t)[n]
         /\ \A n \in DOMAIN t : t[n].kind # "promotion" /\ n \in ArgumentsOf(t) =>
              n \in ArgumentsOf(u)
<1>1. CASE u = t
  <2>1. Shaped(t) BY DEF Tree
  <2> QED BY <1>1, <2>1
<1>2. CASE Rewritten(t, u, k)
  <2>1. /\ DOMAIN t \subseteq DOMAIN u
        /\ \A n \in DOMAIN t : u[n].kind = t[n].kind
        /\ \A n \in DOMAIN t : n # k => u[n] = t[n]
        /\ \A n \in DOMAIN u \ DOMAIN t : u[n].kind = "promotion"
    BY <1>2, RewriteTiles
  <2>2. Shaped(t) /\ Shaped(u) /\ t \in Seq(NodeSet) /\ u \in Seq(NodeSet)
    BY <1>2, AnalyserRewrites DEF Tree, Shaped
  <2>3. /\ Len(t) \in Nat /\ DOMAIN t = 1..Len(t) /\ Len(u) \in Nat /\ DOMAIN u = 1..Len(u)
        /\ Len(t) <= Len(u) /\ k \in Nat
    BY <1>2, <2>2, LenProperties DEF Rewritten
  <2>4. \A n \in DOMAIN t : \A i \in DOMAIN t[n].parts : t[n].parts[i] \in DOMAIN t
    BY <2>2 DEF Shaped, Below
  <2>5. Direct(u)
    <3>1. ASSUME NEW n \in DOMAIN u, u[n].kind = "promotion"
          PROVE  u[u[n].parts[1]].kind # "promotion"
      <4>1. CASE n \in DOMAIN t
        <5>1. u[n] = t[n] /\ t[n].kind = "promotion" BY <2>1, <3>1, <4>1
        <5>2. t[n].parts[1] \in DOMAIN t BY <2>2, <4>1, <5>1, PartsBelow DEF Below
        <5>3. t[t[n].parts[1]].kind # "promotion" BY <4>1, <5>1 DEF Direct
        <5> QED BY <2>1, <5>1, <5>2, <5>3
      <4>2. CASE n \notin DOMAIN t
        <5>1. n \in (Len(t)+1)..Len(u) BY <2>3, <4>2
        <5>2. PICK to \in Types, p \in PartsOf(t[k]) : u[n] = Promotion(to, p)
          BY <1>2, <5>1 DEF Rewritten
        <5>3. p \in DOMAIN t /\ t[p].kind # "promotion" BY <2>4 DEF PartsOf
        <5>4. Promotion(to, p).parts = <<p>> BY PromotionIs
        <5>5. u[n].parts[1] = p BY <5>2, <5>4
        <5> QED BY <2>1, <5>3, <5>5
      <4> QED BY <4>1, <4>2
    <3> QED BY <3>1 DEF Direct
  <2>6. ASSUME NEW m \in DOMAIN t
        PROVE  /\ DOMAIN u[m].parts = DOMAIN t[m].parts
               /\ t[m].kind = "promotion" => u[m].parts = t[m].parts
               /\ \A i \in DOMAIN t[m].parts :
                    \/ u[m].parts[i] = t[m].parts[i]
                    \/ /\ u[m].parts[i] \in DOMAIN u
                       /\ u[u[m].parts[i]].parts = <<t[m].parts[i]>>
                       /\ t[t[m].parts[i]].kind # "promotion"
    <3>1. CASE m # k BY <2>1, <3>1
    <3>2. CASE m = k
      <4>1. DOMAIN u[k].parts = DOMAIN t[k].parts BY <1>2 DEF Rewritten
      <4>2. ASSUME NEW i \in DOMAIN t[k].parts, u[k].parts[i] # t[k].parts[i]
            PROVE  /\ u[k].parts[i] \in DOMAIN u
                   /\ u[u[k].parts[i]].parts = <<t[k].parts[i]>>
        <5>1. /\ u[k].parts[i] \in (Len(t)+1)..Len(u)
              /\ u[u[k].parts[i]].parts = <<t[k].parts[i]>>
          BY <1>2, <4>2 DEF Rewritten
        <5>2. (Len(t)+1)..Len(u) \subseteq DOMAIN u BY <2>3
        <5> QED BY <5>1, <5>2
      <4> QED BY <3>2, <4>1, <4>2
    <3> QED BY <3>1, <3>2
  <2>7. \A n \in DOMAIN t : t[n].kind # "promotion" /\ n \in ArgumentsOf(t) => n \in ArgumentsOf(u)
    <3>1. \A m \in DOMAIN t :
            /\ u[m].kind = t[m].kind
            /\ DOMAIN u[m].parts = DOMAIN t[m].parts
            /\ t[m].kind = "promotion" => u[m].parts = t[m].parts
            /\ \A i \in DOMAIN t[m].parts :
                 \/ u[m].parts[i] = t[m].parts[i]
                 \/ /\ u[m].parts[i] \in DOMAIN u
                    /\ u[u[m].parts[i]].parts = <<t[m].parts[i]>>
                    /\ t[t[m].parts[i]].kind # "promotion"
      BY <2>1, <2>6
    <3>2. Direct(t) /\ Tiled(t, lo) OBVIOUS
    <3> QED BY ONLY <2>1, <2>2, <3>1, <3>2, ArgumentsStay
  <2>8. \A n \in DOMAIN t : n < k \/ t[n].kind = "promotion" => Precisions(u)[n] = Precisions(t)[n]
    <3>1. \A n \in DOMAIN t : n < k \/ t[n].kind = "promotion" => u[n] = t[n]
      <4>1. \A n \in DOMAIN t : n < k => n # k BY <2>3
      <4> QED BY <2>1, <4>1
    <3> QED BY ONLY <2>1, <2>2, <2>3, <3>1, TypesStay
  <2>9. u[k].op = t[k].op BY <1>2 DEF Rewritten
  <2> QED BY <2>1, <2>2, <2>5, <2>7, <2>8, <2>9
<1> QED BY <1>1, <1>2

(* The nodes whose value has the type it was checked with once the         *)
(* analyser has been to them.                                              *)
Decided(t, n) ==
  \/ t[n].kind \in {"var", "unary", "call"}
  \/ t[n].kind = "binary" /\ t[n].op \notin compOp

NotedIn(t, n) ==
  Decided(t, n) =>
    /\ t[n].precision.kind = Precisions(t)[n].kind
    /\ t[n].kind = "call" => t[n].slot # "zero"

(* The precision of a prefix operator is the parser's.                     *)
Unset(n) == nodes[n].kind = "unary" => nodes[n].precision = Builtin("INT32")

CheckedNodes ==
  /\ Direct(nodes)
  /\ phase = "parse" => next = 1 /\ \A n \in DOMAIN nodes : Unset(n)
  /\ phase = "analyse" =>
       /\ \A n \in next..Original : Unset(n)
       /\ errorNumber = 0 =>
            \A n \in 1..Original : n < next /\ n \notin ArgumentsOf(nodes) => NotedIn(nodes, n)
  /\ phase \in {"translate", "done"} =>
       /\ \A n \in 1..Original : n \notin ArgumentsOf(nodes) => NotedIn(nodes, n)
       /\ Precisions(nodes)[root].kind = Variables[target].kind

(* Where the analyser is among the runs.                                   *)
LEMMA AtRun ==
  ASSUME IInv, phase = "analyse", next <= Original, NEW lo, OrderedNodes(lo)
  PROVE  /\ Tiled(nodes, lo) /\ node.kind # "promotion"
         /\ Original \in DOMAIN nodes
         /\ \A n \in DOMAIN nodes : nodes[n].kind = "promotion" <=> n > Original
         /\ \A i \in DOMAIN node.parts : nodes[node.parts[i]].kind # "promotion"
<1>1. next \in DOMAIN nodes /\ DOMAIN nodes = 1..Len(nodes) /\ Len(nodes) \in Nat BY AtNode
<1>2. Original \in DOMAIN nodes
  <2>1. NodesInv BY DEF IInv
  <2> QED BY <2>1, OperandsAre DEF NodesInv, Original
<1>3. /\ Tiled(nodes, lo) /\ \A n \in DOMAIN nodes : nodes[n].kind = "promotion" <=> n > Original
      /\ \A n \in next..Original : \A i \in DOMAIN nodes[n].parts :
           nodes[nodes[n].parts[i]].kind # "promotion"
  BY DEF OrderedNodes
<1> DEFINE o == Original
<1>4. next \in next..o /\ ~(next > o)
  <2>1. next <= o /\ o \in DOMAIN nodes BY <1>2
  <2> HIDE DEF o
  <2> QED BY <1>1, <2>1
<1> QED BY <1>1, <1>2, <1>3, <1>4 DEF node

LEMMA AnalyserChecks ==
  ASSUME IInv, AnalyserMoves, NEW lo, OrderedNodes(lo), CheckedNodes,
         errorNumber' = 0 /\ next \notin ArgumentsOf(nodes) => NotedIn(nodes', next)
  PROVE  CheckedNodes'
<1> DEFINE o == Original  u == nodes'
<1>1. PICK w : \E errors \in Nat :
        Analysed(w, errors) /\ (w = nodes \/ Rewritten(nodes, w, next))
  BY DEF AnalyserMoves
<1>2. PICK errors \in Nat : Analysed(w, errors) /\ (w = nodes \/ Rewritten(nodes, w, next))
  BY <1>1
<1>3. /\ u = nodes \/ Rewritten(nodes, u, next)
      /\ next' = next + 1 /\ errorNumber' = errorNumber + errors /\ errors \in Nat
      /\ operands' = operands /\ phase' = "analyse" /\ phase = "analyse" /\ next <= o
  BY <1>2 DEF Analysed, AnalyserMoves
<1>4. /\ Tree(nodes) /\ next \in DOMAIN nodes /\ Len(nodes) \in Nat /\ DOMAIN nodes = 1..Len(nodes)
      /\ errorNumber \in Nat
  <2>1. errorNumber \in Nat BY DEF IInv, NodesInv
  <2> QED BY <1>3, <2>1, AtNode
<1>5. /\ Tiled(nodes, lo) /\ nodes[next].kind # "promotion" /\ o \in DOMAIN nodes
      /\ \A n \in DOMAIN nodes : nodes[n].kind = "promotion" <=> n > o
      /\ \A i \in DOMAIN nodes[next].parts : nodes[nodes[next].parts[i]].kind # "promotion"
  BY <1>3, AtRun DEF node
<1>6. Direct(nodes) BY DEF CheckedNodes
<1>7. Original' = o BY <1>3 DEF Original
<1> HIDE DEF o, u
<1>8. /\ Shaped(u) /\ Direct(u) /\ DOMAIN nodes \subseteq DOMAIN u
      /\ \A n \in DOMAIN nodes : n # next => u[n] = nodes[n]
      /\ u[next].kind = nodes[next].kind /\ u[next].op = nodes[next].op
      /\ \A n \in DOMAIN nodes : n < next \/ nodes[n].kind = "promotion" =>
           Precisions(u)[n] = Precisions(nodes)[n]
      /\ \A n \in DOMAIN nodes : nodes[n].kind # "promotion" /\ n \in ArgumentsOf(nodes) =>
           n \in ArgumentsOf(u)
  <2>1. u = nodes \/ Rewritten(nodes, u, next) BY <1>3
  <2> QED BY ONLY <1>4, <1>5, <1>6, <2>1, RewriteKeeps
<1>9. ASSUME NEW n \in (next + 1)..o PROVE u[n].kind = "unary" => u[n].precision = Builtin("INT32")
  <2>1. n \in DOMAIN nodes /\ n # next /\ n \in next..o BY <1>4, <1>5
  <2>2. Unset(n) BY <1>3, <2>1 DEF CheckedNodes, o
  <2> QED BY <1>8, <2>1, <2>2 DEF Unset
<1>10. ASSUME errorNumber' = 0, NEW n \in 1..o, n < next + 1, n \notin ArgumentsOf(u)
       PROVE  NotedIn(u, n)
  <2>1. n \in DOMAIN nodes /\ nodes[n].kind # "promotion" BY <1>4, <1>5
  <2>2. n \notin ArgumentsOf(nodes) BY <1>8, <1>10, <2>1
  <2>3. n = next \/ n < next BY <1>4, <1>10, <2>1
  <2>4. CASE n = next BY <1>10, <2>2, <2>4 DEF u
  <2>5. CASE n < next
    <3>1. errorNumber = 0 BY <1>3, <1>4, <1>10
    <3>2. NotedIn(nodes, n) BY <1>3, <1>10, <2>2, <2>5, <3>1 DEF CheckedNodes, o
    <3>3. n # next BY <1>4, <2>1, <2>5
    <3>4. u[n] = nodes[n] /\ Precisions(u)[n] = Precisions(nodes)[n] BY <1>8, <2>1, <2>5, <3>3
    <3> QED BY <3>2, <3>4 DEF NotedIn, Decided
  <2> QED BY <2>3, <2>4, <2>5
<1> QED BY <1>3, <1>7, <1>8, <1>9, <1>10 DEF CheckedNodes, Unset, u

(* The types of the parts of the node, after the step.                     *)
LEMMA PartsTyped ==
  ASSUME IInv, AnalyserMoves, NEW lo, OrderedNodes(lo), CheckedNodes
  PROVE  /\ nodes'[next].kind = node.kind /\ nodes'[next].op = node.op
         /\ next \in DOMAIN nodes' /\ Shaped(nodes')
         /\ \A i \in DOMAIN node.parts :
              Precisions(nodes')[node.parts[i]] = TypeOf(node.parts[i])
         /\ \A n \in DOMAIN nodes' :
              Precisions(nodes')[n] = PrecisionRule(nodes', Precisions(nodes'), n)
<1> DEFINE u == nodes'
<1>1. PICK w : \E errors \in Nat :
        Analysed(w, errors) /\ (w = nodes \/ Rewritten(nodes, w, next))
  BY DEF AnalyserMoves
<1>2. u = nodes \/ Rewritten(nodes, u, next) BY <1>1 DEF Analysed
<1>3. phase = "analyse" /\ next <= Original BY DEF AnalyserMoves
<1>4. Tree(nodes) /\ Shaped(nodes) /\ next \in DOMAIN nodes BY <1>3, AtNode
<1>5. /\ Tiled(nodes, lo) /\ nodes[next].kind # "promotion"
      /\ \A i \in DOMAIN nodes[next].parts : nodes[nodes[next].parts[i]].kind # "promotion"
  BY <1>3, AtRun DEF node
<1>6. Direct(nodes) BY DEF CheckedNodes
<1> HIDE DEF u
<1>7. /\ Shaped(u) /\ DOMAIN nodes \subseteq DOMAIN u
      /\ u[next].kind = nodes[next].kind /\ u[next].op = nodes[next].op
      /\ \A n \in DOMAIN nodes : n < next \/ nodes[n].kind = "promotion" =>
           Precisions(u)[n] = Precisions(nodes)[n]
  BY ONLY <1>2, <1>4, <1>5, <1>6, RewriteKeeps
<1>8. ASSUME NEW i \in DOMAIN node.parts
      PROVE  Precisions(u)[node.parts[i]] = TypeOf(node.parts[i])
  <2> DEFINE p == node.parts[i]
  <2>1. Below(nodes, p, next) BY <1>4 DEF Shaped, node
  <2> HIDE DEF p
  <2>2. p \in DOMAIN nodes /\ (p < next \/ nodes[p].kind = "promotion") BY <2>1 DEF Below
  <2>3. Precisions(u)[p] = TypeOf(p) BY <1>7, <2>2, PrecisionIsRule DEF TypeOf
  <2> QED BY <2>3 DEF p
<1>9. \A n \in DOMAIN u : Precisions(u)[n] = PrecisionRule(u, Precisions(u), n)
  BY <1>7, PrecisionsSolve
<1> QED BY <1>4, <1>7, <1>8, <1>9 DEF u, node

LEMMA OthersNoted ==
  ASSUME IInv, AnalyserMoves, NEW lo, OrderedNodes(lo), CheckedNodes,
         AnalyseLeaf \/ AnalyseRead \/ AnalyseField \/ AnalyseComparison
  PROVE  NotedIn(nodes', next)
<1>1. \/ node.kind \in {"int", "float", "enum", "read", "field"}
      \/ node.kind = "binary" /\ node.op \in compOp
  BY DEF AnalyseLeaf, AnalyseRead, AnalyseField, AnalyseComparison, Analyse, node
<1>2. nodes'[next].kind = node.kind /\ nodes'[next].op = node.op BY PartsTyped
<1> QED BY <1>1, <1>2 DEF NotedIn, Decided

LEMMA VariableNoted ==
  ASSUME IInv, AnalyserMoves, NEW lo, OrderedNodes(lo), CheckedNodes, AnalyseVariable
  PROVE  NotedIn(nodes', next)
<1>1. /\ phase = "analyse" /\ next <= Original /\ node.kind = "var"
      /\ nodes' = [nodes EXCEPT ![next].precision = Variables[node.op], ![next].slot = node.op]
  BY DEF AnalyseVariable, Analyse, Analysed, node
<1>2. node \in NodeSet /\ next \in DOMAIN nodes BY <1>1, AtNode
<1>3. nodes'[next].precision = Variables[node.op] BY <1>1, <1>2 DEF node, NodeSet
<1>4. /\ nodes'[next].kind = "var" /\ nodes'[next].op = node.op
      /\ Precisions(nodes')[next] = PrecisionRule(nodes', Precisions(nodes'), next)
  BY <1>1, PartsTyped
<1>5. Precisions(nodes')[next] = Variables[node.op] BY <1>4 DEF PrecisionRule
<1> QED BY <1>3, <1>4, <1>5 DEF NotedIn

(* Where only the type is written, the parts stay.                         *)
LEMMA WrittenIs ==
  ASSUME IInv, phase = "analyse", next <= Original, NEW p, nodes' = WithPrecision(p)
  PROVE  nodes'[next].precision = p /\ nodes'[next].parts = node.parts
<1>1. node \in NodeSet /\ next \in DOMAIN nodes BY AtNode
<1> QED BY <1>1 DEF node, NodeSet, WithPrecision

LEMMA ArithmeticNoted ==
  ASSUME IInv, AnalyserMoves, NEW lo, OrderedNodes(lo), CheckedNodes, AnalyseArithmetic
  PROVE  NotedIn(nodes', next)
<1> DEFINE l == node.parts[1]  r == node.parts[2]
<1>1. /\ phase = "analyse" /\ next <= Original /\ node.kind = "binary"
      /\ nodes' = WithPrecision(TypeOf(next))
  BY DEF AnalyseArithmetic, Analyse, Analysed, node
<1>2. /\ Formed(node) /\ node.parts \in Seq(Nat) /\ next \in DOMAIN nodes /\ Shaped(nodes)
  BY <1>1, AtNode
<1>3. 1 \in DOMAIN node.parts /\ 2 \in DOMAIN node.parts
  <2>1. Len(node.parts) = 2 BY <1>1, <1>2 DEF Formed
  <2> QED BY <1>2, <2>1, LenProperties
<1>4. nodes'[next].precision = TypeOf(next) /\ nodes'[next].parts = node.parts
  BY <1>1, WrittenIs
<1>5. /\ nodes'[next].kind = "binary" /\ next \in DOMAIN nodes'
      /\ Precisions(nodes')[l] = TypeOf(l) /\ Precisions(nodes')[r] = TypeOf(r)
      /\ Precisions(nodes')[next] = PrecisionRule(nodes', Precisions(nodes'), next)
  BY <1>1, <1>3, PartsTyped
<1>6. Precisions(nodes')[next] = resolve_type(TypeOf(l), TypeOf(r))
  BY <1>4, <1>5 DEF PrecisionRule
<1>7. TypeOf(next) = resolve_type(TypeOf(l), TypeOf(r))
  <2>1. \A n : TypeOf(n) = Precisions(nodes)[n] BY PrecisionIsRule DEF TypeOf
  <2>2. Precisions(nodes)[next] = PrecisionRule(nodes, Precisions(nodes), next)
    BY <1>2, PrecisionsSolve
  <2> QED BY <1>1, <2>1, <2>2 DEF PrecisionRule, node
<1> QED BY <1>4, <1>5, <1>6, <1>7 DEF NotedIn

(* A conversion that is not refused gives the kind that is wanted.         *)
LEMMA PromotedKind ==
  ASSUME NEW n, NEW to, Differs(n, to), ~Refused(n, to)
  PROVE  Promote(n, to).kind = to.kind
BY DEF Differs, Refused, Promote, TypeError, tryPromote

LEMMA NoErrors ==
  ASSUME IInv, NEW n, NEW to, errorNumber' = errorNumber + Errors(n, to), errorNumber' = 0
  PROVE  Differs(n, to) => Promote(n, to).kind = to.kind
<1>1. errorNumber \in Nat BY DEF IInv, NodesInv
<1>2. Errors(n, to) \in {0, 1} BY DEF Errors
<1>3. Errors(n, to) = 0 BY <1>1, <1>2
<1>4. ~(Differs(n, to) /\ Refused(n, to)) BY <1>3 DEF Errors
<1> QED BY <1>4, PromotedKind

LEMMA UnaryNoted ==
  ASSUME IInv, AnalyserMoves, NEW lo, OrderedNodes(lo), CheckedNodes, AnalyseUnary,
         errorNumber' = 0
  PROVE  NotedIn(nodes', next)
<1> DEFINE p == node.parts[1]  int32 == Builtin("INT32")
           promotion == Promotion(Promote(p, int32), p)
           w == [nodes EXCEPT ![next].parts = <<NewNode>>]
<1>1. phase = "analyse" /\ next <= Original /\ node.kind = "unary"
  BY DEF AnalyseUnary, Analyse, node
<1>2. \/ nodes' = WithPrecision(TypeOf(p))
      \/ /\ nodes' = Append(w, promotion) /\ Differs(p, int32)
         /\ errorNumber' = errorNumber + Errors(p, int32)
      \/ nodes' = nodes /\ ~Differs(p, int32)
  BY DEF AnalyseUnary, Analysed
<1>3. /\ Formed(node) /\ node.parts \in Seq(Nat) /\ next \in DOMAIN nodes /\ node \in NodeSet
      /\ nodes \in Seq(NodeSet) /\ Len(nodes) \in Nat /\ DOMAIN nodes = 1..Len(nodes)
  BY <1>1, AtNode
<1>4. 1 \in DOMAIN node.parts
  <2>1. Len(node.parts) = 1 BY <1>1, <1>3 DEF Formed, Single
  <2> QED BY <1>3, <2>1, LenProperties
<1>5. /\ nodes'[next].kind = "unary" /\ next \in DOMAIN nodes'
      /\ Precisions(nodes')[p] = TypeOf(p)
      /\ \A n \in DOMAIN nodes' :
           Precisions(nodes')[n] = PrecisionRule(nodes', Precisions(nodes'), n)
  BY <1>1, <1>4, PartsTyped
<1>6. Precisions(nodes')[next] = Precisions(nodes')[nodes'[next].parts[1]]
  BY <1>5 DEF PrecisionRule
<1>7. node.precision = int32
  <2>1. next \in next..Original
    <3> DEFINE o == Original
    <3>1. next <= o /\ next \in Nat /\ o \in Nat
      <4>1. Original \in DOMAIN nodes
        <5>1. NodesInv BY DEF IInv
        <5> QED BY <1>1, <5>1, OperandsAre DEF NodesInv, Original
      <4> QED BY <1>1, <1>3, <4>1
    <3> HIDE DEF o
    <3>2. next \in next..o BY <3>1
    <3> QED BY <3>2 DEF o
  <2>2. Unset(next) BY <1>1, <2>1 DEF CheckedNodes
  <2> QED BY <1>1, <2>2 DEF Unset, node
<1>8. CASE nodes' = WithPrecision(TypeOf(p))
  <2>1. nodes'[next].precision = TypeOf(p) /\ nodes'[next].parts = node.parts
    BY <1>1, <1>8, WrittenIs
  <2> QED BY <1>5, <1>6, <2>1 DEF NotedIn
<1>9. CASE nodes' = nodes /\ ~Differs(p, int32)
  <2>1. TypeOf(p).kind = int32.kind BY <1>9 DEF Differs
  <2>2. nodes'[next].parts[1] = p /\ nodes'[next].precision = int32
    BY <1>7, <1>9 DEF node
  <2> QED BY <1>5, <1>6, <2>1, <2>2 DEF NotedIn
<1>10. CASE /\ nodes' = Append(w, promotion) /\ Differs(p, int32)
            /\ errorNumber' = errorNumber + Errors(p, int32)
  <2>1. Promote(p, int32).kind = int32.kind BY <1>10, NoErrors
  <2> DEFINE N == Len(nodes)  to == Promote(p, int32)
             q == <<NewNode>>  new == [node EXCEPT !.parts = q]
  <2>2. to \in Types
    <3>1. p \in DOMAIN nodes /\ \A n \in DOMAIN nodes : TypeOf(n) \in Types
      BY <1>1, <1>4, AtNode
    <3> QED BY <3>1, KindsAre, PromoteTyped DEF Promote
  <2>3. p \in Nat BY <1>3, <1>4
  <2>4. promotion \in NodeSet BY <2>2, <2>3, PromotionTyped
  <2>5. promotion.kind = "promotion" /\ promotion.precision = to
    <3>1. \A a, b : Promotion(a, b).kind = "promotion" /\ Promotion(a, b).precision = a
      BY DEF Promotion, Node
    <3> QED BY <3>1
  <2>6. q \in Seq(Nat) /\ q[1] = N + 1 BY <1>3 DEF NewNode
  <2>7. w = [nodes EXCEPT ![next] = new] BY <1>3 DEF node
  <2> HIDE DEF q
  <2>8. new \in NodeSet /\ new.parts = q /\ new.precision = int32
    BY <1>3, <1>7, <2>6 DEF NodeSet
  <2> HIDE DEF promotion, w, new, to, int32
  <2>9. w \in Seq(NodeSet) /\ Len(w) = N /\ w[next] = new
    BY <1>3, <2>7, <2>8, ExceptSeq
  <2> HIDE DEF N
  <2>10. N \in Nat /\ next \in 1..N BY <1>3 DEF N
  <2>11. /\ nodes'[N + 1] = promotion /\ nodes'[next] = new /\ DOMAIN nodes' = 1..(N + 1)
    BY <1>10, <2>4, <2>9, <2>10, AppendProperties, LenProperties
  <2>12. nodes'[next].parts[1] = N + 1 /\ nodes'[next].precision = int32
    BY <2>6, <2>8, <2>11
  <2>13. Precisions(nodes')[N + 1] = to
    <3>1. N + 1 \in DOMAIN nodes' BY <2>10, <2>11
    <3> QED BY <1>5, <2>5, <2>11, <3>1 DEF PrecisionRule
  <2> QED BY <1>5, <1>6, <2>1, <2>12, <2>13 DEF NotedIn, to
<1> QED BY <1>2, <1>8, <1>9, <1>10

LEMMA CallNoted ==
  ASSUME IInv, AnalyserMoves, NEW lo, OrderedNodes(lo), CheckedNodes, AnalyseCall
  PROVE  NotedIn(nodes', next)
<1>1. phase = "analyse" /\ next <= Original /\ node.kind = "call"
  BY DEF AnalyseCall, Analyse, node
<1>2. PICK new \in NodeSet, extra \in Seq(NodeSet), errors \in Nat :
        /\ Analysed([nodes EXCEPT ![next] = new] \o extra, errors)
        /\ new.precision = Functions[node.op].retType /\ new.slot = node.op
  BY CallWritten
<1> DEFINE w == [nodes EXCEPT ![next] = new]  N == Len(nodes)
<1>3. /\ nodes \in Seq(NodeSet) /\ N \in Nat /\ next \in 1..N /\ Formed(node)
  BY <1>1, AtNode
<1>4. w \in Seq(NodeSet) /\ Len(w) = N /\ w[next] = new BY <1>3, ExceptSeq
<1>5. nodes' = w \o extra BY <1>2 DEF Analysed
<1> HIDE DEF w, N
<1>6. nodes'[next] = new
  <2>1. Len(extra) \in Nat BY LenProperties
  <2>2. next \in 1..(N + Len(extra)) /\ next <= N BY <1>3, <2>1
  <2> QED BY <1>4, <1>5, <2>2, ConcatProperties
<1>7. /\ nodes'[next].kind = "call" /\ nodes'[next].op = node.op
      /\ Precisions(nodes')[next] = PrecisionRule(nodes', Precisions(nodes'), next)
  BY <1>1, PartsTyped
<1>8. Precisions(nodes')[next] = Functions[node.op].retType BY <1>7 DEF PrecisionRule
<1>9. node.op # "zero" BY <1>1, <1>3, ExpressionsAssumption DEF Formed
<1> QED BY <1>2, <1>6, <1>8, <1>9 DEF NotedIn

LEMMA ParserChecks ==
  ASSUME IInv, NEW new, NEW k, Made(new, k), NEW lo, OrderedNodes(lo), CheckedNodes
  PROVE  CheckedNodes'
<1> DEFINE N == Len(nodes)
<1>1. /\ phase = "parse" /\ phase' = "parse" /\ nodes' = Append(nodes, new)
      /\ next' = next /\ new \in NodeSet /\ new.kind # "promotion"
      /\ new.kind = "unary" => new.precision = Builtin("INT32")
  BY DEF Made, Parsed
<1>2. /\ Shaped(nodes) /\ nodes \in Seq(NodeSet) /\ N \in Nat /\ DOMAIN nodes = 1..N
  <2>1. NodesInv BY DEF IInv
  <2> QED BY <2>1, OperandsAre DEF NodesInv, Tree, Shaped
<1>3. /\ \A n \in DOMAIN nodes : nodes[n].kind # "promotion" /\ Unset(n)
      /\ next = 1
  BY <1>1 DEF OrderedNodes, CheckedNodes
<1> HIDE DEF N
<1>4. /\ DOMAIN nodes' = 1..(N + 1) /\ nodes'[N + 1] = new
      /\ \A n \in 1..N : nodes'[n] = nodes[n]
  BY <1>1, <1>2, AppendProperties, LenProperties DEF N
<1>5. ASSUME NEW n \in DOMAIN nodes'
      PROVE  /\ nodes'[n].kind # "promotion"
             /\ nodes'[n].kind = "unary" => nodes'[n].precision = Builtin("INT32")
  <2>1. CASE n \in 1..N BY <1>2, <1>3, <1>4, <2>1 DEF Unset
  <2>2. CASE n = N + 1 BY <1>1, <1>4, <2>2
  <2>3. n \in 1..N \/ n = N + 1 BY <1>2, <1>4
  <2> QED BY <2>1, <2>2, <2>3
<1> QED BY <1>1, <1>3, <1>5 DEF CheckedNodes, Direct, Unset

LEMMA ParseEndChecks ==
  ASSUME IInv, EndParse, CheckedNodes
  PROVE  CheckedNodes'
<1> DEFINE o == operands[1]
<1>1. /\ phase = "parse" /\ phase' = "analyse" /\ Len(operands) = 1
      /\ nodes' = nodes /\ operands' = operands /\ next' = next
  BY DEF EndParse
<1>2. /\ o \in DOMAIN nodes /\ DOMAIN nodes = 1..Len(nodes) /\ Len(nodes) \in Nat
  <2>1. NodesInv BY DEF IInv
  <2> QED BY <1>1, <2>1, OperandsAre DEF NodesInv
<1>3. Original' = o BY <1>1 DEF Original
<1>4. Direct(nodes) /\ next = 1 /\ \A n \in DOMAIN nodes : Unset(n)
  BY <1>1 DEF CheckedNodes
<1> HIDE DEF o
<1>5. \A n \in next..o : n \in DOMAIN nodes BY <1>2, <1>4
<1>6. \A n \in 1..o : ~(n < next) BY <1>4
<1> QED BY <1>1, <1>3, <1>4, <1>5, <1>6 DEF CheckedNodes, Unset

(* What the assignment does to the nodes.                                  *)
LEMMA ConvertChecks ==
  ASSUME IInv, Convert, NEW lo, OrderedNodes(lo), CheckedNodes
  PROVE  CheckedNodes'
<1> DEFINE to == Variables[target]  o == Original  N == Len(nodes)
           x == Promote(root, to)  p == Promotion(x, root)  u == nodes'
<1>1. /\ phase = "analyse" /\ next > o
      /\ \/ nodes' = Append(nodes, p) /\ root' = N + 1 /\ Differs(root, to)
         \/ nodes' = nodes /\ root' = root /\ ~Differs(root, to)
      /\ errorNumber' = errorNumber + Errors(root, to)
      /\ phase' \in {"translate", "refused", "threw"}
      /\ phase' = "translate" => errorNumber' = 0
      /\ operands' = operands /\ target' = target
  BY DEF Convert, NewNode
<1>2. /\ Tree(nodes) /\ Shaped(nodes) /\ nodes \in Seq(NodeSet)
      /\ N \in Nat /\ DOMAIN nodes = 1..N
      /\ root \in DOMAIN nodes /\ o \in DOMAIN nodes /\ to \in Types
      /\ errorNumber \in Nat /\ next \in Nat
  <2>1. NodesInv BY DEF IInv
  <2>2. Tree(nodes) /\ Shaped(nodes) /\ nodes \in Seq(NodeSet) /\ to \in Types
    BY <2>1, TypesAre DEF NodesInv, Tree, Shaped
  <2>3. root \in DOMAIN nodes /\ errorNumber \in Nat BY <1>1, <2>1 DEF NodesInv
  <2>4. o \in DOMAIN nodes BY <1>1, <2>1, OperandsAre DEF NodesInv, Original
  <2>5. next \in Nat
    <3>1. next \in 1..MaxNodes + 1 /\ MaxNodes \in Nat BY <2>1, ExpressionsAssumption DEF NodesInv
    <3> QED BY <3>1
  <2> QED BY <2>1, <2>2, <2>3, <2>4, <2>5, OperandsAre
<1>3. /\ Tiled(nodes, lo) /\ root = o
      /\ \A n \in DOMAIN nodes : nodes[n].kind = "promotion" <=> n > o
  BY <1>1 DEF OrderedNodes
<1>4. Direct(nodes) BY DEF CheckedNodes
<1>5. x \in Types
  <2>1. Shaped(nodes) /\ Members(nodes) BY <1>2 DEF Tree
  <2>2. TypeOf(root) \in Types BY <1>2, <2>1, PrecisionTyped, PrecisionIsRule DEF TypeOf
  <2> QED BY <1>2, <2>2, PromoteTyped DEF Promote
<1>6. Original' = o BY <1>1 DEF Original
<1>7. /\ Tree(u) /\ DOMAIN nodes \subseteq DOMAIN u /\ \A n \in DOMAIN nodes : u[n] = nodes[n]
      /\ \A n \in DOMAIN u \ DOMAIN nodes :
           n = root' /\ u[n].kind = "promotion" /\ u[n].parts = <<root>> /\ u[n].precision = x
      /\ root' \in DOMAIN u /\ (Differs(root, to) => root' \notin DOMAIN nodes)
  <2>1. CASE nodes' = Append(nodes, p) /\ root' = N + 1
    <3>1. Tree(u) /\ DOMAIN u = 1..(N + 1)
      BY <1>2, <1>5, <2>1, PromotionAdded
    <3>2. p \in NodeSet /\ p.kind = "promotion" /\ p.parts = <<root>> /\ p.precision = x
      <4>1. root \in Nat BY <1>2
      <4>2. p \in NodeSet BY <1>5, <4>1, PromotionTyped
      <4>3. \A a, b : Promotion(a, b).kind = "promotion" /\ Promotion(a, b).parts = <<b>>
                      /\ Promotion(a, b).precision = a
        BY DEF Promotion, Node
      <4> QED BY <4>2, <4>3
    <3> HIDE DEF p
    <3>3. u[N + 1] = p /\ \A n \in 1..N : u[n] = nodes[n]
      BY <1>2, <2>1, <3>2, AppendProperties
    <3>4. \A n \in DOMAIN u \ DOMAIN nodes : n = N + 1 BY <1>2, <3>1
    <3>5. N + 1 \notin DOMAIN nodes /\ N + 1 \in 1..(N + 1) /\ 1..N \subseteq 1..(N + 1)
      BY <1>2
    <3> QED BY <1>2, <2>1, <3>1, <3>2, <3>3, <3>4, <3>5
  <2>2. CASE nodes' = nodes /\ root' = root /\ ~Differs(root, to) BY <1>2, <2>2
  <2> QED BY <1>1, <2>1, <2>2
<1>8. nodes[root].kind # "promotion"
  <2> HIDE DEF o, N
  <2>1. o \in Nat /\ ~(o > o) BY <1>2
  <2> QED BY <1>2, <1>3, <2>1
<1> HIDE DEF to, o, N, x, p, u
<1>9. Direct(u)
  <2>1. ASSUME NEW n \in DOMAIN u, u[n].kind = "promotion"
        PROVE  u[u[n].parts[1]].kind # "promotion"
    <3>1. CASE n \in DOMAIN nodes
      <4>1. u[n] = nodes[n] /\ nodes[n].kind = "promotion" BY <1>7, <2>1, <3>1
      <4>2. nodes[n].parts[1] \in DOMAIN nodes BY <1>2, <3>1, <4>1, PartsBelow DEF Below
      <4>3. nodes[nodes[n].parts[1]].kind # "promotion" BY <1>4, <3>1, <4>1 DEF Direct
      <4> QED BY <1>7, <4>1, <4>2, <4>3
    <3>2. CASE n \notin DOMAIN nodes
      <4>1. u[n].parts[1] = root BY <1>7, <3>2
      <4> QED BY <1>2, <1>7, <1>8, <4>1
    <3> QED BY <3>1, <3>2
  <2> QED BY <2>1 DEF Direct
<1>10. Shaped(u) BY <1>7 DEF Tree
<1>11. \A n \in DOMAIN nodes : nodes[n].kind # "promotion" /\ n \in ArgumentsOf(nodes) =>
         n \in ArgumentsOf(u)
  <2>1. \A m \in DOMAIN nodes :
          /\ u[m].kind = nodes[m].kind
          /\ DOMAIN u[m].parts = DOMAIN nodes[m].parts
          /\ nodes[m].kind = "promotion" => u[m].parts = nodes[m].parts
          /\ \A i \in DOMAIN nodes[m].parts :
               \/ u[m].parts[i] = nodes[m].parts[i]
               \/ /\ u[m].parts[i] \in DOMAIN u
                  /\ u[u[m].parts[i]].parts = <<nodes[m].parts[i]>>
                  /\ nodes[nodes[m].parts[i]].kind # "promotion"
    BY <1>7
  <2>2. Shaped(nodes) /\ Direct(nodes) /\ Tiled(nodes, lo) /\ DOMAIN nodes \subseteq DOMAIN u
    BY <1>2, <1>3, <1>4, <1>7
  <2> QED BY ONLY <2>1, <2>2, ArgumentsStay
<1>12. \A n \in DOMAIN nodes : Precisions(u)[n] = Precisions(nodes)[n]
  <2> DEFINE k == N + 1
  <2>1. k \in Nat /\ \A n \in DOMAIN nodes : n < k BY <1>2
  <2> HIDE DEF k
  <2>2. /\ Shaped(nodes) /\ Shaped(u) /\ DOMAIN nodes \subseteq DOMAIN u
        /\ \A n \in DOMAIN nodes : n < k \/ nodes[n].kind = "promotion" => u[n] = nodes[n]
    BY <1>2, <1>7, <1>10
  <2>3. \A n \in DOMAIN nodes : n < k \/ nodes[n].kind = "promotion" =>
          Precisions(u)[n] = Precisions(nodes)[n]
    BY ONLY <2>1, <2>2, TypesStay
  <2> QED BY <2>1, <2>3
<1>13. ASSUME phase' = "translate", NEW n \in 1..o, n \notin ArgumentsOf(u)
       PROVE  NotedIn(u, n)
  <2>1. n \in DOMAIN nodes /\ n < next /\ ~(n > o) BY <1>1, <1>2
  <2>2. nodes[n].kind # "promotion" BY <1>3, <2>1
  <2>3. n \notin ArgumentsOf(nodes) BY <1>11, <1>13, <2>1, <2>2
  <2>4. errorNumber = 0
    <3>1. Errors(root, to) \in {0, 1} BY DEF Errors
    <3> QED BY <1>1, <1>2, <1>13, <3>1
  <2>5. NotedIn(nodes, n) BY <1>1, <1>13, <2>1, <2>3, <2>4 DEF CheckedNodes, o
  <2>6. u[n] = nodes[n] /\ Precisions(u)[n] = Precisions(nodes)[n] BY <1>7, <1>12, <2>1
  <2> QED BY <2>5, <2>6 DEF NotedIn, Decided
<1>14. ASSUME phase' = "translate" PROVE Precisions(u)[root'].kind = to.kind
  <2>1. CASE Differs(root, to)
    <3>1. x.kind = to.kind BY <1>1, <1>14, <2>1, NoErrors DEF x
    <3>2. u[root'].kind = "promotion" /\ u[root'].precision = x BY <1>7, <2>1
    <3>3. Precisions(u)[root'] = PrecisionRule(u, Precisions(u), root')
      BY <1>7, <1>10, PrecisionsSolve
    <3>4. Precisions(u)[root'] = x BY <3>2, <3>3 DEF PrecisionRule
    <3> QED BY <3>1, <3>4
  <2>2. CASE ~Differs(root, to)
    <3>1. root' = root BY <1>1, <2>2
    <3>2. TypeOf(root).kind = to.kind BY <2>2 DEF Differs
    <3>3. TypeOf(root) = Precisions(nodes)[root] BY PrecisionIsRule DEF TypeOf
    <3> QED BY <1>2, <1>12, <3>1, <3>2, <3>3
  <2> QED BY <2>1, <2>2
<1>15. Variables[target'] = to BY <1>1 DEF to
<1> QED BY <1>1, <1>6, <1>9, <1>13, <1>14, <1>15 DEF CheckedNodes, u

LEMMA CheckedStays ==
  ASSUME nodes' = nodes
  PROVE  /\ \A n : Checked(n)' = Checked(n) /\ TypeOf(n)' = TypeOf(n)
         /\ root' = root => Checked(root)' = Checked(root)
<1>1. InArguments' = InArguments
  <2>1. InArguments = ArgumentsOf(nodes) BY ArgumentsAre
  <2>2. InArguments' = ArgumentsOf(nodes')
    BY DEF InArguments, ArgumentsOf, ArgumentTable, ArgumentRule
  <2> QED BY <2>1, <2>2
<1>2. ASSUME NEW n PROVE Checked(n)' = Checked(n)
  BY <1>1 DEF Checked
<1>3. ASSUME NEW n PROVE TypeOf(n)' = TypeOf(n)
  BY DEF TypeOf
<1>4. root' = root => Checked(root)' = Checked(root)
  BY <1>1 DEF Checked
<1> QED BY <1>2, <1>3, <1>4

(* The IR type depends on the kind alone.                                  *)
LEMMA KindDecides ==
  ASSUME NEW a, NEW b, a.kind = b.kind
  PROVE  toIRType(a) = toIRType(b)
BY DEF toIRType

(* The value a call returns has the type its node was checked with.        *)
Gives(v) == Checked(Call.node) => v.type = toIRType(TypeOf(Call.node))

EndsChecked ==
  /\ phase = "translate" /\ pending # <<>>
  /\ \E v, instrs : /\ Returns(v, instrs) /\ Gives(v)
                    /\ instrs = <<>> \/ \E inst : instrs = <<inst>>

CheckedMoves == EndsChecked \/ (phase = "translate" /\ Throw) \/ TranslateOperand

LEMMA ComputeGives ==
  ASSUME phase = "translate", pending # <<>>, NEW t, NEW op, NEW args, Compute(t, op, args),
         Checked(Call.node) => t.kind = TypeOf(Call.node).kind
  PROVE  CheckedMoves
<1>1. CASE Throws(t) BY <1>1 DEF Compute, CheckedMoves
<1>2. CASE ~Throws(t)
  <2> DEFINE tmp == makeTemp(toIRType(t))  inst == IRInst(Call.node, op, tmp, args)
  <2>1. Returns(tmp, <<inst>>) BY <1>2 DEF Compute
  <2>2. tmp.type = toIRType(t) BY DEF makeTemp, Val
  <2> HIDE DEF tmp, inst
  <2>3. Gives(tmp) BY <2>2, KindDecides DEF Gives
  <2> QED BY <2>1, <2>3 DEF EndsChecked, CheckedMoves
<1> QED BY <1>1, <1>2

(* What the analyser has written into the node of a call in progress.      *)
LEMMA HereChecked ==
  ASSUME IInv, phase = "translate", pending # <<>>, NEW lo, OrderedNodes(lo), CheckedNodes,
         Checked(Call.node)
  PROVE  /\ here.precision.kind = TypeOf(Call.node).kind
         /\ here.kind = "call" => here.slot # "zero"
<1> DEFINE n == Call.node
<1>1. n \in DOMAIN nodes /\ here = nodes[n] BY AtCall DEF here
<1>2. TypeOf(n) = Precisions(nodes)[n] BY PrecisionIsRule DEF TypeOf
<1>3. CASE here.kind \in {"int", "float", "enum", "promotion"}
  <2>1. Shaped(nodes) BY DEF IInv, NodesInv, Tree
  <2>2. Precisions(nodes)[n] = PrecisionRule(nodes, Precisions(nodes), n)
    BY <1>1, <2>1, PrecisionsSolve
  <2>3. Precisions(nodes)[n] = here.precision BY <1>1, <1>3, <2>2 DEF PrecisionRule
  <2> QED BY <1>2, <1>3, <2>3
<1>4. CASE here.kind \notin {"int", "float", "enum", "promotion"}
  <2>1. n \notin ArgumentsOf(nodes) /\ Decided(nodes, n)
    BY <1>1, <1>4, ArgumentsAre DEF Checked, Decided
  <2>2. n \in 1..Original
    <3>1. nodes[n].kind = "promotion" <=> n > Original BY <1>1 DEF OrderedNodes
    <3>2. DOMAIN nodes = 1..Len(nodes) /\ Original \in Nat
      <4>1. NodesInv BY DEF IInv
      <4>2. DOMAIN nodes = 1..Len(nodes) /\ Len(nodes) \in Nat /\ Original \in DOMAIN nodes
        BY <4>1, OperandsAre DEF NodesInv, Original
      <4> QED BY <4>2
    <3> DEFINE o == Original
    <3>3. ~(n > o) /\ n \in Nat /\ n >= 1 /\ o \in Nat BY <1>1, <1>4, <3>1, <3>2
    <3> HIDE DEF n, o
    <3>4. n \in 1..o BY <3>3
    <3> QED BY <3>4 DEF o
  <2>3. NotedIn(nodes, n) BY <2>1, <2>2 DEF CheckedNodes
  <2> QED BY <1>1, <1>2, <2>1, <2>3 DEF NotedIn
<1> QED BY <1>3, <1>4

LEMMA TranslatorChecks ==
  ASSUME IInv, NEW lo, OrderedNodes(lo), CheckedNodes,
         \/ TranslateOperand \/ TranslateLiteral \/ TranslateVariable \/ TranslateBinary
         \/ TranslateUnary \/ TranslateCall \/ TranslatePromotion \/ TranslateRead
         \/ TranslateField
  PROVE  CheckedMoves
<1>1. CASE TranslateOperand BY <1>1 DEF CheckedMoves
<1>2. ASSUME NEW kind, Translate(kind)
      PROVE  /\ phase = "translate" /\ pending # <<>> /\ here.kind = kind
             /\ Checked(Call.node) => /\ here.precision.kind = TypeOf(Call.node).kind
                                      /\ here.kind = "call" => here.slot # "zero"
  <2>1. phase = "translate" /\ pending # <<>> /\ here.kind = kind BY <1>2 DEF Translate
  <2> QED BY <2>1, HereChecked
<1>3. CASE TranslateLiteral \/ TranslateVariable
  <2>1. PICK class, id :
          \/ phase = "translate" /\ Throw
          \/ Returns(Val(class, toIRType(here.precision), id), <<>>)
    BY <1>3 DEF TranslateLiteral, TranslateVariable, Translate
  <2>2. /\ phase = "translate" /\ pending # <<>>
        /\ Checked(Call.node) => here.precision.kind = TypeOf(Call.node).kind
    BY <1>2, <1>3 DEF TranslateLiteral, TranslateVariable
  <2> DEFINE v == Val(class, toIRType(here.precision), id)
  <2>3. v.type = toIRType(here.precision) BY DEF Val
  <2> HIDE DEF v
  <2>4. Gives(v) BY <2>2, <2>3, KindDecides DEF Gives
  <2>5. CASE phase = "translate" /\ Throw BY <2>5 DEF CheckedMoves
  <2>6. CASE Returns(v, <<>>) BY <2>2, <2>4, <2>6 DEF EndsChecked, CheckedMoves
  <2> QED BY <2>1, <2>5, <2>6 DEF v
<1>4. CASE TranslateBinary \/ TranslateUnary \/ TranslatePromotion
  <2>1. PICK op : Compute(here.precision, op, Call.vals)
    BY <1>4 DEF TranslateBinary, TranslateUnary, TranslatePromotion
  <2>2. /\ phase = "translate" /\ pending # <<>>
        /\ Checked(Call.node) => here.precision.kind = TypeOf(Call.node).kind
    BY <1>2, <1>4 DEF TranslateBinary, TranslateUnary, TranslatePromotion
  <2> QED BY <2>1, <2>2, ComputeGives
<1>5. CASE TranslateCall
  <2>1. PICK t : /\ Compute(t, "CALL", Call.vals)
                 /\ here.slot # "zero" => t = here.precision
    BY <1>5 DEF TranslateCall
  <2>2. /\ phase = "translate" /\ pending # <<>>
        /\ Checked(Call.node) => t.kind = TypeOf(Call.node).kind
    BY <1>2, <1>5, <2>1 DEF TranslateCall
  <2> QED BY <2>1, <2>2, ComputeGives
<1>6. CASE TranslateRead \/ TranslateField
  <2>1. PICK t, op, args : Compute(t, op, args)
    BY <1>6 DEF TranslateRead, TranslateField
  <2>2. /\ phase = "translate" /\ pending # <<>> /\ here.kind \in {"read", "field"}
    BY <1>6 DEF TranslateRead, TranslateField, Translate
  <2>3. ~Checked(Call.node) BY <2>2 DEF Checked, here
  <2> QED BY <2>1, <2>2, <2>3, ComputeGives
<1> QED BY <1>1, <1>3, <1>4, <1>5, <1>6

(* The call that gets the value holds it for the operand it had begun.     *)
LEMMA CallerChecks ==
  ASSUME IInv, phase = "translate", nodes' = nodes, NEW lo, OrderedCode(lo),
         ValuesHaveCheckedType, Callers # <<>>, NEW v, Gives(v), phase' = "translate",
         pending' = [Callers EXCEPT ![Len(Callers)].vals = Append(@, v)]
  PROVE  ValuesHaveCheckedType'
<1> DEFINE f == Callers  m == Len(f)  l == Len(pending)  r == f[m].vals
<1>1. /\ pending # <<>>
      /\ \A k \in 1..l-1 :
           pending[k+1].node = nodes[pending[k].node].parts[Len(pending[k].vals) + 1]
  BY DEF OrderedCode
<1>2. pending \in Seq(Calls) BY <1>1, AtCall
<1>3. /\ f \in Seq(Calls) /\ m = l - 1 /\ DOMAIN f = 1..m /\ DOMAIN pending = 1..l
      /\ l \in Nat \ {0} /\ \A k \in 1..m : f[k] = pending[k]
  BY <1>1, <1>2, FrontIs DEF Callers
<1>4. m \in Nat \ {0}
  <2>1. m # 0 BY <1>3, EmptySeq
  <2> HIDE DEF m, l
  <2> QED BY <1>3, <2>1
<1>5. f[m] \in Calls /\ r \in Seq(Values)
  <2>1. f[m] \in Calls BY <1>3, <1>4
  <2> QED BY <2>1 DEF Calls
<1>6. /\ DOMAIN Append(r, v) = 1..(Len(r) + 1) /\ Append(r, v)[Len(r) + 1] = v
      /\ \A i \in 1..Len(r) : Append(r, v)[i] = r[i]
      /\ DOMAIN r = 1..Len(r) /\ Len(r) \in Nat
  <2> DEFINE S == Values \cup {v}
  <2>1. Values \subseteq S /\ v \in S OBVIOUS
  <2> HIDE DEF S, r
  <2>2. r \in Seq(S) BY <1>5, <2>1, SeqMonotonic
  <2> QED BY <2>1, <2>2, AppendProperties, LenProperties
<1>7. /\ DOMAIN pending' = 1..m /\ \A k \in 1..m : k # m => pending'[k] = pending[k]
      /\ pending'[m].node = pending[m].node /\ pending'[m].vals = Append(r, v)
  <2>1. f[m] = [node |-> f[m].node, vals |-> r] BY <1>5 DEF Calls
  <2>2. pending'[m] = [f[m] EXCEPT !.vals = Append(r, v)] BY <1>3, <1>4
  <2>3. pending'[m].node = f[m].node /\ pending'[m].vals = Append(r, v) BY <2>1, <2>2
  <2>4. DOMAIN pending' = 1..m /\ \A k \in 1..m : k # m => pending'[k] = f[k] BY <1>3
  <2>5. m \in 1..m BY <1>4
  <2> HIDE DEF f, m, r
  <2> QED BY <1>3, <2>3, <2>4, <2>5
<1>8. /\ m \in 1..l-1 /\ m + 1 = l /\ m \in 1..m /\ \A k \in 1..m : k \in 1..l
  <2> HIDE DEF m, l
  <2> QED BY <1>3, <1>4
<1>9. r = pending[m].vals BY <1>3, <1>8
<1>10. Call.node = nodes[pending[m].node].parts[Len(r) + 1]
  BY <1>1, <1>8, <1>9 DEF Call
<1> HIDE DEF f, m, l, r
<1>11. ASSUME NEW k \in 1..l, NEW i \in DOMAIN pending[k].vals,
              Checked(nodes[pending[k].node].parts[i])
       PROVE  pending[k].vals[i].type = toIRType(TypeOf(nodes[pending[k].node].parts[i]))
  BY <1>3, <1>11 DEF ValuesHaveCheckedType
<1>12. ASSUME NEW k \in 1..m, NEW i \in DOMAIN pending'[k].vals,
              Checked(nodes[pending'[k].node].parts[i])
       PROVE  pending'[k].vals[i].type = toIRType(TypeOf(nodes[pending'[k].node].parts[i]))
  <2>1. CASE k # m
    <3>1. pending'[k] = pending[k] /\ k \in 1..l BY <1>7, <1>8, <2>1
    <3>2. /\ i \in DOMAIN pending[k].vals /\ Checked(nodes[pending[k].node].parts[i])
          /\ pending'[k].vals[i] = pending[k].vals[i] /\ pending'[k].node = pending[k].node
      BY <1>12, <3>1
    <3>3. pending[k].vals[i].type = toIRType(TypeOf(nodes[pending[k].node].parts[i]))
      BY <1>11, <3>1, <3>2
    <3> QED BY <3>2, <3>3
  <2>2. CASE k = m
    <3>1. i \in 1..Len(r) \/ i = Len(r) + 1 BY <1>6, <1>7, <1>12, <2>2
    <3>2. CASE i \in 1..Len(r)
      <4>1. pending'[m].vals[i] = pending[m].vals[i] /\ i \in DOMAIN pending[m].vals
        BY <1>6, <1>7, <1>9, <3>2
      <4>2. m \in 1..l BY <1>8
      <4>3. pending'[m].node = pending[m].node BY <1>7
      <4>4. Checked(nodes[pending[m].node].parts[i]) BY <1>12, <2>2, <4>3
      <4>5. pending[m].vals[i].type = toIRType(TypeOf(nodes[pending[m].node].parts[i]))
        BY <1>11, <4>1, <4>2, <4>4
      <4> QED BY <2>2, <4>1, <4>3, <4>5
    <3>3. CASE i = Len(r) + 1
      <4>1. pending'[m].vals[i] = v /\ nodes[pending'[m].node].parts[i] = Call.node
        BY <1>6, <1>7, <1>10, <3>3
      <4> QED BY <1>12, <2>2, <4>1 DEF Gives
    <3> QED BY <3>1, <3>2, <3>3
  <2> QED BY <2>1, <2>2
<1>13. \A n : Checked(n)' = Checked(n) /\ TypeOf(n)' = TypeOf(n) BY CheckedStays
<1>14. \A n : toIRType(TypeOf(n))' = toIRType(TypeOf(n)) BY <1>13 DEF toIRType
<1> QED BY <1>7, <1>12, <1>13, <1>14 DEF ValuesHaveCheckedType

(* The assignment stores the value of the root.                            *)
LEMMA StoreChecks ==
  ASSUME IInv, phase = "translate", pending # <<>>, UNCHANGED <<nodes, root, target>>,
         NEW lo, OrderedCode(lo), CheckedNodes, Callers = <<>>, NEW v, Gives(v), NEW instrs,
         instrs = <<>> \/ \E inst : instrs = <<inst>>, NEW dst, phase' = "done",
         code' = code \o instrs \o <<IRInst(0, "STORE", dst, <<v>>)>>
  PROVE  ValuesHaveCheckedType'
<1> DEFINE store == IRInst(0, "STORE", dst, <<v>>)  c == code \o instrs
           S == Instructions \cup {store} \cup {instrs[1]}
<1>1. code \in Seq(Instructions) BY AtCall
<1>2. code \in Seq(S) /\ store \in S
  <2>1. Instructions \subseteq S /\ store \in S OBVIOUS
  <2> HIDE DEF S
  <2> QED BY ONLY <1>1, <2>1, SeqMonotonic
<1>3. store.args[1] = v
  <2>1. store.args = <<v>> BY DEF IRInst
  <2> QED BY <2>1
<1>4. c \in Seq(S)
  <2>1. CASE instrs = <<>>
    <3>1. c = code BY <1>1, <2>1, ConcatEmptySeq
    <3> QED BY <1>2, <3>1
  <2>2. CASE \E inst : instrs = <<inst>>
    <3>1. PICK inst : instrs = <<inst>> BY <2>2
    <3>2. inst \in S BY <3>1
    <3> HIDE DEF S
    <3>3. c = Append(code, inst) BY <1>2, <3>1, <3>2, AppendIsConcat
    <3> QED BY <1>2, <3>2, <3>3, AppendProperties
  <2> QED BY <2>1, <2>2
<1> HIDE DEF store, c, S
<1>5. code'[Len(code')] = store
  <2>1. code' = Append(c, store)
    <3>1. code' = c \o <<store>> BY DEF c, store
    <3> QED BY <1>2, <1>4, <3>1, AppendIsConcat
  <2>2. Len(code') = Len(c) + 1 /\ code'[Len(c) + 1] = store
    BY <1>2, <1>4, <2>1, AppendProperties
  <2> QED BY <2>2
<1>6. Call.node = root
  <2>1. pending \in Seq(Calls) BY AtCall
  <2>2. Len(pending) \in Nat \ {0} /\ Len(Callers) = Len(pending) - 1
    BY <2>1, FrontIs DEF Callers
  <2>3. Len(Callers) = 0 BY EmptySeq
  <2>4. Len(pending) = 1 BY <2>2, <2>3
  <2> QED BY <2>4 DEF Call, OrderedCode
<1>7. TypeOf(root).kind = Variables[target].kind
  <2>1. TypeOf(root) = Precisions(nodes)[root] BY PrecisionIsRule DEF TypeOf
  <2> QED BY <2>1 DEF CheckedNodes
<1>8. Checked(root) => v.type = toIRType(Variables[target])
  BY <1>6, <1>7, KindDecides DEF Gives
<1>9. Checked(root)' = Checked(root) BY CheckedStays
<1> QED BY <1>3, <1>5, <1>8, <1>9 DEF ValuesHaveCheckedType

LEMMA MoveChecks ==
  ASSUME IInv, NEW lo, OrderedNodes(lo), OrderedCode(lo), CheckedNodes,
         ValuesHaveCheckedType, CheckedMoves
  PROVE  CheckedNodes' /\ ValuesHaveCheckedType'
<1>1. /\ phase = "translate" /\ phase' \in {"translate", "done", "threw"}
      /\ UNCHANGED <<nodes, operands, target, root>>
  BY DEF CheckedMoves, EndsChecked, Returns, Throw, TranslateOperand
<1>2. CheckedNodes'
  <2>1. Original' = Original BY <1>1 DEF Original
  <2> QED BY <1>1, <2>1 DEF CheckedNodes
<1>3. CASE EndsChecked
  <2>1. PICK v, instrs : /\ Returns(v, instrs) /\ Gives(v)
                         /\ instrs = <<>> \/ \E inst : instrs = <<inst>>
    BY <1>3 DEF EndsChecked
  <2>2. CASE Callers # <<>>
    <3>1. /\ pending' = [Callers EXCEPT ![Len(Callers)].vals = Append(@, v)]
          /\ phase' = "translate"
      BY <1>1, <2>1, <2>2 DEF Returns
    <3> QED BY <1>1, <1>2, <2>1, <2>2, <3>1, CallerChecks
  <2>3. CASE Callers = <<>>
    <3> DEFINE dst == Val("VAR", toIRType(Variables[target]), target)
    <3>1. /\ code' = code \o instrs \o <<IRInst(0, "STORE", dst, <<v>>)>> /\ phase' = "done"
      BY <2>1, <2>3 DEF Returns
    <3> HIDE DEF dst
    <3>2. pending # <<>> BY <1>3 DEF EndsChecked
    <3> QED BY <1>1, <1>2, <2>1, <2>3, <3>1, <3>2, StoreChecks
  <2> QED BY <1>2, <2>2, <2>3
<1>4. CASE Throw BY <1>2, <1>4 DEF Throw, ValuesHaveCheckedType
<1>5. CASE TranslateOperand
  <2> DEFINE x == [node |-> here.parts[Len(Call.vals) + 1], vals |-> <<>>]  l == Len(pending)
  <2>1. pending' = Append(pending, x) /\ phase' = "translate" /\ pending # <<>>
    BY <1>1, <1>5 DEF TranslateOperand
  <2>2. pending \in Seq(Calls) /\ l \in Nat /\ DOMAIN pending = 1..l BY <1>1, <2>1, AtCall
  <2>3. DOMAIN x.vals = {} BY EmptySeq
  <2> DEFINE S == Calls \cup {x}
  <2>4. pending \in Seq(S) /\ x \in S
    <3>1. Calls \subseteq S /\ x \in S OBVIOUS
    <3> HIDE DEF S
    <3> QED BY ONLY <2>2, <3>1, SeqMonotonic
  <2> HIDE DEF S, x
  <2>5. /\ DOMAIN pending' = 1..(l + 1) /\ pending'[l + 1] = x
        /\ \A k \in 1..l : pending'[k] = pending[k]
    BY <2>1, <2>4, AppendProperties, LenProperties
  <2> HIDE DEF l
  <2>6. \A k \in DOMAIN pending' : DOMAIN pending'[k].vals # {} =>
          k \in DOMAIN pending /\ pending'[k] = pending[k]
    <3>1. \A k \in 1..(l + 1) : k \in 1..l \/ k = l + 1 BY <2>2
    <3> QED BY <2>2, <2>3, <2>5, <3>1
  <2>7. \A n : Checked(n)' = Checked(n) /\ TypeOf(n)' = TypeOf(n) BY <1>1, CheckedStays
  <2>8. \A n : toIRType(TypeOf(n))' = toIRType(TypeOf(n)) BY <2>7 DEF toIRType
  <2> QED BY <1>1, <1>2, <2>1, <2>6, <2>7, <2>8 DEF ValuesHaveCheckedType
<1> QED BY <1>3, <1>4, <1>5 DEF CheckedMoves

LEMMA CheckBegins ==
  ASSUME Init
  PROVE  CheckedNodes /\ ValuesHaveCheckedType
<1>1. DOMAIN nodes = {} /\ next = 1 /\ phase = "parse" BY EmptySeq DEF Init
<1> QED BY <1>1 DEF CheckedNodes, Direct, ValuesHaveCheckedType

LEMMA CheckKeeps ==
  ASSUME IInv, OrderInv, CheckedNodes, ValuesHaveCheckedType, [Next]_vars
  PROVE  CheckedNodes' /\ ValuesHaveCheckedType'
<1>1. PICK lo : OrderedNodes(lo) /\ OrderedCode(lo) BY DEF OrderInv
<1>2. ASSUME phase' \notin {"translate", "done"} PROVE ValuesHaveCheckedType'
  BY <1>2 DEF ValuesHaveCheckedType
<1>3. ASSUME ParserMoves PROVE CheckedNodes' /\ ValuesHaveCheckedType'
  <2>1. PICK new, k : Made(new, k) BY <1>3 DEF ParserMoves
  <2>2. phase' = "parse" BY <2>1 DEF Made, Parsed
  <2>3. CheckedNodes' BY <1>1, <2>1, ParserChecks
  <2> QED BY <1>2, <2>2, <2>3
<1>4. CASE EndParse
  <2>1. phase' = "analyse" BY <1>4 DEF EndParse
  <2> QED BY <1>2, <1>4, <2>1, ParseEndChecks
<1>5. ASSUME AnalyserMoves, errorNumber' = 0 /\ next \notin ArgumentsOf(nodes) => NotedIn(nodes', next)
      PROVE  CheckedNodes' /\ ValuesHaveCheckedType'
  <2>1. phase' = "analyse" BY <1>5 DEF AnalyserMoves, Analysed
  <2>2. CheckedNodes' BY <1>1, <1>5, AnalyserChecks
  <2> QED BY <1>2, <2>1, <2>2
<1>6. CASE Convert
  <2>1. CheckedNodes' BY <1>1, <1>6, ConvertChecks
  <2>2. phase' # "translate" => phase' \notin {"translate", "done"}
    BY <1>6 DEF Convert
  <2>3. ASSUME phase' = "translate" PROVE ValuesHaveCheckedType'
    <3> DEFINE x == [node |-> root', vals |-> <<>>]
    <3>1. pending' = <<x>> BY <1>6, <2>3 DEF Convert
    <3>2. DOMAIN x.vals = {} BY EmptySeq
    <3> HIDE DEF x
    <3>3. DOMAIN pending' = {1} /\ pending'[1] = x BY <3>1
    <3> QED BY <2>3, <3>2, <3>3 DEF ValuesHaveCheckedType
  <2> QED BY <1>2, <2>1, <2>2, <2>3
<1>7. ASSUME CheckedMoves PROVE CheckedNodes' /\ ValuesHaveCheckedType'
  BY <1>1, <1>7, MoveChecks
<1>8. ASSUME UNCHANGED vars PROVE CheckedNodes' /\ ValuesHaveCheckedType'
  <2>1. /\ UNCHANGED <<nodes, operands, target, root, phase, next, errorNumber, pending, code>>
        /\ Original' = Original
    BY <1>8 DEF vars, Original
  <2>2. CheckedNodes' BY <2>1 DEF CheckedNodes, Unset
  <2>3. \A n : Checked(n)' = Checked(n) /\ TypeOf(n)' = TypeOf(n) BY <2>1, CheckedStays
  <2>4. \A n : toIRType(TypeOf(n))' = toIRType(TypeOf(n)) BY <2>3 DEF toIRType
  <2>5. Checked(root)' = Checked(root) BY <2>1, CheckedStays
  <2>6. ValuesHaveCheckedType' BY <2>1, <2>3, <2>4, <2>5 DEF ValuesHaveCheckedType
  <2> QED BY <2>2, <2>6
<1>9. CASE ParseLeaf \/ ParseUnary \/ ParseBinary \/ ParseRead \/ ParseCall \/ ParseField
  BY <1>3, <1>9, LeafParsed, UnaryParsed, BinaryParsed, ReadParsed, CallParsed, FieldParsed
<1>10. CASE SkipArgument
  <2>1. next \in ArgumentsOf(nodes) BY <1>10, ArgumentsAre DEF SkipArgument
  <2>2. AnalyserMoves BY <1>10, LeafAnalysed
  <2> QED BY <1>5, <2>1, <2>2
<1>11. CASE AnalyseLeaf \/ AnalyseRead \/ AnalyseField \/ AnalyseComparison
  <2>1. AnalyserMoves
    BY <1>11, LeafAnalysed, ReadAnalysed, FieldAnalysed, ComparisonAnalysed
  <2>2. NotedIn(nodes', next) BY <1>1, <1>11, <2>1, OthersNoted
  <2> QED BY <1>5, <2>1, <2>2
<1>12. CASE AnalyseVariable
  <2>1. AnalyserMoves BY <1>12, VariableAnalysed
  <2>2. NotedIn(nodes', next) BY <1>1, <1>12, <2>1, VariableNoted
  <2> QED BY <1>5, <2>1, <2>2
<1>13. CASE AnalyseUnary
  <2>1. AnalyserMoves BY <1>13, UnaryAnalysed
  <2>2. errorNumber' = 0 => NotedIn(nodes', next) BY <1>1, <1>13, <2>1, UnaryNoted
  <2> QED BY <1>5, <2>1, <2>2
<1>14. CASE AnalyseArithmetic
  <2>1. AnalyserMoves BY <1>14, ArithmeticAnalysed
  <2>2. NotedIn(nodes', next) BY <1>1, <1>14, <2>1, ArithmeticNoted
  <2> QED BY <1>5, <2>1, <2>2
<1>15. CASE AnalyseCall
  <2>1. AnalyserMoves BY <1>15, CallAnalysed
  <2>2. NotedIn(nodes', next) BY <1>1, <1>15, <2>1, CallNoted
  <2> QED BY <1>5, <2>1, <2>2
<1>16. CASE \/ TranslateOperand \/ TranslateLiteral \/ TranslateVariable \/ TranslateBinary
            \/ TranslateUnary \/ TranslateCall \/ TranslatePromotion \/ TranslateRead
            \/ TranslateField
  <2>1. CheckedMoves BY <1>1, <1>16, TranslatorChecks
  <2> QED BY <1>7, <2>1
<1>17. CASE Done \/ Stop \/ UNCHANGED vars BY <1>8, <1>17 DEF Done, Stop
<1> QED BY <1>4, <1>6, <1>9, <1>10, <1>11, <1>12, <1>13, <1>14, <1>15, <1>16, <1>17 DEF Next

(* codeSemanticAnalyses and TranslateExpr: in an expression that is        *)
(* accepted, however deep a value is, its type in the IR is the one the    *)
(* analyser compared and converted, with the exceptions Checked names, and *)
(* the value stored has the type of the variable.                          *)
THEOREM CheckedTypesKept == Spec => []ValuesHaveCheckedType
<1>1. Init => CheckedNodes /\ ValuesHaveCheckedType BY CheckBegins
<1>2. /\ IInv /\ OrderInv /\ CheckedNodes /\ ValuesHaveCheckedType /\ [Next]_vars
      => CheckedNodes' /\ ValuesHaveCheckedType'
  BY CheckKeeps
<1> QED BY <1>1, <1>2, OrderInvariant, PTL DEF Spec

=============================================================================
