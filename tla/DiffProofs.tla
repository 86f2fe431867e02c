------------------------------- MODULE DiffProofs -------------------------------
(***************************************************************************)
(* Theorems about Diff, for any objects, choices, scalars and desired      *)
(* values.                                                                 *)
(*                                                                         *)
(* The matching of lists (Left) is a recursive function.  Its equations    *)
(* come from Recursion, which says that such a function exists; what it    *)
(* computes then follows by induction on the set of positions the          *)
(* statement holds of (Reaches).                                           *)
(*                                                                         *)
(* Two hypotheses, each of the theorem that needs it: NamesDiffer, as      *)
(* values_equal takes a string for an id, a slug or a name alike, and      *)
(* ListsOnce, as it counts what NetBox keeps as a set.                     *)
(***************************************************************************)
EXTENDS Diff, FiniteSetTheorems, FunctionTheorems, WellFoundedInduction, TLAPS

-----------------------------------------------------------------------------
(* Numbers: induction and recursion up to a bound, for sets and functions. *)

\* A set of numbers has a first element.
LEMMA Least ==
    ASSUME NEW S \in SUBSET Nat, S # {}
    PROVE  \E n \in S : \A i \in S : n <= i
<1> DEFINE R == OpToRel(<, Nat)
<1>1. PICK n \in S : \A i \in S : ~(<<i, n>> \in R)
  <2> HIDE DEF R
  <2>1. IsWellFoundedOn(R, Nat)
    BY NatLessThanWellFounded DEF R
  <2> QED BY <2>1, WFMin
<1>2. \A i \in S : ~(i < n)
  BY <1>1 DEF OpToRel
<1> QED BY <1>2

\* Induction up to n, for the set of numbers a statement holds of.
LEMMA Reaches ==
    ASSUME NEW n \in Nat, NEW S, 0 \in S, \A m \in 0..(n - 1) : m \in S => m + 1 \in S
    PROVE  0..n \subseteq S
<1> DEFINE T == {k \in 0..n : k \notin S}
<1> SUFFICES ASSUME T # {} PROVE FALSE
  OBVIOUS
<1>1. PICK k \in T : \A i \in T : k <= i
  <2>1. T \in SUBSET Nat
    OBVIOUS
  <2> HIDE DEF T
  <2> QED BY <2>1, Least
<1>2. k - 1 \in 0..(n - 1) /\ k - 1 \in 0..n /\ ~(k <= k - 1) /\ (k - 1) + 1 = k
  BY <1>1
<1>3. k - 1 \in S
  BY <1>1, <1>2
<1> QED BY <1>1, <1>2, <1>3

\* A function of the numbers up to n is defined by its first value and the
\* step from one to the next.
Steps(n, T, a, step) == n \in Nat /\ a \in T /\ \A i \in 1..n, x \in T : step[i][x] \in T
Follows(f, n, T, a, step) == f \in [0..n -> T] /\ f[0] = a /\ \A i \in 1..n : f[i] = step[i][f[i - 1]]

LEMMA Recursion ==
    ASSUME NEW n, NEW T, NEW a, NEW step, Steps(n, T, a, step)
    PROVE  \E f : Follows(f, n, T, a, step)
<1> USE DEF Steps
<1>0. n \in Nat
  OBVIOUS
<1> DEFINE Upto(m, f) == f \in [0..m -> T] /\ f[0] = a /\ \A i \in 1..m : f[i] = step[i][f[i - 1]]
           S == {m \in 0..n : \E f : Upto(m, f)}
<1>1. 0 \in S
  <2> DEFINE f == [i \in 0..0 |-> a]
  <2>1. Upto(0, f)
    OBVIOUS
  <2> HIDE DEF f, Upto
  <2> QED BY <2>1
<1>2. ASSUME NEW m \in 0..(n - 1), m \in S PROVE m + 1 \in S
  <2>1. PICK f : Upto(m, f)
    BY <1>2
  <2> DEFINE g == [i \in 0..(m + 1) |-> IF i = m + 1 THEN step[m + 1][f[m]] ELSE f[i]]
  <2>2. m + 1 \in 1..n /\ f[m] \in T
    BY <2>1
  <2>3. step[m + 1][f[m]] \in T
    BY <2>2
  <2>4. g \in [0..(m + 1) -> T] /\ g[0] = a
    BY <2>1, <2>3
  <2>5. ASSUME NEW i \in 1..(m + 1) PROVE g[i] = step[i][g[i - 1]]
    BY <2>1
  <2>6. Upto(m + 1, g)
    BY <2>4, <2>5
  <2> HIDE DEF g, Upto
  <2> QED BY <2>2, <2>6
<1>3. n \in S
  <2> HIDE DEF S
  <2>1. 0..n \subseteq S
    BY <1>0, <1>1, <1>2, Reaches
  <2> QED BY <1>0, <2>1
<1> QED BY <1>3 DEF Follows

-----------------------------------------------------------------------------
(* Values.                                                                 *)

\* No object is called by what another is: by its id, its slug or its name.
Names(r) == {Number(r.id), Number(r.slug), Number(r.name)}
NamesDiffer == \A r, q \in Related : Names(r) \cap Names(q) # {} => r = q

\* No list asked for names an object twice.
ListsOnce ==
    \A k \in Kinds : \A v \in Wanted[k] : v.t = "list" =>
        \A i, j \in DOMAIN v.items : i # j => Pointed(v.items[i]) \cap Pointed(v.items[j]) = {}

LEMMA Tags ==
    /\ Null.t = "null"
    /\ \A x : /\ Num(x).t = "int" /\ Num(x).text = x
              /\ Float(x).t = "float" /\ Float(x).text = x
              /\ Str(x).t = "str" /\ Str(x).text = x
              /\ Bool(x).t = "bool" /\ Bool(x).text = x
              /\ List(x).t = "list" /\ List(x).items = x
              /\ Dict(x).t = "dict" /\ Dict(x).map = x
  BY DEF Null, Num, Float, Str, Bool, List, Dict

\* Scalars found equal are written for the same number or text.
LEMMA ScalarEqualIs ==
    ASSUME NEW x, NEW y, ScalarEqual(x, y), x # y
    PROVE  /\ x.t \in {"int", "float", "str", "bool"} /\ Number(x.text) = Number(y.text)
           /\ y.t = "str" => IsText(x) /\ x.text = y.text
           /\ x.t = "str" => x.text = y.text
  BY DEF ScalarEqual, PyEqual, Numeric, IsText

\* What differs in the constants differs in its number.
LEMMA RelatedDiffer == \A r, q \in Related : Number(r.id) = Number(q.id) => r = q
  BY DiffAssumption
LEMMA ChoicesAre ==
    /\ \A c \in Choices : c.t = "choice" /\ c.value.t \in {"int", "str"}
    /\ \A c, d \in Choices : Number(c.value.text) = Number(d.value.text) => c = d
  BY Tags, DiffAssumption
LEMMA ScalarsAre ==
    /\ \A s \in Scalars : s \in {Num(s.text), Float(s.text), Str(s.text)} /\ s.t \in {"int", "float", "str"}
    /\ \A s, r \in Scalars : s.t = r.t /\ s.t # "str" /\ Number(s.text) = Number(r.text) => s = r
  BY Tags, DiffAssumption
LEMMA KeptAre == \A s \in Scalars : \E r \in Scalars : r.text = Kept(s.text) /\ Kept(r.text) = r.text
  BY DiffAssumption
LEMMA BooleansAre ==
    /\ \A b \in Booleans : b.t = "bool" /\ b.text \in {"True", "False"}
    /\ \A b, c \in Booleans : Number(b.text) = Number(c.text) => b = c
<1>1. Number("True") # Number("False")
  BY DiffAssumption
<1> QED BY <1>1, Tags DEF Booleans

LEMMA KindsAre == kind \in Kinds =>
    kind \in {"related", "choice", "char", "integer", "decimal", "boolean", "list", "custom_fields"}
  BY DiffAssumption DEF FieldKind

\* The kinds whose values hold no other.
Plain == {"related", "choice", "char", "integer", "decimal", "boolean"}

LEMMA PlainWanted ==
    ASSUME kind \in Kinds, kind \in Plain, NEW d \in Wanted[kind]
    PROVE  Leaf(d)
  BY DiffAssumption DEF Plain

\* The number a field holds.
LEMMA HeldNumber ==
    ASSUME kind \in {"integer", "decimal"}
    PROVE  /\ \A c \in Holdable \ {Null} : c \in Scalars /\ c.t \in {"int", "float"}
           /\ \A c, s \in Holdable \ {Null} : Number(c.text) = Number(s.text) => c = s
<1>1. CASE kind = "integer"
  BY <1>1, DiffAssumption DEF Holdable
<1>2. CASE kind = "decimal"
  BY <1>2, DiffAssumption DEF Holdable
<1> QED BY <1>1, <1>2

\* What points to an object is all that does.
LEMMA PointedOnce ==
    ASSUME NamesDiffer, NEW d
    PROVE  /\ (Pointed(d) \subseteq Related /\ d # Null) \/ Pointed(d) = {}
           /\ \A r, q \in Pointed(d) : r = q
<1>1. d = Null => Pointed(d) = {}
  BY Tags DEF Pointed
<1>2. \A r, q \in Pointed(d) : Names(r) \cap Names(q) # {} /\ r \in Related /\ q \in Related
  BY DEF Pointed, Names
<1> QED BY <1>1, <1>2 DEF Pointed, NamesDiffer

\* What equals an object points to it, if it points to one at all.
LEMMA EqualPointed ==
    ASSUME NamesDiffer, NEW d, Leaf(d), NEW r \in Related, Pointed(d) # {}, LeafEqual(d, r)
    PROVE  r \in Pointed(d)
<1>1. r.t = "nested"
  BY DiffAssumption
<1>2. PICK q \in Related : q \in Pointed(d)
  BY DEF Pointed
<1>3. CASE d.t = "str"
  <2>1. Number(q.id) = Number(d.text)
    BY <1>2, <1>3 DEF Pointed
  <2>2. d.text \in {r.slug, r.name, r.id}
    BY <1>1, <1>3 DEF LeafEqual
  <2>3. r = q
    BY <2>1, <2>2 DEF NamesDiffer, Names
  <2> QED BY <1>2, <2>3
<1>4. CASE d.t = "lookup"
  BY <1>1, <1>4 DEF Pointed, LeafEqual
<1>5. CASE d.t = "int"
  BY <1>1, <1>5 DEF Pointed, LeafEqual
<1>6. CASE d.t \notin {"int", "str", "lookup"}
  BY <1>1, <1>6 DEF LeafEqual
<1> QED BY <1>3, <1>4, <1>5, <1>6

\* What points to an object, in its own spelling, equals it.
LEMMA PointedEqual ==
    ASSUME kind \in {"related", "list"}, NEW d, Leaf(d), SpelledLeaf(d), NEW r \in Pointed(d)
    PROVE  LeafEqual(d, r)
<1>1. r \in Related /\ r.t = "nested"
  BY DiffAssumption DEF Pointed
<1>2. d.t \in {"int", "str", "lookup"}
  BY DEF Leaf, SpelledLeaf, Pointed
<1>3. CASE d.t = "lookup"
  BY <1>1, <1>3 DEF Pointed, LeafEqual
<1>4. CASE d.t = "str"
  <2>1. PICK q \in Related : d.text = q.id
    BY <1>4 DEF SpelledLeaf
  <2>2. Number(r.id) = Number(q.id)
    BY <1>4, <2>1 DEF Pointed
  <2>3. d.text = r.id
    BY <1>1, <2>1, <2>2, DiffAssumption
  <2> QED BY <1>1, <1>4, <2>3 DEF LeafEqual
<1>5. CASE d.t = "int"
  BY <1>1, <1>5 DEF Pointed, LeafEqual
<1> QED BY <1>2, <1>3, <1>4, <1>5

\* What NetBox stores of a value, in its own spelling, equals it.
LEMMA StoredEqual ==
    ASSUME kind \in Kinds, kind \in Plain, NEW d, Leaf(d), SpelledLeaf(d), NEW v \in StoredLeaf(d)
    PROVE  LeafEqual(d, v) /\ v.t \notin {"list", "dict"}
<1>1. CASE d = Null
  <2>1. v = Null
    BY <1>1 DEF StoredLeaf
  <2> QED BY <1>1, <2>1, Tags DEF LeafEqual, ScalarEqual, PyEqual
<1>2. CASE d # Null /\ kind = "related"
  <2>1. v \in Pointed(d)
    BY <1>2 DEF StoredLeaf
  <2>2. v.t = "nested"
    BY <2>1, DiffAssumption DEF Pointed
  <2> QED BY <1>2, <2>1, <2>2, PointedEqual
<1>3. CASE d # Null /\ kind = "choice"
  <2>1. /\ v \in Choices /\ v.t = "choice"
        /\ \/ PyEqual(d, v.value)
           \/ d.t = "str" /\ v.value.t = "int" /\ Number(d.text) = Number(v.value.text)
    BY <1>3, ChoicesAre DEF StoredLeaf, Chosen
  <2>2. v.value.t \in {"int", "str"}
    BY <2>1, Tags, DiffAssumption
  <2>3. d.t # "lookup"
    BY <2>1, <2>2 DEF PyEqual, Numeric
  <2>4. ScalarEqual(d, v.value)
    <3>1. CASE PyEqual(d, v.value)
      BY <3>1 DEF ScalarEqual
    <3>2. CASE d.t = "str" /\ v.value.t = "int" /\ Number(d.text) = Number(v.value.text)
      <4>1. PICK c \in Choices : d.text = c.value.text
        BY <1>3, <3>2 DEF SpelledLeaf
      <4>2. c = v
        BY <2>1, <3>2, <4>1, DiffAssumption
      <4> QED BY <3>2, <4>1, <4>2 DEF ScalarEqual, IsText
    <3> QED BY <2>1, <3>1, <3>2
  <2> QED BY <2>1, <2>3, <2>4 DEF LeafEqual
<1>4. CASE d # Null /\ kind = "char"
  <2>1. IsText(d) /\ v = Str(Kept(d.text))
    BY <1>4 DEF StoredLeaf
  <2>2. Kept(d.text) = d.text
    BY <1>4, <2>1 DEF SpelledLeaf, IsText
  <2> QED BY <2>1, <2>2, Tags DEF LeafEqual, ScalarEqual, IsText
<1>5. CASE d # Null /\ kind \in {"integer", "decimal"}
  <2>1. v \in Holdable \ {Null} /\ IsText(d) /\ Number(v.text) = Number(d.text)
    BY <1>5 DEF StoredLeaf
  <2>2. v.t \in {"int", "float"}
    BY <1>5, <2>1, HeldNumber
  <2>3. ScalarEqual(d, v)
    <3>1. CASE d.t = "str"
      <4>1. PICK s \in Holdable \ {Null} : d.text = s.text
        BY <1>5, <3>1 DEF SpelledLeaf
      <4>2. s = v
        BY <1>5, <2>1, <4>1, HeldNumber
      <4> QED BY <2>1, <2>2, <4>1, <4>2 DEF ScalarEqual, IsText
    <3>2. CASE d.t # "str"
      BY <2>1, <2>2, <3>2 DEF ScalarEqual, PyEqual, Numeric, IsText
    <3> QED BY <3>1, <3>2
  <2> QED BY <2>1, <2>2, <2>3 DEF LeafEqual, IsText
<1>6. CASE d # Null /\ kind = "boolean"
  <2>1. v \in Booleans /\ PyEqual(d, v)
    BY <1>6 DEF StoredLeaf, SpelledLeaf
  <2>2. v.t = "bool"
    BY <2>1, Tags DEF Booleans
  <2> QED BY <2>1, <2>2, Tags DEF LeafEqual, ScalarEqual, PyEqual, Numeric
<1> QED BY <1>1, <1>2, <1>3, <1>4, <1>5, <1>6 DEF Plain

\* A value that equals the one held is stored as that one.
LEMMA EqualStored ==
    ASSUME NamesDiffer, kind \in Kinds, kind \in Plain, NEW d, Leaf(d), NEW c \in Holdable,
           LeafEqual(d, c), NEW v \in StoredLeaf(d)
    PROVE  v = c
<1>1. CASE c = Null
  <2>1. ScalarEqual(d, c)
    BY <1>1, Tags DEF LeafEqual
  <2>2. d = c
    BY <1>1, <2>1, Tags DEF ScalarEqual, PyEqual, Numeric, IsText
  <2> QED BY <1>1, <2>2 DEF StoredLeaf
<1>2. CASE c # Null /\ kind = "related"
  <2>1. c \in Related
    BY <1>2 DEF Holdable
  <2>2. c.t = "nested"
    BY <2>1, DiffAssumption
  <2>3. d # Null
    BY <2>2, Tags DEF LeafEqual
  <2>4. v \in Pointed(d)
    BY <1>2, <2>3 DEF StoredLeaf
  <2>5. c \in Pointed(d)
    BY <2>1, <2>4, EqualPointed
  <2> QED BY <2>4, <2>5, PointedOnce
<1>3. CASE c # Null /\ kind = "choice"
  <2>1. c \in Choices /\ c.t = "choice" /\ c.value.t \in {"int", "str"}
    BY <1>3, Tags, DiffAssumption DEF Holdable
  <2>2. ScalarEqual(d, c.value) \/ (d.t = "lookup" /\ ScalarEqual(Str(d.text), c.value))
    BY <2>1 DEF LeafEqual
  <2>3. d # Null
    BY <2>1, <2>2, Tags DEF ScalarEqual, PyEqual, Numeric, IsText
  <2>4. /\ v \in Choices /\ v.value.t \in {"int", "str"}
        /\ \/ PyEqual(d, v.value)
           \/ d.t = "str" /\ v.value.t = "int" /\ Number(d.text) = Number(v.value.text)
    BY <1>3, <2>3, ChoicesAre DEF StoredLeaf, Chosen
  <2>5. d.t # "lookup" /\ Number(d.text) = Number(v.value.text)
    BY <2>4 DEF PyEqual, Numeric
  <2>6. Number(d.text) = Number(c.value.text)
    BY <2>2, <2>5 DEF ScalarEqual, PyEqual, Numeric, IsText
  <2> QED BY <2>1, <2>4, <2>5, <2>6, ChoicesAre
<1>4. CASE c # Null /\ kind = "char"
  <2>1. PICK s \in Scalars : c = Str(Kept(s.text))
    BY <1>4 DEF Holdable
  <2>2. c.t = "str" /\ c.text = Kept(s.text)
    BY <2>1, Tags
  <2>3. ScalarEqual(d, c)
    BY <2>2 DEF LeafEqual
  <2>4. IsText(d) /\ d.text = c.text
    BY <2>2, <2>3, ScalarEqualIs DEF IsText
  <2>5. d # Null
    BY <2>4, Tags DEF IsText
  <2>6. v = Str(Kept(d.text))
    BY <1>4, <2>5 DEF StoredLeaf
  <2>7. Kept(Kept(s.text)) = Kept(s.text)
    BY KeptAre
  <2> QED BY <2>1, <2>2, <2>4, <2>6, <2>7
<1>5. CASE c # Null /\ kind \in {"integer", "decimal"}
  <2>1. c \in Holdable \ {Null} /\ c.t \in {"int", "float"}
    BY <1>5, HeldNumber
  <2>2. ScalarEqual(d, c)
    BY <2>1 DEF LeafEqual
  <2>3. d # Null /\ Number(d.text) = Number(c.text)
    BY <2>1, <2>2, Tags, ScalarEqualIs
  <2>4. v \in Holdable \ {Null} /\ Number(v.text) = Number(d.text)
    BY <1>5, <2>3 DEF StoredLeaf
  <2> QED BY <1>5, <2>1, <2>3, <2>4, HeldNumber
<1>6. CASE c # Null /\ kind = "boolean"
  <2>1. c \in Booleans /\ c.t = "bool"
    BY <1>6, Tags DEF Holdable, Booleans
  <2>2. ScalarEqual(d, c)
    BY <2>1 DEF LeafEqual
  <2>3. d.t \in {"int", "float", "bool"} /\ Number(d.text) = Number(c.text)
    BY <2>1, <2>2 DEF ScalarEqual, PyEqual, Numeric, IsText
  <2>4. v \in Booleans /\ PyEqual(d, v)
    BY <1>6, <2>3, Tags DEF StoredLeaf
  <2>5. Number(d.text) = Number(v.text)
    BY <2>4 DEF PyEqual
  <2> QED BY <2>1, <2>3, <2>4, <2>5, BooleansAre
<1> QED BY <1>1, <1>2, <1>3, <1>4, <1>5, <1>6 DEF Plain

\* What is held is stored again when it is sent in writable form.
LEMMA RestoredIs ==
    ASSUME kind \in Kinds, kind \in Plain, NEW c \in Holdable
    PROVE  StoredLeaf(LeafToWritable(c)) = {c} /\ c.t \notin {"list", "dict"}
<1>1. CASE c = Null
  BY <1>1, Tags DEF StoredLeaf, LeafToWritable
<1>2. CASE c # Null /\ kind = "related"
  <2>1. c \in Related /\ c.t = "nested"
    BY <1>2, DiffAssumption DEF Holdable
  <2>2. LeafToWritable(c) = Num(c.id) /\ Num(c.id) # Null
    BY <2>1, Tags DEF LeafToWritable
  <2>3. StoredLeaf(Num(c.id)) = Pointed(Num(c.id))
    BY <1>2, <2>2 DEF StoredLeaf
  <2>4. Pointed(Num(c.id)) = {r \in Related : Number(r.id) = Number(c.id)}
    BY Tags DEF Pointed
  <2> QED BY <2>1, <2>2, <2>3, <2>4, DiffAssumption
<1>3. CASE c # Null /\ kind = "choice"
  <2>1. c \in Choices /\ c.t = "choice" /\ c.value.t \in {"int", "str"}
    BY <1>3, ChoicesAre DEF Holdable
  <2>2. LeafToWritable(c) = c.value /\ c.value # Null
    BY <2>1, Tags DEF LeafToWritable
  <2>3. StoredLeaf(c.value) = Chosen(c.value)
    BY <1>3, <2>2 DEF StoredLeaf
  <2>4. c \in Chosen(c.value)
    BY <2>1 DEF Chosen, PyEqual
  <2>5. \A e \in Chosen(c.value) : e \in Choices /\ Number(c.value.text) = Number(e.value.text)
    BY DEF Chosen, PyEqual
  <2>6. \A e \in Chosen(c.value) : e = c
    BY <2>1, <2>5, ChoicesAre
  <2> QED BY <2>1, <2>2, <2>3, <2>4, <2>6
<1>4. CASE c # Null /\ kind = "char"
  <2>1. PICK s \in Scalars : c = Str(Kept(s.text))
    BY <1>4 DEF Holdable
  <2>2. LeafToWritable(c) = c /\ c.t = "str" /\ c.text = Kept(s.text)
    BY <2>1, Tags DEF LeafToWritable
  <2>3. StoredLeaf(c) = {Str(Kept(e.text)) : e \in {e \in Scalars : e.text = c.text}}
    BY <1>4, <2>2 DEF StoredLeaf, IsText
  <2>4. PICK e \in Scalars : e.text = c.text /\ Kept(c.text) = c.text
    BY <2>2, KeptAre
  <2>5. \A s1 \in Scalars : s1.text = c.text => Str(Kept(s1.text)) = c
    BY <2>1, <2>2, <2>4
  <2> QED BY <2>2, <2>3, <2>4, <2>5
<1>5. CASE c # Null /\ kind \in {"integer", "decimal"}
  <2>1. c \in Holdable \ {Null} /\ c.t \in {"int", "float"}
    BY <1>5, HeldNumber
  <2>2. LeafToWritable(c) = c
    BY <2>1 DEF LeafToWritable
  <2>3. StoredLeaf(c) = {s \in Holdable \ {Null} : Number(s.text) = Number(c.text)}
    BY <1>5, <2>1 DEF StoredLeaf, IsText
  <2> QED BY <1>5, <2>1, <2>2, <2>3, HeldNumber
<1>6. CASE c # Null /\ kind = "boolean"
  <2>1. c \in Booleans /\ c.t = "bool"
    BY <1>6, Tags DEF Holdable, Booleans
  <2>2. LeafToWritable(c) = c
    BY <2>1 DEF LeafToWritable
  <2>3. StoredLeaf(c) = {b \in Booleans : PyEqual(c, b)}
    BY <1>6, <2>1 DEF StoredLeaf
  <2>4. \A b \in Booleans : PyEqual(c, b) <=> b = c
    BY <2>1, Tags, DiffAssumption DEF PyEqual, Booleans
  <2> QED BY <2>1, <2>2, <2>3, <2>4
<1> QED BY <1>1, <1>2, <1>3, <1>4, <1>5, <1>6 DEF Plain

-----------------------------------------------------------------------------
(* Lists.                                                                  *)

LEMMA FirstIs ==
    /\ \A S : First(S) \subseteq S
    /\ \A n \in Nat : First({n}) = {n}
  BY DEF First

\* Left is the function its equation describes.
LEMMA LeftIs ==
    ASSUME NEW d, NEW c, Len(d) \in Nat, Len(c) \in Nat
    PROVE  /\ Left(d, c)[0] = 1..Len(c)
           /\ \A k \in 1..Len(d) :
                 LET fits == Fits(Left(d, c)[k - 1], d[k], c)
                 IN Left(d, c)[k] = IF fits = {} THEN {0} ELSE Left(d, c)[k - 1] \ First(fits)
<1> DEFINE T == SUBSET (0..Len(c))
           More(k, x) == LET fits == Fits(x, d[k], c) IN IF fits = {} THEN {0} ELSE x \ First(fits)
           step == [k \in 1..Len(d) |-> [x \in T |-> More(k, x)]]
           Body(f) == [k \in 0..Len(d) |->
                         IF k = 0 THEN 1..Len(c)
                         ELSE LET fits == Fits(f[k - 1], d[k], c)
                              IN IF fits = {} THEN {0} ELSE f[k - 1] \ First(fits)]
<1>1. 1..Len(c) \in T /\ \A k, x : x \in T => More(k, x) \in T
  OBVIOUS
<1>2. PICK f : Follows(f, Len(d), T, 1..Len(c), step)
  <2>1. \A k \in 1..Len(d), x \in T : step[k][x] \in T
    <3> HIDE DEF T, More
    <3> QED BY <1>1
  <2> HIDE DEF T, step, More
  <2>2. Steps(Len(d), T, 1..Len(c), step)
    BY <1>1, <2>1 DEF Steps
  <2> QED BY <2>2, Recursion
<1>3. f = Body(f)
  <2>1. \A k \in 0..Len(d) : k = 0 \/ (k \in 1..Len(d) /\ k - 1 \in 0..Len(d))
    OBVIOUS
  <2>2. \A k \in 1..Len(d), x \in T : step[k][x] = More(k, x)
    <3> HIDE DEF T, More
    <3> QED OBVIOUS
  <2>3. f \in [0..Len(d) -> T] /\ f[0] = 1..Len(c) /\ \A k \in 1..Len(d) : f[k] = step[k][f[k - 1]]
    <3> HIDE DEF T, step
    <3> QED BY <1>2 DEF Follows
  <2>4. \A k \in 0..Len(d) : f[k] = IF k = 0 THEN 1..Len(c) ELSE More(k, f[k - 1])
    <3> HIDE DEF T, step, More
    <3> QED BY <2>1, <2>2, <2>3
  <2>5. f = [k \in 0..Len(d) |-> f[k]]
    <3> HIDE DEF T, step, More
    <3> QED BY <2>3
  <2>6. f = [k \in 0..Len(d) |-> IF k = 0 THEN 1..Len(c) ELSE More(k, f[k - 1])]
    <3> HIDE DEF T, step, More
    <3> QED BY <2>4, <2>5
  <2> QED BY <2>6
<1>4. Left(d, c) = CHOOSE g : g = Body(g)
  BY DEF Left
<1> HIDE DEF Body
<1>5. Left(d, c) = Body(Left(d, c))
  BY <1>3, <1>4
<1>6. \A g, k : k \in 0..Len(d) =>
         Body(g)[k] = IF k = 0 THEN 1..Len(c)
                      ELSE LET fits == Fits(g[k - 1], d[k], c)
                           IN IF fits = {} THEN {0} ELSE g[k - 1] \ First(fits)
  BY DEF Body
<1>7. 0 \in 0..Len(d) /\ \A k \in 1..Len(d) : k \in 0..Len(d) /\ k # 0
  OBVIOUS
<1> QED BY <1>5, <1>6, <1>7

\* Lists found equal: every element of either equals one of the other.
LEMMA EqualLists ==
    ASSUME NEW d, NEW c, Len(d) \in Nat, Len(c) \in Nat, ListEqual(d, c)
    PROVE  /\ \A k \in 1..Len(d) : \E i \in 1..Len(c) : LeafEqual(d[k], c[i])
           /\ \A i \in 1..Len(c) : \E k \in 1..Len(d) : LeafEqual(d[k], c[i])
<1> DEFINE n == Len(d)
           L == Left(d, c)
           F(k) == Fits(L[k - 1], d[k], c)
<1>1. L[0] = 1..Len(c) /\ \A k \in 1..n : L[k] = IF F(k) = {} THEN {0} ELSE L[k - 1] \ First(F(k))
  BY LeftIs
<1>2. L[n] = {}
  BY DEF ListEqual, Greedy
<1>3. \A k \in 1..n : F(k) \subseteq L[k - 1] \ {0} /\ \A i \in F(k) : LeafEqual(d[k], c[i])
  BY DEF Fits
<1> HIDE DEF L, F
<1>4. \A m \in 1..n : F(m) # {}
  <2> SUFFICES ASSUME NEW m \in 1..n, F(m) = {} PROVE FALSE
    OBVIOUS
  <2> DEFINE S == {k \in 0..n : k >= m => 0 \in L[k]}
  <2>1. 0 \in S
    OBVIOUS
  <2>2. ASSUME NEW k \in 0..(n - 1), k \in S PROVE k + 1 \in S
    <3>1. k + 1 \in 1..n /\ k + 1 \in 0..n /\ (k + 1) - 1 = k /\ (k + 1 >= m => k >= m \/ k + 1 = m)
      OBVIOUS
    <3>2. L[k + 1] = IF F(k + 1) = {} THEN {0} ELSE L[k] \ First(F(k + 1))
      BY <1>1, <3>1
    <3>3. 0 \notin First(F(k + 1))
      BY <1>3, <3>1, FirstIs
    <3>4. ASSUME k + 1 >= m PROVE 0 \in L[k + 1]
      <4>1. CASE k + 1 = m
        BY <3>2, <4>1
      <4>2. CASE k >= m
        BY <2>2, <3>2, <3>3, <4>2
      <4> QED BY <3>1, <3>4, <4>1, <4>2
    <3> QED BY <3>1, <3>4
  <2>3. 0..n \subseteq S
    <3> HIDE DEF S
    <3> QED BY <2>1, <2>2, Reaches
  <2>4. n \in 0..n /\ n >= m
    OBVIOUS
  <2> QED BY <1>2, <2>3, <2>4
<1>5. ASSUME NEW k \in 0..n PROVE L[k] \subseteq 1..Len(c)
  <2> DEFINE S == {m \in 0..n : L[m] \subseteq 1..Len(c)}
  <2>1. 0 \in S
    BY <1>1
  <2>2. ASSUME NEW m \in 0..(n - 1), m \in S PROVE m + 1 \in S
    <3>1. m + 1 \in 1..n /\ m + 1 \in 0..n /\ (m + 1) - 1 = m
      OBVIOUS
    <3>2. L[m + 1] \subseteq L[m]
      BY <1>1, <1>4, <3>1
    <3> QED BY <2>2, <3>1, <3>2
  <2>3. 0..n \subseteq S
    <3> HIDE DEF S
    <3> QED BY <2>1, <2>2, Reaches
  <2> QED BY <2>3
<1>6. ASSUME NEW k \in 1..n PROVE \E i \in 1..Len(c) : LeafEqual(d[k], c[i])
  <2>1. k - 1 \in 0..n
    OBVIOUS
  <2> QED BY <1>3, <1>4, <1>5, <2>1
<1>7. ASSUME NEW i \in 1..Len(c) PROVE \E k \in 1..n : LeafEqual(d[k], c[i])
  <2> SUFFICES ASSUME \A k \in 1..n : ~LeafEqual(d[k], c[i]) PROVE FALSE
    OBVIOUS
  <2> DEFINE S == {m \in 0..n : i \in L[m]}
  <2>1. 0 \in S
    BY <1>1
  <2>2. ASSUME NEW m \in 0..(n - 1), m \in S PROVE m + 1 \in S
    <3>1. m + 1 \in 1..n /\ m + 1 \in 0..n /\ (m + 1) - 1 = m
      OBVIOUS
    <3>2. i \notin First(F(m + 1))
      BY <1>3, <3>1, FirstIs
    <3>3. L[m + 1] = L[m] \ First(F(m + 1))
      BY <1>1, <1>4, <3>1
    <3> QED BY <2>2, <3>1, <3>2, <3>3
  <2>3. 0..n \subseteq S
    <3> HIDE DEF S
    <3> QED BY <2>1, <2>2, Reaches
  <2>4. n \in 0..n
    OBVIOUS
  <2> QED BY <1>2, <2>3, <2>4
<1> QED BY <1>6, <1>7

\* Element k of d equals element p[k] of c, and no other.
Paired(d, c, p) ==
    /\ p \in [1..Len(d) -> 1..Len(c)]
    /\ \A i \in 1..Len(c) : \E k \in 1..Len(d) : p[k] = i
    /\ \A k, m \in 1..Len(d) : p[k] = p[m] => k = m
    /\ \A k \in 1..Len(d), i \in 1..Len(c) : LeafEqual(d[k], c[i]) <=> i = p[k]

\* Lists whose elements equal one another in pairs are found equal.
LEMMA PairedLists ==
    ASSUME NEW d, NEW c, NEW n \in Nat, Len(d) = n, Len(c) = n, NEW p, Paired(d, c, p)
    PROVE  ListEqual(d, c)
<1> DEFINE L == Left(d, c)
           F(k) == Fits(L[k - 1], d[k], c)
           Free(k) == {i \in 1..n : \A m \in 1..k : i # p[m]}
           S == {k \in 0..n : L[k] = Free(k)}
<1>1. L[0] = 1..n /\ \A k \in 1..n : L[k] = IF F(k) = {} THEN {0} ELSE L[k - 1] \ First(F(k))
  <2>1. Len(d) \in Nat /\ Len(c) \in Nat
    OBVIOUS
  <2>2. Left(d, c)[0] = 1..n
    BY <2>1, LeftIs
  <2>3. ASSUME NEW k \in 1..n PROVE L[k] = IF F(k) = {} THEN {0} ELSE L[k - 1] \ First(F(k))
    BY <2>1, LeftIs
  <2> QED BY <2>2, <2>3
<1>2. 0 \in S
  BY <1>1
<1>3. ASSUME NEW k \in 0..(n - 1), k \in S PROVE k + 1 \in S
  <2>1. k + 1 \in 1..n /\ k + 1 \in 0..n /\ (k + 1) - 1 = k
    OBVIOUS
  <2>2. \A m \in 1..k : m \in 1..n /\ m # k + 1
    OBVIOUS
  <2>3. p[k + 1] \in 1..n /\ p[k + 1] # 0 /\ p[k + 1] \in Nat
    <3>1. p[k + 1] \in 1..n
      BY <2>1 DEF Paired
    <3> QED BY <3>1
  <2>4. \A m \in 1..k : p[k + 1] # p[m]
    BY <2>1, <2>2 DEF Paired
  <2>5. p[k + 1] \in Free(k)
    BY <2>3, <2>4
  <2> HIDE DEF L
  <2>6. L[k] = Free(k)
    BY <1>3
  <2>7. F(k + 1) = {p[k + 1]}
    <3>1. \A i \in Free(k) : i \in 1..n /\ i # 0
      OBVIOUS
    <3>2. \A i \in Free(k) : LeafEqual(d[k + 1], c[i]) <=> i = p[k + 1]
      BY <2>1, <3>1 DEF Paired
    <3> HIDE DEF Free
    <3> QED BY <2>1, <2>3, <2>5, <2>6, <3>1, <3>2 DEF Fits
  <2> HIDE DEF F, Free
  <2>8. First(F(k + 1)) = {p[k + 1]}
    BY <2>3, <2>7, FirstIs
  <2>9. L[k + 1] = L[k] \ {p[k + 1]}
    BY <1>1, <2>1, <2>7, <2>8
  <2>10. \A m : m \in 1..(k + 1) <=> m \in 1..k \/ m = k + 1
    BY <2>1
  <2>11. Free(k + 1) = Free(k) \ {p[k + 1]}
    BY <2>10 DEF Free
  <2> QED BY <2>1, <2>6, <2>9, <2>11
<1>4. n \in S
  <2> HIDE DEF S
  <2>1. 0..n \subseteq S
    BY <1>2, <1>3, Reaches
  <2> QED BY <2>1
<1>5. Free(n) = {}
  BY DEF Paired
<1> QED BY <1>4, <1>5 DEF ListEqual, Greedy

\* A set of objects has an order, and every order lists the set.
LEMMA InOrderIs ==
    ASSUME NEW S \in SUBSET Related
    PROVE  /\ InOrder(S) # {}
           /\ \A q \in InOrder(S) :
                 /\ Cardinality(S) \in Nat /\ q \in [1..Cardinality(S) -> S]
                 /\ DOMAIN q = 1..Cardinality(S) /\ Len(q) = Cardinality(S)
                 /\ {q[i] : i \in DOMAIN q} = S
                 /\ \A i, j \in DOMAIN q : q[i] = q[j] => i = j
<1> DEFINE n == Cardinality(S)
<1>1. IsFiniteSet(S)
  BY FS_Subset, DiffAssumption
<1>2. n \in Nat /\ ExistsBijection(1..n, S)
  BY <1>1, FS_CardinalityType
<1>3. IsFiniteSet(1..n) /\ Cardinality(1..n) = n
  BY <1>2, FS_Interval
<1>4. InOrder(S) # {}
  <2>1. PICK f : f \in Bijection(1..n, S)
    BY <1>2 DEF ExistsBijection
  <2>2. f \in [1..n -> S] /\ \A i, j \in 1..n : i # j => f[i] # f[j]
    BY <2>1 DEF Bijection, Injection, IsInjective
  <2> QED BY <2>2 DEF InOrder
<1>5. ASSUME NEW q \in InOrder(S)
      PROVE  /\ q \in [1..n -> S] /\ DOMAIN q = 1..n /\ Len(q) = n
             /\ {q[i] : i \in DOMAIN q} = S /\ \A i, j \in DOMAIN q : q[i] = q[j] => i = j
  <2>1. q \in [1..n -> S] /\ DOMAIN q = 1..n /\ \A i, j \in 1..n : q[i] = q[j] => i = j
    BY DEF InOrder
  <2>2. q \in Injection(1..n, S)
    BY <2>1 DEF Injection, IsInjective
  <2>3. q \in Surjection(1..n, S)
    BY <1>1, <1>3, <2>2, FS_Injection
  <2>4. \A s \in S : \E i \in 1..n : q[i] = s
    BY <2>3 DEF Surjection
  <2>5. Len(q) = n
    BY <1>2, <2>1
  <2> QED BY <2>1, <2>4, <2>5
<1> QED BY <1>2, <1>4, <1>5

\* The objects a list names.
Named(items) == UNION {Pointed(items[i]) : i \in DOMAIN items}

LEMMA NamedAre == \A items : Named(items) \in SUBSET Related
  BY DEF Named, Pointed

LEMMA StoredList ==
    ASSUME kind = "list", NEW d, NEW c
    PROVE  /\ \A v \in Stored(d, c) :
                 /\ d.t = "list" /\ \A i \in DOMAIN d.items : Pointed(d.items[i]) # {}
                 /\ v.t = "list" /\ v.items \in InOrder(Named(d.items))
           /\ d.t = "list" /\ (\A i \in DOMAIN d.items : Pointed(d.items[i]) # {}) => Stored(d, c) # {}
<1>1. Stored(d, c) =
        IF d.t = "list" /\ \A i \in DOMAIN d.items : Pointed(d.items[i]) # {}
        THEN {List(q) : q \in InOrder(Named(d.items))} ELSE {}
  BY DEF Stored, Named
<1>2. InOrder(Named(d.items)) # {}
  BY NamedAre, InOrderIs
<1> QED BY <1>1, <1>2, Tags

LEMMA HoldableList ==
    ASSUME kind = "list", NEW c \in Holdable
    PROVE  c.t = "list" /\ \E S \in SUBSET Related : c.items \in InOrder(S)
<1>1. PICK S \in SUBSET Related : \E q \in InOrder(S) : c = List(q)
  BY DEF Holdable
<1> QED BY <1>1, Tags

LEMMA ListWanted ==
    ASSUME kind \in Kinds, kind = "list", NEW d \in Wanted[kind], d.t = "list"
    PROVE  /\ Len(d.items) \in Nat /\ DOMAIN d.items = 1..Len(d.items)
           /\ \A i \in DOMAIN d.items : Leaf(d.items[i])
<1>1. /\ d.items \in Seq({d.items[i] : i \in DOMAIN d.items})
      /\ \A i \in DOMAIN d.items : Leaf(d.items[i])
  BY DiffAssumption DEF Leaf
<1> QED BY <1>1

\* A list found equal names the objects it lists.
LEMMA NoopList ==
    ASSUME NamesDiffer, kind \in Kinds, kind = "list", NEW d \in Wanted[kind], NEW c \in Holdable,
           ValuesEqual(d, c), NEW v \in Stored(d, c)
    PROVE  Same(v, c)
<1>1. c.t = "list"
  BY HoldableList
<1>2. PICK S \in SUBSET Related : c.items \in InOrder(S)
  BY HoldableList
<1>3. d.t = "list" /\ ListEqual(d.items, c.items)
  BY <1>1 DEF ValuesEqual
<1>4. /\ \A i \in DOMAIN d.items : Pointed(d.items[i]) # {}
      /\ v.t = "list" /\ v.items \in InOrder(Named(d.items))
  BY StoredList
<1>5. DOMAIN d.items = 1..Len(d.items) /\ Len(d.items) \in Nat /\ \A i \in DOMAIN d.items : Leaf(d.items[i])
  BY <1>3, ListWanted
<1>6. /\ Len(c.items) \in Nat /\ DOMAIN c.items = 1..Len(c.items)
      /\ {c.items[i] : i \in DOMAIN c.items} = S
  BY <1>2, InOrderIs
<1>7. /\ \A k \in DOMAIN d.items : \E i \in DOMAIN c.items : LeafEqual(d.items[k], c.items[i])
      /\ \A i \in DOMAIN c.items : \E k \in DOMAIN d.items : LeafEqual(d.items[k], c.items[i])
  BY <1>3, <1>5, <1>6, EqualLists
<1>8. \A k \in DOMAIN d.items, i \in DOMAIN c.items :
         LeafEqual(d.items[k], c.items[i]) => Pointed(d.items[k]) = {c.items[i]}
  <2> TAKE k \in DOMAIN d.items, i \in DOMAIN c.items
  <2> HAVE LeafEqual(d.items[k], c.items[i])
  <2>1. c.items[i] \in Related
    BY <1>6
  <2>2. c.items[i] \in Pointed(d.items[k])
    BY <1>4, <1>5, <2>1, EqualPointed
  <2>3. \A r, q \in Pointed(d.items[k]) : r = q
    BY PointedOnce
  <2> QED BY <2>2, <2>3
<1>9. Named(d.items) = S
  <2>1. \A r : r \in Named(d.items) <=> \E k \in DOMAIN d.items : r \in Pointed(d.items[k])
    BY DEF Named
  <2>2. \A r : r \in S <=> \E i \in DOMAIN c.items : r = c.items[i]
    BY <1>6
  <2>3. ASSUME NEW r \in Named(d.items) PROVE r \in S
    <3>1. PICK k \in DOMAIN d.items : r \in Pointed(d.items[k])
      BY <2>1
    <3>2. PICK i \in DOMAIN c.items : LeafEqual(d.items[k], c.items[i])
      BY <1>7
    <3>3. r = c.items[i]
      BY <1>8, <3>1, <3>2
    <3> QED BY <2>2, <3>3
  <2>4. ASSUME NEW r \in S PROVE r \in Named(d.items)
    <3>1. PICK i \in DOMAIN c.items : r = c.items[i]
      BY <2>2
    <3>2. PICK k \in DOMAIN d.items : LeafEqual(d.items[k], c.items[i])
      BY <1>7
    <3>3. r \in Pointed(d.items[k])
      BY <1>8, <3>1, <3>2
    <3> QED BY <2>1, <3>3
  <2> QED BY <2>3, <2>4
<1>10. {v.items[i] : i \in DOMAIN v.items} = S
  BY <1>4, <1>9, InOrderIs
<1> QED BY <1>1, <1>4, <1>6, <1>10 DEF Same

\* A list that names every object once equals the list of them in any order.
LEMMA ReplanList ==
    ASSUME NamesDiffer, ListsOnce, kind \in Kinds, kind = "list", NEW d \in Wanted[kind],
           Spelled(d), NEW c, NEW v \in Stored(d, c)
    PROVE  ValuesEqual(d, v)
<1>1. /\ d.t = "list" /\ \A i \in DOMAIN d.items : Pointed(d.items[i]) # {}
      /\ v.t = "list" /\ v.items \in InOrder(Named(d.items))
  BY StoredList
<1>2. DOMAIN d.items = 1..Len(d.items) /\ Len(d.items) \in Nat /\ \A i \in DOMAIN d.items : Leaf(d.items[i])
  BY <1>1, ListWanted
<1> DEFINE n == Len(d.items)
           U == Named(d.items)
           pt == [k \in 1..n |-> CHOOSE r : r \in Pointed(d.items[k])]
<1>3. \A k \in 1..n : pt[k] \in Related /\ Pointed(d.items[k]) = {pt[k]}
  <2> TAKE k \in 1..n
  <2>1. pt[k] \in Pointed(d.items[k])
    BY <1>1, <1>2
  <2>2. \A r, q \in Pointed(d.items[k]) : r = q
    BY PointedOnce
  <2>3. pt[k] \in Related
    BY <2>1 DEF Pointed
  <2> QED BY <2>1, <2>2, <2>3
<1>4. \A k, m \in 1..n : pt[k] = pt[m] => k = m
  BY <1>1, <1>2, <1>3 DEF ListsOnce
<1>5. U = {pt[k] : k \in 1..n}
  <2>1. \A r : r \in U <=> \E k \in DOMAIN d.items : r \in Pointed(d.items[k])
    BY DEF Named
  <2>2. DOMAIN d.items = 1..n /\ \A k \in 1..n : \A r : r \in Pointed(d.items[k]) <=> r = pt[k]
    <3> HIDE DEF pt
    <3> QED BY <1>2, <1>3
  <2> HIDE DEF pt, U, n
  <2>3. \A r : r \in U <=> \E k \in 1..n : r = pt[k]
    BY <2>1, <2>2
  <2> QED BY <2>3
<1>6. Cardinality(U) = n
  <2>1. pt \in [1..n -> U]
    BY <1>5
  <2>2. pt \in Injection(1..n, U)
    BY <1>4, <2>1 DEF Injection, IsInjective
  <2>3. pt \in Surjection(1..n, U)
    BY <1>5, <2>1 DEF Surjection
  <2>4. ExistsBijection(1..n, U)
    BY <2>2, <2>3 DEF Bijection, ExistsBijection
  <2> QED BY <1>2, <2>4, FS_CountingElements
<1>7. /\ v.items \in [1..n -> U] /\ Len(v.items) = n
      /\ \A r \in U : \E i \in 1..n : v.items[i] = r
      /\ \A i, j \in 1..n : v.items[i] = v.items[j] => i = j
  <2>1. U \in SUBSET Related
    BY NamedAre
  <2>2. /\ v.items \in [1..n -> U] /\ Len(v.items) = n /\ DOMAIN v.items = 1..n
        /\ {v.items[i] : i \in DOMAIN v.items} = U
        /\ \A i, j \in DOMAIN v.items : v.items[i] = v.items[j] => i = j
    BY <1>1, <1>6, <2>1, InOrderIs
  <2> QED BY <2>2
<1> DEFINE p == [k \in 1..n |-> CHOOSE i \in 1..n : v.items[i] = pt[k]]
<1>8. \A k \in 1..n : p[k] \in 1..n /\ v.items[p[k]] = pt[k]
  <2> TAKE k \in 1..n
  <2>1. \E i \in 1..n : v.items[i] = pt[k]
    <3> HIDE DEF pt, U, n
    <3> QED BY <1>5, <1>7
  <2> QED BY <2>1
<1>9. \A k, i \in 1..n : i = p[k] <=> v.items[i] = pt[k]
  <2> HIDE DEF pt, p, n
  <2> QED BY <1>7, <1>8
<1>10. \A k, i \in 1..n : LeafEqual(d.items[k], v.items[i]) <=> v.items[i] = pt[k]
  <2> TAKE k, i \in 1..n
  <2>1. v.items[i] \in Related
    BY <1>7, NamedAre
  <2>2. Leaf(d.items[k]) /\ SpelledLeaf(d.items[k]) /\ Pointed(d.items[k]) = {pt[k]}
    BY <1>1, <1>2, <1>3 DEF Spelled
  <2> HIDE DEF pt
  <2>3. LeafEqual(d.items[k], v.items[i]) => v.items[i] = pt[k]
    BY <2>1, <2>2, EqualPointed
  <2>4. LeafEqual(d.items[k], pt[k])
    BY <2>2, PointedEqual
  <2> QED BY <2>3, <2>4
<1>11. Paired(d.items, v.items, p)
  <2>1. p \in [1..n -> 1..n]
    BY <1>8
  <2>2. \A i \in 1..n : \E k \in 1..n : p[k] = i
    <3> TAKE i \in 1..n
    <3>1. v.items[i] \in U
      BY <1>7
    <3>2. PICK k \in 1..n : v.items[i] = pt[k]
      <4> HIDE DEF pt, U, n
      <4> QED BY <1>5, <3>1
    <3> HIDE DEF pt, p
    <3> QED BY <1>9, <3>2
  <2>3. \A k, m \in 1..n : p[k] = p[m] => k = m
    <3> HIDE DEF pt, p
    <3> QED BY <1>4, <1>8
  <2>4. \A k, i \in 1..n : LeafEqual(d.items[k], v.items[i]) <=> i = p[k]
    <3> HIDE DEF p, pt, n
    <3> QED BY <1>9, <1>10
  <2>5. Len(v.items) = n
    BY <1>7
  <2> HIDE DEF p, pt
  <2> QED BY <2>1, <2>2, <2>3, <2>4, <2>5 DEF Paired
<1>12. ListEqual(d.items, v.items)
  <2> HIDE DEF p
  <2> QED BY <1>2, <1>7, <1>11, PairedLists
<1> QED BY <1>1, <1>12 DEF ValuesEqual

\* The ids of a list name the objects it lists.
LEMMA RevertList ==
    ASSUME kind = "list", NEW c \in Holdable, NEW h
    PROVE  Stored(ToWritable(c), h) # {} /\ \A w \in Stored(ToWritable(c), h) : Same(w, c)
<1>1. c.t = "list"
  BY HoldableList
<1>2. PICK S \in SUBSET Related : c.items \in InOrder(S)
  BY HoldableList
<1>3. {c.items[i] : i \in DOMAIN c.items} = S
  BY <1>2, InOrderIs
<1> DEFINE ids == [i \in DOMAIN c.items |-> LeafToWritable(c.items[i])]
<1>4. ToWritable(c) = List(ids)
  BY <1>1 DEF ToWritable
<1>5. \A i \in DOMAIN c.items : Pointed(ids[i]) = {c.items[i]}
  <2> TAKE i \in DOMAIN c.items
  <2>1. c.items[i] \in Related /\ c.items[i].t = "nested"
    BY <1>3, DiffAssumption
  <2>2. ids[i] = Num(c.items[i].id)
    BY <2>1 DEF LeafToWritable
  <2>3. Pointed(Num(c.items[i].id)) = {r \in Related : Number(r.id) = Number(c.items[i].id)}
    BY Tags DEF Pointed
  <2> QED BY <2>1, <2>2, <2>3, DiffAssumption
<1>6. Named(ids) = S
  <2>1. DOMAIN ids = DOMAIN c.items
    OBVIOUS
  <2> HIDE DEF ids
  <2> QED BY <1>3, <1>5, <2>1 DEF Named
<1>7. List(ids).t = "list" /\ List(ids).items = ids /\ \A i \in DOMAIN ids : Pointed(ids[i]) # {}
  BY <1>5, Tags
<1> HIDE DEF ids
<1>8. Stored(List(ids), h) # {} /\ \A w \in Stored(List(ids), h) : w.t = "list" /\ w.items \in InOrder(S)
  BY <1>6, <1>7, StoredList
<1>9. \A w \in Stored(List(ids), h) : {w.items[i] : i \in DOMAIN w.items} = S
  BY <1>8, InOrderIs
<1> QED BY <1>1, <1>3, <1>4, <1>8, <1>9 DEF Same

-----------------------------------------------------------------------------
(* Custom fields.                                                          *)

LEMMA CustomEqual ==
    ASSUME NEW k \in {"k1", "k2"}, NEW x \in Custom(k), NEW y \in Custom(k)
    PROVE  (LeafEqual(x, y) <=> x = y) /\ LeafToWritable(x) = x
<1>0. k \in {"k1", "k2"} /\ CustomType[k] \in {"int", "str"}
  BY DEF CustomType
<1>1. \A z \in Custom(k) :
         \/ z = Null
         \/ z \in Scalars /\ IsText(z) /\ z.t = CustomType[k] /\ z \in {Num(z.text), Str(z.text)}
  <2>1. \A z \in Custom(k) : z = Null \/ (z \in Scalars /\ z.t = CustomType[k])
    BY DEF Custom
  <2>2. \A z \in Scalars : z.t \in {"int", "str"} => z \in {Num(z.text), Str(z.text)} /\ IsText(z)
    BY Tags, ScalarsAre DEF IsText
  <2> QED BY <1>0, <2>1, <2>2
<1>2. LeafToWritable(x) = x
  BY <1>1, Tags DEF LeafToWritable, IsText
<1>3. LeafEqual(x, y) <=> ScalarEqual(x, y)
  BY <1>1, Tags DEF LeafEqual, IsText
<1>4. ScalarEqual(x, y) <=> x = y
  <2>1. CASE x = Null \/ y = Null
    BY <1>1, <2>1, Tags DEF ScalarEqual, PyEqual, Numeric, IsText
  <2>2. CASE x # Null /\ y # Null
    <3>1. PyEqual(x, y) <=> x = y
      BY <1>0, <1>1, <2>2, ScalarsAre DEF PyEqual, Numeric, IsText
    <3>2. x.text = y.text => x = y
      BY <1>1, <2>2, Tags
    <3> QED BY <1>1, <2>2, <3>1, <3>2 DEF ScalarEqual
  <2> QED BY <2>1, <2>2
<1> QED BY <1>2, <1>3, <1>4

LEMMA HoldableCustom ==
    ASSUME kind = "custom_fields", NEW c \in Holdable
    PROVE  /\ c = Dict(c.map) /\ c.t = "dict"
           /\ c.map = [k \in {"k1", "k2"} |-> c.map[k]]
           /\ \A k \in {"k1", "k2"} : c.map[k] \in Custom(k)
<1>1. PICK x \in Custom("k1"), y \in Custom("k2") : c = Dict([k1 |-> x, k2 |-> y])
  BY DEF Holdable
<1>2. c.map = [k1 |-> x, k2 |-> y]
  BY <1>1, Tags
<1>3. [k1 |-> x, k2 |-> y] = [k \in {"k1", "k2"} |-> IF k = "k1" THEN x ELSE y]
  OBVIOUS
<1> QED BY <1>1, <1>2, <1>3, Tags

LEMMA CustomWanted ==
    ASSUME kind \in Kinds, kind = "custom_fields", NEW d \in Wanted[kind]
    PROVE  d.t = "dict" /\ DOMAIN d.map \subseteq {"k1", "k2"}
  BY DiffAssumption

LEMMA StoredCustom ==
    ASSUME kind = "custom_fields", NEW d, NEW c
    PROVE  Stored(d, c) =
             IF d.t = "dict" /\ \A k \in DOMAIN d.map : d.map[k] \in Custom(k)
             THEN {Dict([k \in DOMAIN c.map |-> IF k \in DOMAIN d.map THEN d.map[k] ELSE c.map[k]])}
             ELSE {}
  BY DEF Stored

\* The fields that are sent are those that differ.
LEMMA CustomChanges ==
    ASSUME Shown, kind = "custom_fields", NEW d, NEW c \in Holdable
    PROVE  /\ Changes(d, c) = {} <=> Touched(d, c) = {}
           /\ \A ch \in Changes(d, c) :
                 /\ ch.to = Dict([k \in Touched(d, c) |-> d.map[k]])
                 /\ DOMAIN d.map \subseteq {"k1", "k2"} => ch.from = Dict([k \in Touched(d, c) |-> c.map[k]])
<1> DEFINE T == Touched(d, c)
           From == Dict([k \in T |-> IF k \in DOMAIN c.map THEN LeafToWritable(c.map[k]) ELSE Null])
           To == Dict([k \in T |-> d.map[k]])
<1>1. Changes(d, c) = {[from |-> From, to |-> To] : x \in IF T = {} THEN {} ELSE {1}}
  BY DEF Changes, Differences
<1>2. ASSUME DOMAIN d.map \subseteq {"k1", "k2"} PROVE From = Dict([k \in T |-> c.map[k]])
  <2>1. \A k \in T : k \in {"k1", "k2"}
    BY <1>2 DEF Touched
  <2>2. ASSUME NEW k \in T PROVE k \in DOMAIN c.map /\ LeafToWritable(c.map[k]) = c.map[k]
    <3>1. k \in DOMAIN c.map /\ c.map[k] \in Custom(k)
      BY <2>1, HoldableCustom
    <3> QED BY <2>1, <3>1, CustomEqual
  <2>3. [k \in T |-> IF k \in DOMAIN c.map THEN LeafToWritable(c.map[k]) ELSE Null] = [k \in T |-> c.map[k]]
    <3> HIDE DEF T
    <3> QED BY <2>2
  <2> QED BY <2>3
<1> HIDE DEF From, To, T
<1>3. \A ch \in Changes(d, c) : ch.from = From /\ ch.to = To
  BY <1>1
<1>4. Changes(d, c) = {} <=> T = {}
  BY <1>1
<1> QED BY <1>2, <1>3, <1>4 DEF To, T

LEMMA NoopCustom ==
    ASSUME Shown, kind \in Kinds, kind = "custom_fields", NEW d \in Wanted[kind], NEW c \in Holdable,
           Changes(d, c) = {}, NEW v \in Stored(d, c)
    PROVE  v = c
<1>1. Touched(d, c) = {}
  BY CustomChanges
<1>2. /\ \A k \in DOMAIN d.map : d.map[k] \in Custom(k)
      /\ v = Dict([k \in DOMAIN c.map |-> IF k \in DOMAIN d.map THEN d.map[k] ELSE c.map[k]])
  BY StoredCustom
<1>3. /\ c = Dict(c.map) /\ c.map = [k \in {"k1", "k2"} |-> c.map[k]]
      /\ \A k \in {"k1", "k2"} : c.map[k] \in Custom(k)
  BY HoldableCustom
<1>4. \A k \in DOMAIN d.map : k \in DOMAIN c.map /\ k \in {"k1", "k2"} /\ LeafEqual(d.map[k], c.map[k])
  BY <1>1, CustomWanted DEF Touched
<1>5. ASSUME NEW k \in DOMAIN d.map PROVE d.map[k] = c.map[k]
  <2>1. d.map[k] \in Custom(k) /\ c.map[k] \in Custom(k)
    BY <1>2, <1>3, <1>4
  <2> QED BY <1>4, <2>1, CustomEqual
<1>6. [k \in DOMAIN c.map |-> IF k \in DOMAIN d.map THEN d.map[k] ELSE c.map[k]] = c.map
  BY <1>3, <1>5
<1> QED BY <1>2, <1>3, <1>6

\* What is stored of a change.
LEMMA ChangedCustom ==
    ASSUME Shown, kind \in Kinds, kind = "custom_fields", NEW d \in Wanted[kind], NEW c \in Holdable,
           NEW ch \in Changes(d, c), NEW v \in Stored(ch.to, c)
    PROVE  /\ v.map = [k \in {"k1", "k2"} |-> IF k \in Touched(d, c) THEN d.map[k] ELSE c.map[k]]
           /\ \A k \in Touched(d, c) : k \in {"k1", "k2"} /\ d.map[k] \in Custom(k)
<1> DEFINE T == Touched(d, c)
           m == [k \in T |-> d.map[k]]
<1>1. ch.to = Dict(m)
  BY CustomChanges
<1>2. ch.to.map = m /\ DOMAIN m = T
  BY <1>1, Tags
<1>3. \A k \in T : k \in {"k1", "k2"}
  BY CustomWanted DEF Touched
<1>4. DOMAIN c.map = {"k1", "k2"}
  BY HoldableCustom
<1> HIDE DEF T
<1>5. /\ \A k \in T : m[k] \in Custom(k)
      /\ v = Dict([k \in {"k1", "k2"} |-> IF k \in T THEN m[k] ELSE c.map[k]])
  <2>1. ch.to.t = "dict"
    BY <1>1, Tags
  <2> HIDE DEF m
  <2> QED BY <1>2, <1>4, <2>1, StoredCustom
<1>6. v.map = [k \in {"k1", "k2"} |-> IF k \in T THEN m[k] ELSE c.map[k]]
  BY <1>5, Tags
<1>7. \A k \in T : m[k] = d.map[k]
  OBVIOUS
<1> HIDE DEF m
<1>8. [k \in {"k1", "k2"} |-> IF k \in T THEN m[k] ELSE c.map[k]] =
        [k \in {"k1", "k2"} |-> IF k \in T THEN d.map[k] ELSE c.map[k]]
  BY <1>7
<1> QED BY <1>3, <1>5, <1>6, <1>7, <1>8 DEF T

LEMMA ReplanCustom ==
    ASSUME Shown, kind \in Kinds, kind = "custom_fields", NEW d \in Wanted[kind], NEW c \in Holdable,
           NEW ch \in Changes(d, c), NEW v \in Stored(ch.to, c)
    PROVE  Changes(d, v) = {}
<1>1. /\ v.map = [k \in {"k1", "k2"} |-> IF k \in Touched(d, c) THEN d.map[k] ELSE c.map[k]]
      /\ \A k \in Touched(d, c) : d.map[k] \in Custom(k)
  BY ChangedCustom
<1>2. ASSUME NEW k \in DOMAIN d.map PROVE k \in DOMAIN v.map /\ LeafEqual(d.map[k], v.map[k])
  <2>1. k \in {"k1", "k2"}
    BY CustomWanted
  <2>2. CASE k \in Touched(d, c)
    <3>1. d.map[k] \in Custom(k) /\ v.map[k] = d.map[k]
      BY <1>1, <2>1, <2>2
    <3> QED BY <1>1, <2>1, <3>1, CustomEqual
  <2>3. CASE k \notin Touched(d, c)
    BY <1>1, <2>1, <2>3 DEF Touched
  <2> QED BY <2>2, <2>3
<1>3. Touched(d, v) = {}
  BY <1>2 DEF Touched
<1> QED BY <1>3 DEF Changes, Differences

LEMMA RevertCustom ==
    ASSUME Shown, kind \in Kinds, kind = "custom_fields", NEW c \in Holdable
    PROVE  \A d \in Wanted[kind] : \A ch \in Changes(d, c) :
             \A v \in Stored(ch.to, c) : Stored(ch.from, v) = {c}
<1> TAKE d \in Wanted[kind]
<1> TAKE ch \in Changes(d, c)
<1> TAKE v \in Stored(ch.to, c)
<1> DEFINE T == Touched(d, c)
           m == [k \in T |-> c.map[k]]
<1>1. v.map = [k \in {"k1", "k2"} |-> IF k \in T THEN d.map[k] ELSE c.map[k]] /\ \A k \in T : k \in {"k1", "k2"}
  BY ChangedCustom
<1>2. ch.from = Dict(m)
  BY CustomChanges, CustomWanted
<1>3. ch.from.t = "dict" /\ ch.from.map = m /\ DOMAIN m = T /\ \A k \in T : m[k] = c.map[k]
  BY <1>2, Tags
<1>4. /\ c = Dict(c.map) /\ c.map = [k \in {"k1", "k2"} |-> c.map[k]]
      /\ \A k \in {"k1", "k2"} : c.map[k] \in Custom(k)
  BY HoldableCustom
<1> HIDE DEF m, T
<1>5. \A k \in T : m[k] \in Custom(k)
  BY <1>1, <1>3, <1>4
<1>6. Stored(ch.from, v) = {Dict([k \in DOMAIN v.map |-> IF k \in T THEN m[k] ELSE v.map[k]])}
  BY <1>3, <1>5, StoredCustom
<1>7. [k \in DOMAIN v.map |-> IF k \in T THEN m[k] ELSE v.map[k]] = c.map
  <2>1. DOMAIN v.map = {"k1", "k2"} /\ \A k \in {"k1", "k2"} : k \notin T => v.map[k] = c.map[k]
    BY <1>1
  <2>2. [k \in DOMAIN v.map |-> IF k \in T THEN m[k] ELSE v.map[k]] = [k \in {"k1", "k2"} |-> c.map[k]]
    BY <1>3, <2>1
  <2> QED BY <1>4, <2>2
<1> QED BY <1>4, <1>6, <1>7

-----------------------------------------------------------------------------
(* Any field.                                                              *)

LEMMA ChangesAre ==
    ASSUME Shown, kind # "custom_fields", NEW d, NEW c
    PROVE  /\ Changes(d, c) = {} <=> ValuesEqual(d, c)
           /\ \A ch \in Changes(d, c) : ch.from = ToWritable(c) /\ ch.to = d
<1> DEFINE E == ValuesEqual(d, c)
<1>1. Changes(d, c) = {[from |-> ToWritable(c), to |-> d] : x \in IF E THEN {} ELSE {1}}
  BY DEF Changes, Differences
<1> HIDE DEF E
<1>2. CASE E
  BY <1>1, <1>2 DEF E
<1>3. CASE ~E
  <2> DEFINE R == [from |-> ToWritable(c), to |-> d]
  <2>1. Changes(d, c) = {R}
    BY <1>1, <1>3
  <2>2. R.from = ToWritable(c) /\ R.to = d
    OBVIOUS
  <2> HIDE DEF R
  <2>3. Changes(d, c) # {} /\ \A ch \in Changes(d, c) : ch.from = ToWritable(c) /\ ch.to = d
    BY <2>1, <2>2
  <2> QED BY <1>3, <2>3 DEF E
<1> QED BY <1>2, <1>3

LEMMA OneChange ==
    ASSUME NEW d, NEW c, NEW ch \in Changes(d, c), NEW other \in Changes(d, c)
    PROVE  ch = other
<1>1. ASSUME Shown, kind = "custom_fields" PROVE ch = other
  BY <1>1 DEF Changes, Differences
<1>2. ASSUME Shown, kind # "custom_fields" PROVE ch = other
  BY <1>2 DEF Changes, Differences
<1>3. ASSUME ~Shown PROVE ch = other
  BY <1>3 DEF Changes
<1> QED BY <1>1, <1>2, <1>3

LEMMA PlainIs ==
    ASSUME kind \in Plain
    PROVE  /\ kind \notin {"list", "custom_fields"}
           /\ \A d, c : Stored(d, c) = StoredLeaf(d)
           /\ \A d, c : c.t \notin {"list", "dict"} =>
                 /\ ValuesEqual(d, c) <=> d.t \notin {"list", "dict"} /\ LeafEqual(d, c)
                 /\ ToWritable(c) = LeafToWritable(c)
<1>1. kind \notin {"list", "custom_fields"}
  BY DEF Plain
<1>2. \A d, c : Stored(d, c) = StoredLeaf(d)
  BY <1>1 DEF Stored
<1>3. ASSUME NEW d, NEW c, c.t \notin {"list", "dict"}
      PROVE  /\ ValuesEqual(d, c) <=> d.t \notin {"list", "dict"} /\ LeafEqual(d, c)
             /\ ToWritable(c) = LeafToWritable(c)
  BY <1>3 DEF ValuesEqual, ToWritable
<1> QED BY <1>1, <1>2, <1>3

\* What compute_changes finds equal is stored as it is.
LEMMA NoopSame ==
    ASSUME Shown, NamesDiffer, kind \in Kinds, NEW d \in Wanted[kind], NEW c \in Holdable,
           Changes(d, c) = {}, NEW v \in Stored(d, c)
    PROVE  Same(v, c)
<1>1. CASE kind \in Plain
  <2>1. c.t \notin {"list", "dict"}
    BY <1>1, RestoredIs
  <2>2. ValuesEqual(d, c)
    BY <1>1, ChangesAre, PlainIs
  <2>3. LeafEqual(d, c) /\ v \in StoredLeaf(d)
    BY <1>1, <2>1, <2>2, PlainIs
  <2>4. v = c
    BY <1>1, <2>3, PlainWanted, EqualStored
  <2> QED BY <2>1, <2>4 DEF Same
<1>2. CASE kind = "list"
  BY <1>2, ChangesAre, NoopList
<1>3. CASE kind = "custom_fields"
  <2>1. v = c
    BY <1>3, NoopCustom
  <2> QED BY <2>1 DEF Same
<1> QED BY <1>1, <1>2, <1>3, KindsAre DEF Plain

\* What is stored of a change is found equal to what was asked for.
LEMMA ReplanSame ==
    ASSUME Shown, NamesDiffer, ListsOnce, kind \in Kinds, NEW d \in Wanted[kind], Spelled(d), NEW c \in Holdable,
           NEW ch \in Changes(d, c), NEW v \in Stored(ch.to, c)
    PROVE  Changes(d, v) = {}
<1>1. CASE kind \in Plain
  <2>1. ch.to = d
    BY <1>1, ChangesAre, PlainIs
  <2>2. v \in StoredLeaf(d)
    BY <1>1, <2>1, PlainIs
  <2>3. Leaf(d) /\ LeafEqual(d, v) /\ v.t \notin {"list", "dict"}
    BY <1>1, <2>2, PlainWanted, StoredEqual DEF Spelled, Leaf
  <2>4. ValuesEqual(d, v)
    BY <1>1, <2>3, PlainIs DEF Leaf
  <2> QED BY <1>1, <2>4, ChangesAre, PlainIs
<1>2. CASE kind = "list"
  <2>1. ch.to = d
    BY <1>2, ChangesAre
  <2>2. ValuesEqual(d, v)
    BY <1>2, <2>1, ReplanList
  <2> QED BY <1>2, <2>2, ChangesAre
<1>3. CASE kind = "custom_fields"
  BY <1>3, ReplanCustom
<1> QED BY <1>1, <1>2, <1>3, KindsAre DEF Plain

\* What a change recorded as "from" is stored as the value it was taken from.
LEMMA RevertSame ==
    ASSUME Shown, kind \in Kinds, NEW d \in Wanted[kind], NEW c \in Holdable,
           NEW ch \in Changes(d, c), NEW v \in Stored(ch.to, c)
    PROVE  Stored(ch.from, v) # {} /\ \A w \in Stored(ch.from, v) : Same(w, c)
<1>1. CASE kind \in Plain
  <2>1. StoredLeaf(LeafToWritable(c)) = {c} /\ c.t \notin {"list", "dict"}
    BY <1>1, RestoredIs
  <2>2. ch.from = LeafToWritable(c)
    BY <1>1, <2>1, ChangesAre, PlainIs
  <2>3. Stored(ch.from, v) = {c}
    BY <1>1, <2>1, <2>2, PlainIs
  <2> QED BY <2>1, <2>3 DEF Same
<1>2. CASE kind = "list"
  <2>1. ch.from = ToWritable(c)
    BY <1>2, ChangesAre
  <2> QED BY <1>2, <2>1, RevertList
<1>3. CASE kind = "custom_fields"
  <2>1. \A e \in Wanted[kind] : \A g \in Changes(e, c) :
          \A w \in Stored(g.to, c) : Stored(g.from, w) = {c}
    BY <1>3, RevertCustom
  <2>2. Stored(ch.from, v) = {c}
    BY <2>1
  <2> QED BY <2>2 DEF Same
<1> QED BY <1>1, <1>2, <1>3, KindsAre DEF Plain

-----------------------------------------------------------------------------
(* The plan, its apply, the next plan and the rollback.                    *)

\* The recorded change is the one between what was asked for and what was held.
DiffInv ==
    /\ kind \in Kinds /\ want \in Wanted[kind] /\ original \in Holdable
    /\ at \in {"asked", "noop", "planned", "refused"} => have = original
    /\ at = "noop" => Changes(want, original) = {}
    /\ at \notin {"asked", "noop"} => change = Changes(want, original)
    /\ at \in {"written", "replanned", "changed again"} =>
          \E c \in change : have \in Patched(c.to, original)

\* The field is of one kind throughout.
LEMMA KindStays ==
    ASSUME kind' = kind, field' = field
    PROVE  /\ Holdable' = Holdable
           /\ \A d, c : Patched(d, c)' = Patched(d, c) /\ Changes(d, c)' = Changes(d, c)
           /\ \A d : Spelled(d)' <=> Spelled(d)
<1>1. Holdable' = Holdable
  BY DEF Holdable
<1>2. \A d : StoredLeaf(d)' = StoredLeaf(d)
  BY <1>1 DEF StoredLeaf
<1>3. \A d, c : Stored(d, c)' = Stored(d, c)
  BY <1>2 DEF Stored
<1>4. \A d, c : Patched(d, c)' = Patched(d, c)
  BY <1>3 DEF Patched, Taken
<1>5. \A d, c : Changes(d, c)' = Changes(d, c)
  BY DEF Changes, Differences, Shown
<1>6. \A d : SpelledLeaf(d)' <=> SpelledLeaf(d)
  BY <1>1 DEF SpelledLeaf
<1>7. \A d : Spelled(d)' <=> Spelled(d)
  BY <1>6 DEF Spelled
<1> QED BY <1>1, <1>4, <1>5, <1>7

LEMMA DiffStart == Init => DiffInv
  BY DEF Init, DiffInv

LEMMA DiffStep == DiffInv /\ [Next]_vars => DiffInv'
<1> SUFFICES ASSUME DiffInv, [Next]_vars PROVE DiffInv'
  OBVIOUS
<1>1. kind' = kind /\ field' = field /\ want' = want /\ original' = original
  BY DEF Next, Plan, Apply, Replan, Revert, vars
<1>2. /\ Holdable' = Holdable
      /\ \A d, c : Patched(d, c)' = Patched(d, c) /\ Changes(d, c)' = Changes(d, c)
  BY <1>1, KindStays
<1>3. /\ kind' \in Kinds /\ want' \in Wanted[kind]' /\ original' \in Holdable'
      /\ Changes(want, original)' = Changes(want, original)
      /\ \A c : Patched(c.to, original)' = Patched(c.to, original)
  BY <1>1, <1>2 DEF DiffInv
<1>4. CASE Plan
  BY <1>3, <1>4 DEF Plan, DiffInv
<1>5. CASE Apply
  BY <1>3, <1>5 DEF Apply, DiffInv
<1>6. CASE Replan
  BY <1>3, <1>6 DEF Replan, DiffInv
<1>7. CASE Revert
  BY <1>3, <1>7 DEF Revert, DiffInv
<1>8. CASE UNCHANGED vars
  BY <1>3, <1>8 DEF vars, DiffInv
<1> QED BY <1>4, <1>5, <1>6, <1>7, <1>8 DEF Next

\* Where no object is called by what another is, a field left out of the plan
\* as a noop (compute_changes) is one whose PATCH would change nothing.
THEOREM NoopMeansSameAlways == ASSUME NamesDiffer PROVE Spec => []NoopMeansSame
<1>1. DiffInv => NoopMeansSame
  <2> SUFFICES ASSUME DiffInv, at = "noop", NEW v \in Patched(want, have) PROVE Same(v, have)
    BY DEF NoopMeansSame
  <2>1. /\ kind \in Kinds /\ want \in Wanted[kind] /\ have \in Holdable
        /\ Changes(want, have) = {} /\ have = original
    BY DEF DiffInv
  <2>2. Shown
    BY <2>1 DEF Changes
  <2>3. CASE Taken
    BY <2>1, <2>2, <2>3, NoopSame DEF Patched
  <2>4. CASE ~Taken
    BY <2>4 DEF Patched, Same
  <2> QED BY <2>3, <2>4
<1>2. Spec => []DiffInv
  BY DiffStart, DiffStep, PTL DEF Spec
<1> QED BY <1>1, <1>2, PTL

\* And what was applied is not planned again, in whatever order NetBox returns
\* a list (values_equal): but for what was asked for in another spelling than
\* NetBox's, and for fields it does not return or does not take.
THEOREM ReplanIsNoopAlways == ASSUME NamesDiffer, ListsOnce PROVE Spec => []ReplanIsNoop
<1>1. Init => DiffInv /\ ReplanIsNoop
  BY DiffStart DEF Init, ReplanIsNoop
<1>2. DiffInv /\ ReplanIsNoop /\ [Next]_vars => DiffInv' /\ ReplanIsNoop'
  <2> SUFFICES ASSUME DiffInv, ReplanIsNoop, [Next]_vars PROVE ReplanIsNoop'
    BY DiffStep
  <2>1. CASE Replan
    <3>1. /\ kind \in Kinds /\ want \in Wanted[kind] /\ original \in Holdable
          /\ \E c \in Changes(want, original) : have \in Patched(c.to, original)
      BY <2>1 DEF Replan, DiffInv
    <3>2. field = "plain" /\ Spelled(want) => Changes(want, have) = {}
      BY <3>1, ReplanSame DEF Patched, Shown, Taken
    <3>3. kind' = kind /\ field' = field /\ want' = want
      BY <2>1 DEF Replan
    <3>4. Spelled(want)' <=> Spelled(want)
      BY <3>3, KindStays
    <3> QED BY <2>1, <3>2, <3>3, <3>4 DEF Replan, ReplanIsNoop
  <2>2. CASE Plan \/ Apply \/ Revert
    BY <2>2 DEF Plan, Apply, Revert, ReplanIsNoop
  <2>3. CASE UNCHANGED vars
    <3>1. kind' = kind /\ field' = field /\ want' = want /\ at' = at
      BY <2>3 DEF vars
    <3>2. Spelled(want)' <=> Spelled(want)
      BY <3>1, KindStays
    <3> QED BY <3>1, <3>2 DEF ReplanIsNoop
  <2> QED BY <2>1, <2>2, <2>3 DEF Next
<1>3. Spec => [](DiffInv /\ ReplanIsNoop)
  BY <1>1, <1>2, PTL DEF Spec
<1> QED BY <1>3, PTL

\* The "from" of every change is accepted and puts the field back as it was
\* (to_writable), in whatever spelling it was asked for and whether or not names
\* can be told apart: but for a field that NetBox takes and does not return.
THEOREM RevertRestoresAlways == Spec => []RevertRestores
<1>1. Init => DiffInv /\ RevertRestores
  BY DiffStart DEF Init, RevertRestores
<1>2. DiffInv /\ RevertRestores /\ [Next]_vars => DiffInv' /\ RevertRestores'
  <2> SUFFICES ASSUME DiffInv, RevertRestores, [Next]_vars PROVE RevertRestores'
    BY DiffStep
  <2>1. CASE Revert
    <3>1. /\ kind \in Kinds /\ want \in Wanted[kind] /\ original \in Holdable
          /\ change = Changes(want, original)
          /\ \E c \in change : have \in Patched(c.to, original)
      BY <2>1 DEF Revert, DiffInv
    <3>2. ASSUME NEW c \in change, field # "write-only"
          PROVE  Patched(c.from, have) # {} /\ \A w \in Patched(c.from, have) : Same(w, original)
      <4>1. have \in Patched(c.to, original)
        BY <3>1, OneChange
      <4>2. CASE Taken
        BY <3>1, <3>2, <4>1, <4>2, RevertSame DEF Patched, Shown, Taken
      <4>3. CASE ~Taken
        BY <4>1, <4>3 DEF Patched, Same
      <4> QED BY <4>2, <4>3
    <3>3. /\ original' = original /\ field' = field
          /\ field # "write-only" => \E c \in change : have' \in Patched(c.from, have) /\ at' = "reverted"
      BY <2>1, <3>2 DEF Revert
    <3>4. field # "write-only" => at' = "reverted" /\ Same(have', original)
      BY <3>2, <3>3
    <3> QED BY <3>3, <3>4 DEF RevertRestores, Same
  <2>2. CASE Plan \/ Apply \/ Replan
    BY <2>2 DEF Plan, Apply, Replan, RevertRestores
  <2>3. CASE UNCHANGED vars
    <3>1. at' = at /\ field' = field /\ change' = change /\ have' = have /\ original' = original /\ kind' = kind
      BY <2>3 DEF vars
    <3> QED BY <3>1 DEF RevertRestores, Same
  <2> QED BY <2>1, <2>2, <2>3 DEF Next
<1>3. Spec => [](DiffInv /\ RevertRestores)
  BY <1>1, <1>2, PTL DEF Spec
<1> QED BY <1>3, PTL

=============================================================================
