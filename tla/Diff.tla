---------------------------------- MODULE Diff ----------------------------------
(***************************************************************************)
(* Deciding whether a field has to change (diff.values_equal,              *)
(* compute_changes) and turning what NetBox returns into what it accepts   *)
(* (to_writable), in the setting they are used in: an update is planned    *)
(* for one field of one object, written, planned again, and reverted with  *)
(* the "from" the first plan recorded.                                     *)
(*                                                                         *)
(* Values are tagged records.  Numbers, booleans and strings carry their   *)
(* text, which is what str() compares.  Nested objects, choices, scalars   *)
(* and null are leaves; lists and custom_fields hold leaves, which is as   *)
(* deep as NetBox fields go but for JSON custom fields.  A field may be    *)
(* one NetBox does not return, or one it does not take.                    *)
(***************************************************************************)
EXTENDS Naturals, Sequences, FiniteSets

CONSTANTS
    Kinds,        \* kinds of field: a subset of FieldKind
    Related,      \* the objects a related field can point to
    Choices,      \* the choices of a choice field
    Scalars,      \* the numbers and strings a scalar field can hold
    Truths,       \* [{"True", "False"} -> the strings NetBox takes for it]
    Wanted,       \* [Kinds -> the desired values that are asked for]
    Number(_),    \* the number a text is written for, or the text
    Kept(_)       \* the text NetBox keeps for a text: trimmed, in its own case

FieldKind == {"related", "choice", "char", "integer", "decimal", "boolean", "list", "custom_fields"}

Null == [t |-> "null"]
Num(text) == [t |-> "int", text |-> text]
Float(text) == [t |-> "float", text |-> text]
Str(text) == [t |-> "str", text |-> text]
Bool(text) == [t |-> "bool", text |-> text]
Lookup(field, text) == [t |-> "lookup", field |-> field, text |-> text]
List(items) == [t |-> "list", items |-> items]
Dict(map) == [t |-> "dict", map |-> map]
Booleans == {Bool("True"), Bool("False")}

\* A value that holds no other, in the form that is sent.
Leaf(v) ==
    /\ v.t \in {"null", "int", "float", "str", "bool", "lookup"}
    /\ v.t = "null" => v = Null
    /\ v.t = "bool" => v \in Booleans

ASSUME DiffAssumption ==
    /\ Kinds \subseteq FieldKind /\ DOMAIN Wanted = Kinds
    /\ IsFiniteSet(Related) /\ \A r \in Related : r.t = "nested"
    /\ \A r, q \in Related : Number(r.id) = Number(q.id) => r = q
    /\ \A c \in Choices : c.t = "choice" /\ c.value \in {Num(c.value.text), Str(c.value.text)}
    /\ \A c, d \in Choices : Number(c.value.text) = Number(d.value.text) => c = d
    /\ \A s \in Scalars : s \in {Num(s.text), Float(s.text), Str(s.text)}
    /\ \A s, r \in Scalars :
          s.t = r.t /\ s.t # "str" /\ Number(s.text) = Number(r.text) => s = r
    /\ \A s \in Scalars : \E r \in Scalars : r.text = Kept(s.text) /\ Kept(r.text) = r.text
    /\ Number("True") # Number("False")
    /\ \A k \in Kinds : \A v \in Wanted[k] :
          \/ k # "custom_fields" /\ Leaf(v)
          \/ /\ k = "list" /\ v.t = "list"
             /\ v.items \in Seq({v.items[i] : i \in DOMAIN v.items})
             /\ \A i \in DOMAIN v.items : Leaf(v.items[i])
          \/ /\ k = "custom_fields" /\ v.t = "dict" /\ DOMAIN v.map \subseteq {"k1", "k2"}
             /\ \A f \in DOMAIN v.map : Leaf(v.map[f])

VARIABLES
    kind,      \* the field's
    field,     \* "plain", "read-only", "write-only" or "unknown"
    have,      \* what it holds
    want,      \* what is asked for
    at, change,
    original   \* what it held at the start

vars == <<kind, field, have, want, at, change, original>>

\* NetBox returns the field; a PATCH of it has an effect.
Shown == field \in {"plain", "read-only"}
Taken == field \in {"plain", "write-only"}

-----------------------------------------------------------------------------
(* diff.py                                                                 *)

\* Python's ==: 2 is 2.0, and True is 1.
Numeric(x) == x.t \in {"int", "float", "bool"}
PyEqual(x, y) == x = y \/ (Numeric(x) /\ Numeric(y) /\ Number(x.text) = Number(y.text))

\* _SCALARS, but for bool
IsText(x) == x.t \in {"int", "float", "str"}
\* Mutant: a number and its text differ.
ScalarEqualStrict(x, y) == PyEqual(x, y)
ScalarEqual(x, y) == PyEqual(x, y) \/ (IsText(x) /\ IsText(y) /\ x.text = y.text)

\* values_equal on a nested object, a choice or a scalar.  An object's
\* display is taken to be its name.
LeafEqual(desired, current) ==
    CASE current.t = "nested" ->
            CASE desired.t = "int" -> Number(desired.text) = Number(current.id)
              [] desired.t = "str" -> desired.text \in {current.slug, current.name, current.id}
              [] desired.t = "lookup" -> desired.field \in {"slug", "name"} /\ desired.text = current[desired.field]
              [] OTHER -> FALSE
      [] current.t = "choice" ->
            IF desired.t = "lookup"
            THEN desired.field = "value" /\ ScalarEqual(Str(desired.text), current.value)
            ELSE ScalarEqual(desired, current.value)
      [] OTHER -> desired.t # "lookup" /\ ScalarEqual(desired, current)

First(S) == {i \in S : \A j \in S : i <= j}

\* remaining.pop(i): each desired element takes the first element that is
\* left and equals it.  {0} marks a desired element that found none.
Fits(left, want1, current) == {i \in left \ {0} : LeafEqual(want1, current[i])}
Left(desired, current) ==
    LET left[k \in 0..Len(desired)] ==
          IF k = 0 THEN 1..Len(current)
          ELSE LET fits == Fits(left[k - 1], desired[k], current)
               IN IF fits = {} THEN {0} ELSE left[k - 1] \ First(fits)
    IN left
Greedy(desired, current) == Left(desired, current)[Len(desired)] = {}
\* Mutant: the lengths are not compared.
ListEqualPrefix(desired, current) ==
    \A k \in DOMAIN desired : \E i \in DOMAIN current : LeafEqual(desired[k], current[i])
ListEqual(desired, current) == Len(desired) = Len(current) /\ Greedy(desired, current)

ValuesEqual(desired, current) ==
    CASE current.t = "list" -> desired.t = "list" /\ ListEqual(desired.items, current.items)
      [] current.t = "dict" -> /\ desired.t = "dict" /\ DOMAIN desired.map = DOMAIN current.map
                               /\ \A k \in DOMAIN desired.map : LeafEqual(desired.map[k], current.map[k])
      [] OTHER -> desired.t \notin {"list", "dict"} /\ LeafEqual(desired, current)

\* Mutant: the choice's label is what is kept.
LeafToWritableLabel(v) ==
    CASE v.t = "nested" -> Num(v.id) [] v.t = "choice" -> Str(v.label) [] OTHER -> v
LeafToWritable(v) ==
    CASE v.t = "nested" -> Num(v.id) [] v.t = "choice" -> v.value [] OTHER -> v
ToWritable(v) ==
    CASE v.t = "list" -> List([i \in DOMAIN v.items |-> LeafToWritable(v.items[i])])
      [] v.t = "dict" -> Dict([k \in DOMAIN v.map |-> LeafToWritable(v.map[k])])
      [] OTHER -> LeafToWritable(v)

\* compute_changes for one field: the empty set, or the change to make.
\* Keys of custom_fields are compared one by one.
Touched(desired, current) ==
    {k \in DOMAIN desired.map :
        ~(k \in DOMAIN current.map /\ LeafEqual(desired.map[k], current.map[k]))}
Differences(desired, current) ==
    IF kind = "custom_fields"
    THEN LET touched == Touched(desired, current) IN
         {[from |-> Dict([k \in touched |-> IF k \in DOMAIN current.map
                                            THEN LeafToWritable(current.map[k]) ELSE Null]),
           to |-> Dict([k \in touched |-> desired.map[k]])] : x \in IF touched = {} THEN {} ELSE {1}}
    ELSE {[from |-> ToWritable(current), to |-> desired] : x \in IF ValuesEqual(desired, current) THEN {} ELSE {1}}
\* What is not in the answer always differs, from None.
Changes(desired, current) ==
    IF Shown THEN Differences(desired, current) ELSE {[from |-> Null, to |-> desired]}

-----------------------------------------------------------------------------
(* NetBox: what a PATCH of the field stores, the empty set when refused.   *)

Pointed(v) ==
    IF v.t = "lookup" THEN {r \in Related : v.field \in {"slug", "name"} /\ r[v.field] = v.text}
    ELSE {r \in Related : v.t # "null" /\ Number(r.id) = Number(v.text)}

Chosen(v) ==
    {c \in Choices : \/ PyEqual(v, c.value)
                     \/ v.t = "str" /\ c.value.t = "int" /\ Number(v.text) = Number(c.value.text)}

\* What the field can hold.
CustomType == [k1 |-> "int", k2 |-> "str"]
Custom(k) == {s \in Scalars : s.t = CustomType[k]} \cup {Null}
InOrder(S) ==
    {q \in [1..Cardinality(S) -> S] : \A i, j \in DOMAIN q : i # j => q[i] # q[j]}
Holdable ==
    CASE kind = "related" -> Related \cup {Null}
      [] kind = "choice" -> Choices
      [] kind = "char" -> {Str(Kept(s.text)) : s \in Scalars}
      [] kind = "integer" -> {s \in Scalars : s.t = "int"} \cup {Null}
      [] kind = "decimal" -> {s \in Scalars : s.t = "float"} \cup {Null}
      [] kind = "boolean" -> Booleans
      [] kind = "list" -> {List(q) : q \in UNION {InOrder(S) : S \in SUBSET Related}}
      [] OTHER -> {Dict([k1 |-> x, k2 |-> y]) : x \in Custom("k1"), y \in Custom("k2")}

\* Values are converted to the field's type.
StoredLeaf(v) ==
    IF v = Null THEN {Null} \cap Holdable ELSE
    CASE kind = "related" -> Pointed(v)
      [] kind = "choice" -> Chosen(v)
      [] kind = "char" -> {Str(Kept(s.text)) : s \in {s \in Scalars : IsText(v) /\ s.text = v.text}}
      [] kind \in {"integer", "decimal"} ->
            {s \in Holdable \ {Null} : IsText(v) /\ Number(s.text) = Number(v.text)}
      [] OTHER -> {b \in Booleans : IF v.t = "str" THEN v.text \in Truths[b.text] ELSE PyEqual(v, b)}

\* A many-to-many field is a set, returned in an order of NetBox's own.
\* Custom fields are typed and not converted: k1 is an integer, k2 a text.
Stored(v, current) ==
    CASE kind = "list" ->
            IF v.t = "list" /\ \A i \in DOMAIN v.items : Pointed(v.items[i]) # {}
            THEN {List(q) : q \in InOrder(UNION {Pointed(v.items[i]) : i \in DOMAIN v.items})}
            ELSE {}
      [] kind = "custom_fields" ->
            IF v.t = "dict" /\ \A k \in DOMAIN v.map : v.map[k] \in Custom(k)
            THEN {Dict([k \in DOMAIN current.map |-> IF k \in DOMAIN v.map THEN v.map[k] ELSE current.map[k]])}
            ELSE {}
      [] OTHER -> StoredLeaf(v)

\* A field that is not taken is left as it is, without an error.
Patched(v, current) == IF Taken THEN Stored(v, current) ELSE {current}

-----------------------------------------------------------------------------

\* Values that can be sent.
Writable(v) ==
    CASE v.t = "list" -> \A i \in DOMAIN v.items : v.items[i].t # "nested"
      [] v.t = "dict" -> \A k \in DOMAIN v.map : v.map[k].t # "nested"
      [] OTHER -> v.t # "nested"

TypeOK ==
    /\ kind \in Kinds /\ field \in {"plain", "read-only", "write-only", "unknown"}
    /\ at \in {"asked", "noop", "planned", "refused", "written", "replanned", "changed again",
               "reverted", "stuck"}
    /\ have \in Holdable /\ original \in Holdable
    /\ want \in Wanted[kind]
    /\ \A c \in change : Writable(c.from) /\ Writable(c.to)

Init ==
    /\ kind \in Kinds /\ field \in {"plain", "read-only", "write-only", "unknown"}
    /\ have \in Holdable /\ original = have
    /\ want \in Wanted[kind]
    /\ at = "asked" /\ change = {}

\* build_plan: no difference is a noop step.
Plan ==
    /\ at = "asked"
    /\ change' = Changes(want, have)
    /\ at' = IF change' = {} THEN "noop" ELSE "planned"
    /\ UNCHANGED <<kind, field, have, want, original>>

\* The step's PATCH carries "to".
Apply ==
    /\ at = "planned"
    /\ \E c \in change :
         \/ have' \in Patched(c.to, have) /\ at' = "written"
         \/ Patched(c.to, have) = {} /\ at' = "refused" /\ UNCHANGED have
    /\ UNCHANGED <<kind, field, want, change, original>>

\* The same operation is planned once more.
Replan ==
    /\ at = "written"
    /\ at' = IF Changes(want, have) = {} THEN "replanned" ELSE "changed again"
    /\ UNCHANGED <<kind, field, have, want, change, original>>

\* The inverse's PATCH carries "from".
Revert ==
    /\ at \in {"written", "replanned", "changed again"}
    /\ \E c \in change : LET restored == Patched(c.from, have) IN
         /\ have' \in IF restored = {} THEN {have} ELSE restored
         /\ at' = IF restored = {} THEN "stuck" ELSE "reverted"
    /\ UNCHANGED <<kind, field, want, change, original>>

Next == Plan \/ Apply \/ Replan \/ Revert

Spec == Init /\ [][Next]_vars

-----------------------------------------------------------------------------
(* Properties.                                                             *)

\* Lists are compared as sets: NetBox decides the order.
Same(v, w) ==
    IF v.t = "list" /\ w.t = "list"
    THEN {v.items[i] : i \in DOMAIN v.items} = {w.items[i] : i \in DOMAIN w.items}
    ELSE v = w

\* A step is left out as a noop only when sending it would change nothing.
NoopMeansSame == at = "noop" => \A v \in Patched(want, have) : Same(v, have)

\* What is asked for is written the way NetBox returns it: numbers as numbers
\* or in the same digits, booleans as booleans, text as it is kept.
SpelledLeaf(v) ==
    CASE kind \in {"related", "list"} ->
            v.t \notin {"float", "bool"} /\ (v.t = "str" => \E r \in Related : v.text = r.id)
      [] kind = "char" -> v.t # "null" => Kept(v.text) = v.text
      [] kind = "boolean" -> v.t # "str"
      [] kind = "choice" -> v.t = "str" => \E c \in Choices : v.text = c.value.text
      [] OTHER -> v.t = "str" => \E s \in Holdable \ {Null} : v.text = s.text
Spelled(v) ==
    CASE v.t = "list" -> \A i \in DOMAIN v.items : SpelledLeaf(v.items[i])
      [] v.t = "dict" -> TRUE
      [] OTHER -> SpelledLeaf(v)

\* Planning what was just applied finds nothing to do, in whatever shape and
\* order NetBox returns it: what is planned again was asked for in another
\* spelling than NetBox's ("2" of a decimal field that returns 2.0), or of a
\* field NetBox does not return or does not take.
ReplanIsNoop == at = "changed again" => field # "plain" \/ ~Spelled(want)

\* The inverse PATCH is accepted and puts the field back, custom fields that
\* were not touched included, whatever it was asked in; but for a field that
\* NetBox takes and does not return, whose old value nobody knows.
RevertRestores ==
    field # "write-only" => at # "stuck" /\ (at = "reverted" => Same(have, original))
================================================================================
