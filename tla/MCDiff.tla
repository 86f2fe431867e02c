---------------------------------- MODULE MCDiff ----------------------------------
EXTENDS Diff

Object(id, name, slug) == [t |-> "nested", id |-> id, name |-> name, slug |-> slug]
Choice(value, label) == [t |-> "choice", value |-> value, label |-> label]

AllKinds == FieldKind

\* Three related objects.
MCRelated == {Object("1", "Alpha", "a"), Object("2", "Beta", "b"), Object("3", "Gamma", "c")}
MCChoices == {Choice(Str("active"), "Active"), Choice(Str("planned"), "Planned")}
MCScalars == {Num("0"), Num("1"), Num("7"), Float("2.0"), Float("2.5"), Str("x"), Str("x "), Str("7")}
MCTruths == [True |-> {"True", "true", "1"}, False |-> {"False", "false", "0"}]

\* Texts that stand for the same number, and a text that NetBox trims.
MCNumber(text) ==
    CASE text \in {"2.0", "02"} -> "2"
      [] text = "2.50" -> "2.5"
      [] text \in {"1.0", "True"} -> "1"
      [] text = "False" -> "0"
      [] text = "7.0" -> "7"
      [] OTHER -> text
MCKept(text) == IF text = "x " THEN "x" ELSE text

Pointers == {Num("1"), Str("2"), Str("a"), Lookup("slug", "b"), Lookup("name", "Gamma"), Float("2.0")}
\* No list names an object twice.
Lists == {List(q) : q \in UNION {{q \in [1..n -> Pointers] : \A i, j \in 1..n : i # j => q[i] # q[j]} : n \in 0..2}}
         \ {List(q) : q \in {<<Str("2"), Lookup("slug", "b")>>, <<Lookup("slug", "b"), Str("2")>>,
                             <<Num("1"), Str("a")>>, <<Str("a"), Num("1")>>,
                             <<Str("2"), Float("2.0")>>, <<Float("2.0"), Str("2")>>,
                             <<Lookup("slug", "b"), Float("2.0")>>, <<Float("2.0"), Lookup("slug", "b")>>}}
Numbers == {Num("0"), Num("1"), Num("7"), Str("7"), Str("0"), Str("7.0"), Float("7.0"), Bool("True")}
Decimals == {Num("2"), Str("2"), Str("2.0"), Str("2.50"), Float("2.0"), Float("2.5")}

MCWanted ==
    [fk \in FieldKind |->
        CASE fk = "related" -> Pointers \cup {Null, Str("Beta"), Str("02"), Num("9")}
          [] fk = "choice" -> {Str("active"), Str("planned"), Str("gone"), Lookup("value", "active")}
          [] fk = "char" -> {Str("x"), Str("x "), Str("7"), Num("7"), Null}
          [] fk = "integer" -> Numbers \cup {Null}
          [] fk = "decimal" -> Decimals \cup {Null}
          [] fk = "boolean" -> Booleans \cup {Num("1"), Str("true"), Str("x"), Null}
          [] fk = "list" -> Lists
          [] OTHER -> {Dict(m) : m \in UNION {[D -> {Num("7"), Str("x"), Null}] : D \in SUBSET {"k1", "k2"}}}]
================================================================================
