------------------------------ MODULE ClientProofs ------------------------------
(***************************************************************************)
(* Theorems about the reading calls of NetBoxClient, for any number of     *)
(* objects, page sizes and changes others make.                            *)
(*                                                                         *)
(* The state of a listing is where it is in the list: the objects of the   *)
(* world that come no later than `offset` are Behind it, the others are    *)
(* still to come, Beyond.  A change moves at most one object across that   *)
(* line, and a page moves over the line what it shows.                     *)
(***************************************************************************)
EXTENDS Client, FiniteSetTheorems, SequenceTheorems, TLAPS

-----------------------------------------------------------------------------
(* Counting.                                                               *)

LEMMA AtMostOneMore ==
    ASSUME NEW S, IsFiniteSet(S), NEW T, \A x, y \in T \ S : x = y
    PROVE  IsFiniteSet(T) /\ Cardinality(T) <= Cardinality(S) + 1
<1>1. CASE T \ S = {}
  <2>1. T \in SUBSET S
    BY <1>1
  <2> QED BY <2>1, FS_Subset, FS_CardinalityType
<1>2. CASE T \ S # {}
  <2>1. PICK x : x \in T \ S
    BY <1>2
  <2>2. T \in SUBSET (S \cup {x})
    BY <2>1
  <2>3. IsFiniteSet(S \cup {x}) /\ Cardinality(S \cup {x}) = Cardinality(S) + 1
    BY <2>1, FS_AddElement
  <2>4. IsFiniteSet(T) /\ Cardinality(T) <= Cardinality(S \cup {x})
    BY <2>2, <2>3, FS_Subset
  <2> QED BY <2>3, <2>4
<1> QED BY <1>1, <1>2

LEMMA Fewer ==
    ASSUME NEW S, IsFiniteSet(S), NEW T, T \subseteq S
    PROVE  IsFiniteSet(T) /\ Cardinality(T) <= Cardinality(S) /\ Cardinality(T) \in Nat
           /\ Cardinality(S) \in Nat
  BY FS_Subset, FS_CardinalityType

-----------------------------------------------------------------------------
(* The order a list endpoint returns objects in.                           *)

Rank(W, o) == Cardinality({w \in W : w <= o})

LEMMA RankTyped ==
    ASSUME NEW W \in SUBSET Nat, IsFiniteSet(W), NEW o
    PROVE  /\ Rank(W, o) \in Nat /\ Cardinality(W) \in Nat
           /\ o \in W => Rank(W, o) \in 1..Cardinality(W)
<1> DEFINE U == {w \in W : w <= o}
<1>1. /\ IsFiniteSet(U) /\ Cardinality(U) <= Cardinality(W)
      /\ Cardinality(U) \in Nat /\ Cardinality(W) \in Nat
  BY Fewer
<1>2. o \in W => o \in U
  <2>1. \A x \in Nat : x <= x
    OBVIOUS
  <2> QED BY <2>1
<1>3. o \in W => Cardinality(U) # 0
  BY <1>1, <1>2, FS_EmptySet
<1> QED BY <1>1, <1>3 DEF Rank

LEMMA RankGrows ==
    ASSUME NEW W \in SUBSET Nat, IsFiniteSet(W), NEW o \in W, NEW q \in W, o < q
    PROVE  Rank(W, o) < Rank(W, q)
<1> DEFINE U == {w \in W : w <= o}
           V == {w \in W : w <= q}
<1>0. o \in Nat /\ q \in Nat /\ q <= q /\ ~(q <= o) /\ \A w \in Nat : w <= o => w <= q
  OBVIOUS
<1>1. U \in SUBSET V /\ q \in V /\ q \notin U
  BY <1>0
<1>2. IsFiniteSet(V)
  BY Fewer
<1>3. Cardinality(U) <= Cardinality(V) /\ Cardinality(U) # Cardinality(V)
  BY <1>1, <1>2, FS_Subset
<1>4. Cardinality(U) \in Nat /\ Cardinality(V) \in Nat
  BY <1>1, <1>2, Fewer
<1> QED BY <1>3, <1>4 DEF Rank

LEMMA RankOne ==
    ASSUME NEW W \in SUBSET Nat, IsFiniteSet(W), NEW o \in W, NEW q \in W, Rank(W, o) = Rank(W, q)
    PROVE  o = q
<1>1. Rank(W, o) \in Nat /\ Rank(W, q) \in Nat
  BY RankTyped
<1>2. CASE o < q
  BY <1>1, <1>2, RankGrows
<1>3. CASE q < o
  BY <1>1, <1>3, RankGrows
<1> QED BY <1>2, <1>3

LEMMA RankAll ==
    ASSUME NEW W \in SUBSET Nat, IsFiniteSet(W), NEW n \in 1..Cardinality(W)
    PROVE  \E o \in W : Rank(W, o) = n
<1> DEFINE f == [o \in W |-> Rank(W, o)]
           T == 1..Cardinality(W)
<1>1. Cardinality(W) \in Nat
  BY RankTyped
<1>2. IsFiniteSet(T) /\ Cardinality(T) = Cardinality(W)
  BY <1>1, FS_Interval
<1>3. f \in [W -> T]
  BY RankTyped
<1>4. \A a, b \in W : f[a] = f[b] => a = b
  BY RankOne
<1>5. f \in Injection(W, T)
  BY <1>3, <1>4 DEF Injection, IsInjective
<1>6. f \in Surjection(W, T)
  BY <1>2, <1>5, FS_Injection
<1> QED BY <1>6 DEF Surjection

\* What one object more does to the ranks of the others.
LEMMA RankShifts ==
    ASSUME NEW W \in SUBSET Nat, IsFiniteSet(W), NEW o \in Nat \ W, NEW x \in W
    PROVE  Rank(W \cup {o}, x) = IF o <= x THEN Rank(W, x) + 1 ELSE Rank(W, x)
<1> DEFINE U == {w \in W : w <= x}
           V == {w \in W \cup {o} : w <= x}
<1>1. IsFiniteSet(U) /\ o \notin U
  BY Fewer
<1>2. V = IF o <= x THEN U \cup {o} ELSE U
  OBVIOUS
<1> QED BY <1>1, <1>2, FS_AddElement DEF Rank

LEMMA ListedInOrder ==
    ASSUME world \in SUBSET Nat, IsFiniteSet(world)
    PROVE  /\ Listed \in Seq(world) /\ Len(Listed) = Cardinality(world) /\ Cardinality(world) \in Nat
           /\ \A n \in 1..Cardinality(world) : Listed[n] \in world /\ Rank(world, Listed[n]) = n
<1>1. ASSUME NEW n \in 1..Cardinality(world)
      PROVE  Listed[n] \in world /\ Rank(world, Listed[n]) = n
  <2>1. \E o \in world : Cardinality(Upto(o)) = n
    BY RankAll DEF Rank, Upto
  <2>2. Listed[n] = CHOOSE o \in world : Cardinality(Upto(o)) = n
    BY DEF Listed
  <2>3. Listed[n] \in world /\ Cardinality(Upto(Listed[n])) = n
    BY <2>1, <2>2
  <2> QED BY <2>3 DEF Rank, Upto
<1>2. Cardinality(world) \in Nat
  BY RankTyped
<1>3. DOMAIN Listed = 1..Cardinality(world) /\ Listed = [n \in 1..Cardinality(world) |-> Listed[n]]
  BY DEF Listed
<1> QED BY <1>1, <1>2, <1>3

LEMMA PageInOrder ==
    ASSUME world \in SUBSET Nat, IsFiniteSet(world), offset \in Nat, Limit \in Nat
    PROVE  /\ Page \in Seq(world) /\ Len(Page) \in Nat
           /\ Len(Page) = IF offset >= Cardinality(world) THEN 0
                          ELSE Least(offset + Limit, Cardinality(world)) - offset
           /\ \A n \in 1..Len(Page) : Page[n] \in world /\ Rank(world, Page[n]) = offset + n
<1> DEFINE size == Cardinality(world)
           last == Least(offset + Limit, size)
<1>1. /\ Len(Listed) = size /\ size \in Nat /\ Listed \in Seq(world)
      /\ \A n \in 1..size : Listed[n] \in world /\ Rank(world, Listed[n]) = n
  BY ListedInOrder
<1>2. last \in Nat /\ last <= size /\ (offset >= size => last - offset <= 0)
      /\ (offset < size => last - offset >= 0)
  BY <1>1 DEF Least
<1>3. \A i \in offset + 1 .. last : Listed[i] \in world
  BY <1>1, <1>2
<1>4. /\ Page \in Seq(world) /\ Len(Page) = IF offset + 1 <= last THEN last - (offset + 1) + 1 ELSE 0
      /\ \A n \in 1..(last - (offset + 1) + 1) : Page[n] = Listed[offset + 1 + n - 1]
  <2>1. Page = SubSeq(Listed, offset + 1, last)
    BY <1>1 DEF Page
  <2> QED BY <1>2, <1>3, <2>1, SubSeqProperties
<1>5. Len(Page) = IF offset >= size THEN 0 ELSE last - offset
  BY <1>1, <1>2, <1>4
<1>6. ASSUME NEW n \in 1..Len(Page) PROVE Page[n] \in world /\ Rank(world, Page[n]) = offset + n
  <2>1. offset + 1 + n - 1 = offset + n /\ offset + n \in 1..size /\ n \in 1..(last - (offset + 1) + 1)
    BY <1>1, <1>2, <1>5
  <2> QED BY <1>1, <1>4, <2>1
<1> QED BY <1>1, <1>2, <1>4, <1>5, <1>6

-----------------------------------------------------------------------------
(* The call.                                                               *)

LEMMA SeqWider == ASSUME NEW A, NEW B, A \subseteq B, NEW s \in Seq(A) PROVE s \in Seq(B)
<1>1. s = [i \in 1..Len(s) |-> s[i]] /\ Len(s) \in Nat /\ \A i \in 1..Len(s) : s[i] \in B
  OBVIOUS
<1> QED BY <1>1

LEMMA FirstOf ==
    ASSUME NEW A, NEW s \in Seq(A), NEW most \in Nat, most <= Len(s)
    PROVE  /\ SubSeq(s, 1, most) \in Seq(A) /\ Len(SubSeq(s, 1, most)) = most
           /\ \A n \in 1..most : SubSeq(s, 1, most)[n] = s[n]
<1>0. 1 \in Int /\ most \in Int
  OBVIOUS
<1>1. \A n \in 1..most : s[n] \in A
  OBVIOUS
<1>2. /\ SubSeq(s, 1, most) \in Seq(A)
      /\ Len(SubSeq(s, 1, most)) = IF 1 <= most THEN most - 1 + 1 ELSE 0
      /\ \A n \in 1..(most - 1 + 1) : SubSeq(s, 1, most)[n] = s[1 + n - 1]
  BY <1>0, <1>1, SubSeqProperties
<1> QED BY <1>2

LEMMA Joined ==
    ASSUME NEW A, NEW s \in Seq(A), NEW t \in Seq(A)
    PROVE  /\ s \o t \in Seq(A) /\ Len(s \o t) = Len(s) + Len(t)
           /\ \A n \in 1..Len(s) : (s \o t)[n] = s[n]
           /\ \A n \in 1..Len(t) : (s \o t)[Len(s) + n] = t[n]
  BY ConcatProperties

TypeInv ==
    /\ world \in SUBSET Objects /\ call \in Calls /\ asking \in BOOLEAN
    /\ endpoint \in {1, 2} /\ offset \in Nat /\ results \in Seq(Objects)
    /\ requests \in Nat /\ came \in Nat /\ left \in Nat
    /\ seen \subseteq SUBSET Objects /\ world \in seen
    /\ asking => answer = Pending

LEMMA WorldTyped ==
    ASSUME TypeInv
    PROVE  /\ world \in SUBSET Nat /\ IsFiniteSet(world) /\ IsFiniteSet(Objects) /\ Objects \subseteq Nat
           /\ call.kind \in {"list", "find", "get", "changes"}
           /\ call.max \in Nat /\ call.page \in Nat \ {0} /\ call.offset \in Nat
           /\ call.kind = "find" => call.max = 2 /\ call.page >= 2 /\ call.offset = 0
           /\ Limit \in Nat /\ Limit >= 1
           /\ call.kind = "find" => Limit = 2 \/ Limit = PageCap
           /\ PageCap \in Nat /\ PageCap >= 2
<1>1. /\ Objects \subseteq Nat /\ IsFiniteSet(Objects)
      /\ PageCap \in Nat /\ PageCap >= 2 /\ world \in SUBSET Objects
      /\ call.kind \in {"list", "find", "get", "changes"}
      /\ call.max \in Nat /\ call.page \in Nat \ {0} /\ call.offset \in Nat
      /\ call.kind = "find" => call.max = 2 /\ call.page >= 2 /\ call.offset = 0
  BY ClientAssumption DEF TypeInv
<1>2. world \in SUBSET Nat /\ IsFiniteSet(world)
  BY <1>1, FS_Subset
<1>3. /\ Limit \in Nat /\ Limit >= 1
      /\ call.kind = "find" => Limit = 2 \/ Limit = PageCap
  BY <1>1 DEF Limit, Least
<1> QED BY <1>1, <1>2, <1>3

\* A page, with what becomes of it.
LEMMA PageTyped ==
    ASSUME TypeInv
    PROVE  /\ Page \in Seq(world) /\ Page \in Seq(Objects) /\ Len(Page) \in Nat
           /\ Len(Listed) = Cardinality(world) /\ Cardinality(world) \in Nat
           /\ Len(Page) = IF offset >= Cardinality(world) THEN 0
                          ELSE Least(offset + Limit, Cardinality(world)) - offset
           /\ \A n \in 1..Len(Page) : Page[n] \in world /\ Rank(world, Page[n]) = offset + n
           /\ results \o Page \in Seq(Objects) /\ Len(results \o Page) = Len(results) + Len(Page)
           /\ Len(results) \in Nat
<1>1. /\ world \in SUBSET Nat /\ IsFiniteSet(world) /\ offset \in Nat /\ Limit \in Nat
      /\ results \in Seq(Objects) /\ world \in SUBSET Objects
  BY WorldTyped DEF TypeInv
<1>2. /\ Page \in Seq(world) /\ Len(Page) \in Nat
      /\ Len(Page) = IF offset >= Cardinality(world) THEN 0
                     ELSE Least(offset + Limit, Cardinality(world)) - offset
      /\ \A n \in 1..Len(Page) : Page[n] \in world /\ Rank(world, Page[n]) = offset + n
  BY <1>1, PageInOrder
<1>3. Page \in Seq(Objects)
  BY <1>1, <1>2, SeqWider
<1>4. /\ results \o Page \in Seq(Objects) /\ Len(results \o Page) = Len(results) + Len(Page)
      /\ Len(results) \in Nat
  BY <1>1, <1>3, Joined
<1>5. Len(Listed) = Cardinality(world) /\ Cardinality(world) \in Nat
  BY <1>1, ListedInOrder
<1> QED BY <1>1, <1>2, <1>3, <1>4, <1>5

LEMMA TypeStarts == Init => TypeInv
  BY ClientAssumption DEF Init, TypeInv

\* A request that ends the call, or only says what get_object found.
LEMMA TypeIsKept ==
    ASSUME TypeInv, UNCHANGED <<world, call, endpoint, offset, results, seen, came, left>>,
           requests' = requests + 1, asking' = FALSE \/ UNCHANGED <<asking, answer>>
    PROVE  TypeInv'
<1>1. /\ world' \in SUBSET Objects /\ call' \in Calls /\ endpoint' \in {1, 2} /\ offset' \in Nat
      /\ results' \in Seq(Objects) /\ requests' \in Nat /\ came' \in Nat /\ left' \in Nat
      /\ seen' \subseteq SUBSET Objects /\ world' \in seen'
  BY DEF TypeInv
<1>2. asking' \in BOOLEAN /\ (asking' => answer' = Pending')
  <2>1. Pending' = Pending
    BY DEF Pending
  <2>2. CASE asking' = FALSE
    <3>1. ~asking'
      BY <2>2
    <3> QED BY <2>2, <3>1
  <2>3. CASE UNCHANGED <<asking, answer>>
    <3>1. asking' = asking /\ answer' = answer
      BY <2>3
    <3> QED BY <2>1, <3>1 DEF TypeInv
  <2> QED BY <2>2, <2>3
<1> QED BY <1>1, <1>2 DEF TypeInv

LEMMA TypeGoesOn == ASSUME TypeInv, [Next]_vars PROVE TypeInv'
<1>1. CASE Edit
  BY <1>1 DEF Edit, TypeInv, progress
<1>2. CASE Lists
  <2>1. IF IsLast(results \o Page) THEN asking' = FALSE /\ UNCHANGED <<offset, results>>
        ELSE results' = results \o Page /\ offset' = offset + Len(Page) /\ UNCHANGED <<asking, answer>>
    BY <1>2 DEF Lists, Ends, NextOffset
  <2>2. /\ UNCHANGED <<world, call, endpoint, seen, came, left>> /\ requests' = requests + 1
    BY <1>2 DEF Lists, Asks, Ends
  <2>3. /\ results \o Page \in Seq(Objects) /\ Len(Page) \in Nat
    BY PageTyped
  <2>4. CASE IsLast(results \o Page)
    BY <2>1, <2>2, <2>4, TypeIsKept
  <2>5. CASE ~IsLast(results \o Page)
    <3>1. results' = results \o Page /\ offset' = offset + Len(Page) /\ UNCHANGED <<asking, answer>>
      BY <2>1, <2>5
    <3>2. results' \in Seq(Objects) /\ offset' \in Nat
      BY <2>3, <3>1 DEF TypeInv
    <3> QED BY <2>2, <3>1, <3>2 DEF TypeInv
  <2> QED BY <2>4, <2>5
<1>3. CASE Gets
  <2>1. /\ UNCHANGED <<world, call, endpoint, offset, results, seen, came, left>> /\ requests' = requests + 1
        /\ asking' = FALSE \/ UNCHANGED <<asking, answer>>
    BY <1>3 DEF Gets, Asks, Ends
  <2> QED BY <2>1, TypeIsKept
<1>4. ASSUME NEW status \in Statuses, Fails(status) PROVE TypeInv'
  <2>1. call.offset \in Nat /\ <<>> \in Seq(Objects)
    BY WorldTyped
  <2>2. UNCHANGED <<world, call, seen, came, left>> /\ requests' = requests + 1
    BY <1>4 DEF Fails, Asks
  <2>3. CASE FallsThrough(status)
    BY <1>4, <2>1, <2>2, <2>3 DEF Fails, TypeInv
  <2>4. CASE ~FallsThrough(status)
    <3>1. asking' = FALSE /\ UNCHANGED <<endpoint, offset, results>>
      BY <1>4, <2>4 DEF Fails, Ends
    <3> QED BY <2>2, <3>1, TypeIsKept
  <2> QED BY <2>3, <2>4
<1>5. CASE UNCHANGED vars
  BY <1>5 DEF vars, progress, TypeInv
<1> QED BY <1>1, <1>2, <1>3, <1>4, <1>5 DEF Next

-----------------------------------------------------------------------------
(* Errors, and how long a call takes.                                      *)

ErrorInv ==
    /\ asking => failures \subseteq {404} /\ (failures # {} => endpoint = 2)
    /\ ErrorsAreNotListings

LEMMA ErrorsGoOn == ASSUME TypeInv, ErrorInv, [Next]_vars PROVE ErrorInv'
<1>1. CASE Edit
  BY <1>1 DEF Edit, ErrorInv, ErrorsAreNotListings, progress
<1>2. CASE Lists
  BY <1>2 DEF Lists, Asks, Ends, ErrorInv, ErrorsAreNotListings, TypeInv, Pending
<1>3. CASE Gets
  BY <1>3 DEF Gets, Asks, Ends, ErrorInv, ErrorsAreNotListings, TypeInv, Pending
<1>4. ASSUME NEW status \in Statuses, Fails(status) PROVE ErrorInv'
  <2>1. CASE FallsThrough(status)
    BY <1>4, <2>1 DEF Fails, FallsThrough, Asks, ErrorInv, ErrorsAreNotListings, TypeInv, Pending
  <2>2. CASE ~FallsThrough(status)
    <3>1. asking' = FALSE /\ answer'.kind \in {"absent", "found", "error"}
      BY <1>4, <2>2 DEF Fails, Ends
    <3> QED BY <3>1 DEF ErrorInv, ErrorsAreNotListings
  <2> QED BY <2>1, <2>2
<1>5. CASE UNCHANGED vars
  BY <1>5 DEF vars, progress, ErrorInv, ErrorsAreNotListings
<1> QED BY <1>1, <1>2, <1>3, <1>4, <1>5 DEF Next

\* An error is never passed off as a listing: a call that answers with rows
\* has no failed request behind it, but for the change log a NetBox does not
\* have at the first of its endpoints (object_changes, client.py).
THEOREM ErrorsAreNotListingsAlways == Spec => []ErrorsAreNotListings
<1>1. Init => ErrorInv
  BY DEF Init, ErrorInv, ErrorsAreNotListings, Pending
<1>2. TypeInv /\ ErrorInv /\ [Next]_vars => TypeInv' /\ ErrorInv'
  BY TypeGoesOn, ErrorsGoOn
<1>3. ErrorInv => ErrorsAreNotListings
  BY DEF ErrorInv
<1> QED BY <1>1, <1>2, <1>3, TypeStarts, PTL DEF Spec

\* How many results one endpoint may give, at least the one of its request.
Ceiling == IF call.max = 0 THEN 1 ELSE call.max

\* Every request but the last of an endpoint brought a result.
CountInv ==
    /\ asking /\ call.kind # "get" =>
          /\ requests <= (IF endpoint = 1 THEN 0 ELSE Ceiling) + Len(results)
          /\ Len(results) < Ceiling
    /\ RequestsAreBounded

LEMMA CountsGoOn == ASSUME TypeInv, CountInv, [Next]_vars PROVE CountInv'
<1>0. /\ Ceiling \in Nat /\ Ceiling >= 1 /\ requests \in Nat /\ endpoint \in {1, 2} /\ Len(results) \in Nat
      /\ RequestsAreBounded <=> (call.kind # "get" => requests <= endpoint * Ceiling)
  BY WorldTyped DEF TypeInv, Ceiling, RequestsAreBounded
<1>1. CASE Edit
  BY <1>1 DEF Edit, CountInv, RequestsAreBounded, Ceiling, progress
<1>m. /\ endpoint = 1 => endpoint * Ceiling = Ceiling
      /\ endpoint = 2 => endpoint * Ceiling = Ceiling + Ceiling
  BY <1>0
<1>2. ASSUME asking, asking' = FALSE, UNCHANGED <<call, endpoint>>, requests' = requests + 1
      PROVE  CountInv'
  <2>1. call.kind # "get" => requests' <= endpoint * Ceiling
    BY <1>0, <1>m, <1>2 DEF CountInv
  <2> QED BY <1>2, <2>1 DEF CountInv, RequestsAreBounded, Ceiling
<1>3. ASSUME asking, call.kind # "get", UNCHANGED <<call, asking, endpoint>>, requests' = requests + 1,
             Len(results)' > Len(results), Len(results)' < call.max, Len(results)' \in Nat
      PROVE  CountInv'
  <2>1. Ceiling' = Ceiling /\ Len(results)' < Ceiling
    BY <1>0, <1>3 DEF Ceiling
  <2>2. requests' <= (IF endpoint = 1 THEN 0 ELSE Ceiling) + Len(results)'
    BY <1>0, <1>3 DEF CountInv
  <2>3. requests' <= endpoint * Ceiling
    BY <1>0, <1>m, <1>3, <2>1, <2>2
  <2> QED BY <1>3, <2>1, <2>2, <2>3 DEF CountInv, RequestsAreBounded, Ceiling
<1>4. CASE Lists
  <2>1. asking /\ call.kind # "get" /\ call' = call /\ requests' = requests + 1
    BY <1>4 DEF Lists, Asks
  <2>2. CASE IsLast(results \o Page)
    BY <1>2, <1>4, <2>1, <2>2 DEF Lists, Ends
  <2>3. CASE ~IsLast(results \o Page)
    <3>1. results' = results \o Page /\ UNCHANGED <<asking, endpoint>>
      BY <1>4, <2>3 DEF Lists
    <3>2. Len(results \o Page) < call.max /\ Page # <<>>
      BY <2>3, PageTyped, WorldTyped DEF IsLast
    <3>3. Len(Page) > 0
      BY <3>2, PageTyped
    <3> QED BY <1>0, <1>3, <2>1, <3>1, <3>2, <3>3, PageTyped
  <2> QED BY <2>2, <2>3
<1>5. CASE Gets
  BY <1>5 DEF Gets, Asks, CountInv, RequestsAreBounded
<1>6. ASSUME NEW status \in Statuses, Fails(status) PROVE CountInv'
  <2>1. asking /\ call' = call /\ requests' = requests + 1
    BY <1>6 DEF Fails, Asks
  <2>2. CASE FallsThrough(status)
    <3>1. endpoint = 1 /\ endpoint' = 2 /\ results' = <<>> /\ call.kind = "changes"
      BY <1>6, <2>2 DEF Fails, FallsThrough
    <3>2. requests' <= Ceiling /\ Ceiling' = Ceiling /\ Len(results') = 0
      BY <1>0, <2>1, <3>1 DEF CountInv, Ceiling
    <3>3. 2 * Ceiling = Ceiling + Ceiling /\ requests' <= 2 * Ceiling /\ requests' <= Ceiling + 0 /\ 0 < Ceiling
      BY <1>0, <2>1, <3>2
    <3> QED BY <2>1, <3>1, <3>2, <3>3 DEF CountInv, RequestsAreBounded, Ceiling
  <2>3. CASE ~FallsThrough(status)
    BY <1>2, <1>6, <2>1, <2>3 DEF Fails, Ends
  <2> QED BY <2>2, <2>3
<1>7. CASE UNCHANGED vars
  BY <1>7 DEF vars, progress, CountInv, RequestsAreBounded, Ceiling
<1> QED BY <1>1, <1>4, <1>5, <1>6, <1>7 DEF Next

\* Others who keep adding objects cannot keep a listing going: it makes at
\* most as many requests as it may return results, at each endpoint, whatever
\* the page sizes NetBox grants (list, client.py).
THEOREM RequestsAreBoundedAlways == Spec => []RequestsAreBounded
<1>1. Init => CountInv
  <2> SUFFICES ASSUME Init PROVE CountInv
    OBVIOUS
  <2>1. call.max \in Nat /\ Ceiling >= 1 /\ Ceiling \in Nat
    BY TypeStarts, WorldTyped DEF Ceiling
  <2> QED BY <2>1 DEF Init, CountInv, RequestsAreBounded, Ceiling
<1>2. TypeInv /\ CountInv /\ [Next]_vars => TypeInv' /\ CountInv'
  BY TypeGoesOn, CountsGoOn
<1>3. CountInv => RequestsAreBounded
  BY DEF CountInv
<1> QED BY <1>1, <1>2, <1>3, TypeStarts, PTL DEF Spec
-----------------------------------------------------------------------------
(* What find and get_object answer.                                        *)

\* find has both of its objects in the first page, or knows there are not two.
LookupInv ==
    /\ asking => /\ call.kind = "find" => results = <<>> /\ offset = 0
                 /\ call.kind = "get" /\ known # {} => call.id \in Sometime
    /\ LookupsHoldAtOneMoment

LEMMA FindTakesOnePage ==
    ASSUME TypeInv, LookupInv, asking, call.kind = "find"
    PROVE  IsLast(results \o Page)
<1>1. SUFFICES ASSUME HasNext PROVE Len(results \o Page) >= call.max
  BY DEF IsLast
<1>2. results = <<>> /\ offset = 0 /\ call.max = 2 /\ Limit \in Nat /\ Limit >= 2 /\ Cardinality(world) \in Nat
  BY WorldTyped, PageTyped DEF LookupInv
<1>3. Limit < Cardinality(world)
  BY <1>1, <1>2, PageTyped DEF HasNext
<1>4. Len(Page) = Limit
  <2>1. Len(Page) = IF offset >= Cardinality(world) THEN 0
                    ELSE Least(offset + Limit, Cardinality(world)) - offset
    BY PageTyped
  <2>2. Least(Limit, Cardinality(world)) = Limit
    BY <1>3 DEF Least
  <2>3. offset + Limit = Limit /\ ~(offset >= Cardinality(world)) /\ Limit - offset = Limit
    BY <1>2, <1>3
  <2> QED BY <2>1, <2>2, <2>3
<1> QED BY <1>2, <1>4, PageTyped

LEMMA FindAnswers ==
    ASSUME TypeInv, LookupInv, asking, call.kind = "find", NEW shown,
           shown = SubSeq(results \o Page, 1, Least(call.max, Len(results \o Page)))
    PROVE  /\ Found(Len(Listed), shown) = "found" => world = {shown[1]}
           /\ Len(Listed) = Cardinality(world)
<1>1. Len(Listed) = Cardinality(world) /\ Page \in Seq(world) /\ Len(Page) \in Nat
  BY PageTyped
<1>2. results = <<>> /\ call.max = 2 /\ results \o Page = Page
  BY <1>1, WorldTyped DEF LookupInv
<1>3. ASSUME Found(Len(Listed), shown) = "found" PROVE world = {shown[1]}
  <2>1. Cardinality(world) = 1 /\ shown # <<>>
    BY <1>1, <1>3 DEF Found
  <2>2. PICK x : world = {x}
    <3>1. IsFiniteSet(world)
      BY WorldTyped
    <3> QED BY <2>1, <3>1, FS_Singleton
  <2>3. DEFINE most == Least(2, Len(Page))
  <2>4. most \in Nat /\ most <= Len(Page) /\ (Len(Page) > 0 => most >= 1)
    BY <1>1 DEF Least
  <2>5. shown \in Seq(world) /\ Len(shown) = most
    <3>1. shown = SubSeq(Page, 1, most)
      BY <1>2
    <3> HIDE DEF most
    <3> QED BY <1>1, <2>4, <3>1, FirstOf
  <2>6. Len(shown) # 0
    BY <2>1, <2>5, EmptySeq
  <2>7. shown[1] \in world
    <3>1. 1 \in 1..Len(shown)
      BY <2>4, <2>5, <2>6
    <3> QED BY <2>5, <3>1, ElementOfSeq
  <2> QED BY <2>2, <2>7
<1> QED BY <1>1, <1>3

LEMMA LookupsGoOn == ASSUME TypeInv, LookupInv, [Next]_vars PROVE LookupInv'
<1>1. CASE Edit
  <2>1. /\ asking /\ call' = call /\ asking' = asking /\ results' = results /\ offset' = offset /\ known' = known
        /\ answer' = answer /\ seen \subseteq seen'
    BY <1>1 DEF Edit, progress
  <2>2. answer'.kind = "none"
    BY <2>1 DEF TypeInv, Pending
  <2>3. LookupsHoldAtOneMoment'
    BY <2>2 DEF LookupsHoldAtOneMoment
  <2>4. Sometime \subseteq Sometime'
    BY <2>1 DEF Sometime
  <2> QED BY <2>1, <2>3, <2>4 DEF LookupInv
<1>2. CASE Lists
  <2>1. /\ asking /\ call.kind # "get" /\ UNCHANGED <<call, seen, world, failures, known>>
    BY <1>2 DEF Lists, Asks, Ends
  <2>2. CASE IsLast(results \o Page)
    <3>1. PICK shown : shown = SubSeq(results \o Page, 1, Least(call.max, Len(results \o Page)))
      OBVIOUS
    <3>2. /\ ~asking' /\ answer' = [kind |-> IF call.kind = "find" THEN Found(Len(Listed), shown) ELSE "rows",
                                    count |-> Len(Listed), rows |-> shown]
      BY <1>2, <2>2, <3>1 DEF Lists, Ends
    <3>3. CASE call.kind # "find"
      <4>1. LookupsHoldAtOneMoment'
        BY <3>2, <3>3 DEF LookupsHoldAtOneMoment
      <4> QED BY <3>2, <4>1 DEF LookupInv
    <3>4. CASE call.kind = "find"
      <4>1. /\ answer'.kind = "found" => world = {answer'.rows[1]}
            /\ answer'.count = Cardinality(world)
        BY <2>1, <3>1, <3>2, <3>4, FindAnswers
      <4>2. world \in seen
        BY DEF TypeInv
      <4>3. LookupsHoldAtOneMoment'
        BY <2>1, <3>4, <4>1, <4>2 DEF LookupsHoldAtOneMoment
      <4> QED BY <3>2, <4>3 DEF LookupInv
    <3> QED BY <3>3, <3>4
  <2>3. CASE ~IsLast(results \o Page)
    <3>1. call.kind # "find" /\ answer' = answer
      BY <1>2, <2>1, <2>3, FindTakesOnePage DEF Lists
    <3>2. answer'.kind = "none"
      BY <2>1, <3>1 DEF TypeInv, Pending
    <3>3. LookupsHoldAtOneMoment'
      BY <3>2 DEF LookupsHoldAtOneMoment
    <3> QED BY <2>1, <3>1, <3>3 DEF LookupInv
  <2> QED BY <2>2, <2>3
<1>3. CASE Gets
  <2>1. /\ asking /\ call.kind = "get" /\ UNCHANGED <<call, seen, world, failures>>
        /\ world \in seen /\ answer.kind = "none"
    BY <1>3 DEF Gets, Asks, TypeInv, Pending
  <2>2. CASE call.id \in world
    <3>1. call.id \in Sometime /\ Sometime' = Sometime
      BY <2>1, <2>2 DEF Sometime
    <3>2. answer'.kind \in {"none", "found"}
      <4>1. CASE call.fields /\ known = {}
        BY <1>3, <2>1, <2>2, <4>1 DEF Gets
      <4>2. CASE ~(call.fields /\ known = {})
        BY <1>3, <2>2, <4>2 DEF Gets, Ends
      <4> QED BY <4>1, <4>2
    <3>3. LookupsHoldAtOneMoment'
      BY <2>1, <3>1, <3>2 DEF LookupsHoldAtOneMoment
    <3> QED BY <2>1, <3>1, <3>3 DEF LookupInv
  <2>3. CASE call.id \notin world
    <3>1. call.id \notin Throughout /\ Throughout' = Throughout
      BY <2>1, <2>3 DEF Throughout
    <3>2. asking' = FALSE /\ answer'.kind \in {"absent", "error"}
      BY <1>3, <2>3 DEF Gets, Ends
    <3>3. LookupsHoldAtOneMoment'
      BY <2>1, <3>1, <3>2 DEF LookupsHoldAtOneMoment
    <3> QED BY <3>2, <3>3 DEF LookupInv
  <2> QED BY <2>2, <2>3
<1>4. ASSUME NEW status \in Statuses, Fails(status) PROVE LookupInv'
  <2>1. asking /\ call' = call /\ seen' = seen /\ answer.kind = "none" /\ failures' = failures \cup {status}
    BY <1>4 DEF Fails, Asks, TypeInv, Pending
  <2>2. CASE FallsThrough(status)
    <3>1. call.kind = "changes" /\ answer' = answer
      BY <1>4, <2>2 DEF Fails, FallsThrough
    <3>2. LookupsHoldAtOneMoment'
      BY <2>1, <3>1 DEF LookupsHoldAtOneMoment
    <3> QED BY <2>1, <3>1, <3>2 DEF LookupInv
  <2>3. CASE ~FallsThrough(status)
    <3>1. asking' = FALSE /\ (answer'.kind = "error" \/ 200 \in failures')
      BY <1>4, <2>1, <2>3 DEF Fails, Ends
    <3>2. LookupsHoldAtOneMoment'
      BY <3>1 DEF LookupsHoldAtOneMoment
    <3> QED BY <3>1, <3>2 DEF LookupInv
  <2> QED BY <2>2, <2>3
<1>5. CASE UNCHANGED vars
  BY <1>5 DEF vars, progress, LookupInv, LookupsHoldAtOneMoment, Sometime, Throughout
<1> QED BY <1>1, <1>2, <1>3, <1>4, <1>5 DEF Next

\* What find and get_object answer was true at one moment of the call: the
\* object find returns was the only match, an absence or an ambiguity was one,
\* and the object of get_object was there, unless a body was no object (find
\* and get_object, client.py, and the queries of netbox_query).
THEOREM LookupsHoldAtOneMomentAlways == Spec => []LookupsHoldAtOneMoment
<1>1. Init => LookupInv
  <2> SUFFICES ASSUME Init PROVE LookupInv
    OBVIOUS
  <2>1. call.kind = "find" => call.offset = 0
    BY TypeStarts, WorldTyped
  <2>2. answer.kind = "none"
    BY DEF Init, Pending
  <2>3. LookupsHoldAtOneMoment
    BY <2>2 DEF LookupsHoldAtOneMoment
  <2> QED BY <2>1, <2>3 DEF Init, LookupInv
<1>2. TypeInv /\ LookupInv /\ [Next]_vars => TypeInv' /\ LookupInv'
  BY TypeGoesOn, LookupsGoOn
<1>3. LookupInv => LookupsHoldAtOneMoment
  BY DEF LookupInv
<1> QED BY <1>1, <1>2, <1>3, TypeStarts, PTL DEF Spec
-----------------------------------------------------------------------------
(* A listing of a world in motion.                                         *)

Behind(W, k) == {x \in W : Rank(W, x) <= k}
Beyond(W, k) == {x \in W : Rank(W, x) > k}
RowSet(s) == {s[n] : n \in 1..Len(s)}

\* One object more moves at most one object over the line after the first k,
\* and only away from the start of the list; one less, only towards it.
LEMMA OneMoves ==
    ASSUME NEW V \in SUBSET Nat, IsFiniteSet(V), NEW o \in Nat \ V, NEW W, W = V \cup {o}, NEW k \in Nat
    PROVE  /\ Behind(W, k) \cap V \subseteq Behind(V, k)
           /\ \A x, y \in Beyond(W, k) \ Beyond(V, k) : x = y
           /\ Beyond(V, k) \subseteq Beyond(W, k)
           /\ \A x, y \in Behind(V, k) \ Behind(W, k) : x = y
<1>1. W \in SUBSET Nat /\ IsFiniteSet(W) /\ o \in W /\ V \subseteq W
  BY FS_AddElement
<1>2. \A x \in V : Rank(W, x) = IF o <= x THEN Rank(V, x) + 1 ELSE Rank(V, x)
  BY RankShifts
<1>3. /\ \A x \in V : Rank(V, x) \in Nat
      /\ \A x \in W : Rank(W, x) \in Nat
  BY <1>1, RankTyped
<1>0. ASSUME NEW x \in V PROVE /\ Rank(W, x) <= k => Rank(V, x) <= k
                               /\ Rank(V, x) > k => Rank(W, x) > k
  <2>1. Rank(V, x) \in Nat /\ Rank(W, x) = IF o <= x THEN Rank(V, x) + 1 ELSE Rank(V, x)
    BY <1>0, <1>2, <1>3
  <2>2. \A r \in Nat : (r + 1 <= k => r <= k) /\ (r > k => r + 1 > k)
    OBVIOUS
  <2> QED BY <2>1, <2>2
<1>4. Behind(W, k) \cap V \subseteq Behind(V, k)
  BY <1>0 DEF Behind
<1>5. Beyond(V, k) \subseteq Beyond(W, k)
  BY <1>0, <1>1 DEF Beyond
<1>6. ASSUME NEW x \in V, NEW y \in V, Rank(V, x) <= k, Rank(W, x) > k, Rank(V, y) <= k, Rank(W, y) > k
      PROVE  x = y
  <2>1. Rank(V, x) = k /\ Rank(V, y) = k
    BY <1>2, <1>3, <1>6
  <2> QED BY <2>1, RankOne
<1>7. ASSUME NEW y \in V, Rank(V, y) <= k, Rank(W, y) > k
      PROVE  Rank(W, o) <= k
  <2>1. o <= y /\ Rank(W, y) = k + 1 /\ o \in Nat /\ y \in Nat /\ o # y
    BY <1>2, <1>3, <1>7
  <2>2. o < y
    BY <2>1
  <2>3. Rank(W, o) < Rank(W, y)
    BY <1>1, <2>2, RankGrows
  <2>4. Rank(W, o) \in Nat
    BY <1>1, <1>3
  <2>5. \A r \in Nat : r < k + 1 => r <= k
    OBVIOUS
  <2> QED BY <2>1, <2>3, <2>4, <2>5
<1>8. ASSUME NEW x \in Beyond(W, k) \ Beyond(V, k), NEW y \in Beyond(W, k) \ Beyond(V, k) PROVE x = y
  <2>1. /\ x \in W /\ y \in W /\ Rank(W, x) > k /\ Rank(W, y) > k
        /\ x \in V => Rank(V, x) <= k
        /\ y \in V => Rank(V, y) <= k
    BY <1>3 DEF Beyond
  <2>2. CASE x \in V /\ y \in V
    BY <1>6, <2>1, <2>2
  <2>3. CASE x \in V /\ y \notin V
    BY <1>1, <1>3, <1>7, <2>1, <2>3
  <2>4. CASE x \notin V /\ y \in V
    BY <1>1, <1>3, <1>7, <2>1, <2>4
  <2> QED BY <2>1, <2>2, <2>3, <2>4
<1>9. ASSUME NEW x \in Behind(V, k) \ Behind(W, k), NEW y \in Behind(V, k) \ Behind(W, k) PROVE x = y
  <2>1. /\ x \in V /\ y \in V /\ Rank(V, x) <= k /\ Rank(V, y) <= k
        /\ Rank(W, x) > k /\ Rank(W, y) > k
    BY <1>1, <1>3 DEF Behind
  <2> QED BY <1>6, <2>1
<1> QED BY <1>4, <1>5, <1>8, <1>9

LEMMA RowsTyped ==
    ASSUME NEW A, IsFiniteSet(A), NEW s \in Seq(A)
    PROVE  RowSet(s) \subseteq A /\ IsFiniteSet(RowSet(s)) /\ Cardinality(RowSet(s)) \in Nat
<1>1. RowSet(s) \subseteq A
  BY ElementOfSeq DEF RowSet
<1> QED BY <1>1, Fewer

\* A page is what stands between where it starts and where the next one does,
\* every object once.
LEMMA PageCounts ==
    ASSUME NEW W \in SUBSET Nat, IsFiniteSet(W), NEW k \in Nat, NEW t \in Seq(W),
           \A n \in 1..Len(t) : Rank(W, t[n]) = k + n, k + Len(t) <= Cardinality(W) \/ Len(t) = 0
    PROVE  /\ RowSet(t) = {x \in W : k < Rank(W, x) /\ Rank(W, x) <= k + Len(t)}
           /\ IsFiniteSet(RowSet(t)) /\ Cardinality(RowSet(t)) = Len(t) /\ Len(t) \in Nat
<1>1. Len(t) \in Nat /\ \A n \in 1..Len(t) : t[n] \in W
  BY ElementOfSeq
<1>2. RowSet(t) = {x \in W : k < Rank(W, x) /\ Rank(W, x) <= k + Len(t)}
  <2>1. ASSUME NEW x \in RowSet(t) PROVE x \in W /\ k < Rank(W, x) /\ Rank(W, x) <= k + Len(t)
    <3>1. PICK n \in 1..Len(t) : x = t[n]
      BY DEF RowSet
    <3> QED BY <1>1, <3>1
  <2>2. ASSUME NEW x \in W, k < Rank(W, x), Rank(W, x) <= k + Len(t) PROVE x \in RowSet(t)
    <3>1. Rank(W, x) \in Nat
      BY RankTyped
    <3>2. PICK n \in 1..Len(t) : Rank(W, x) = k + n
      <4>1. Rank(W, x) - k \in 1..Len(t) /\ Rank(W, x) = k + (Rank(W, x) - k)
        BY <1>1, <2>2, <3>1
      <4> QED BY <4>1
    <3>3. Rank(W, t[n]) = Rank(W, x) /\ t[n] \in W
      BY <1>1, <3>2
    <3>4. x = t[n]
      BY <3>3, RankOne
    <3> QED BY <3>4 DEF RowSet
  <2> QED BY <2>1, <2>2
<1>3. DEFINE f == [n \in 1..Len(t) |-> t[n]]
<1>4. f \in [1..Len(t) -> RowSet(t)] /\ \A x \in RowSet(t) : \E n \in 1..Len(t) : f[n] = x
  BY DEF RowSet
<1>5. ASSUME NEW a \in 1..Len(t), NEW b \in 1..Len(t), f[a] = f[b] PROVE a = b
  <2>1. k + a = k + b
    BY <1>5
  <2> QED BY <1>1, <2>1
<1>6. f \in Surjection(1..Len(t), RowSet(t)) /\ f \in Injection(1..Len(t), RowSet(t))
  BY <1>4, <1>5 DEF Surjection, Injection, IsInjective
<1>7. IsFiniteSet(1..Len(t)) /\ Cardinality(1..Len(t)) = Len(t)
  <2>1. ASSUME NEW p \in Nat PROVE IsFiniteSet(1..p) /\ Cardinality(1..p) = p
    BY FS_Interval
  <2> QED BY <1>1, <2>1
<1>8. IsFiniteSet(RowSet(t)) /\ Cardinality(RowSet(t)) = Cardinality(1..Len(t))
  BY <1>6, <1>7, FS_Surjection
<1> QED BY <1>1, <1>2, <1>7, <1>8

LEMMA RowsJoined ==
    ASSUME NEW A, NEW s \in Seq(A), NEW t \in Seq(A)
    PROVE  RowSet(s \o t) = RowSet(s) \cup RowSet(t)
<1>1. /\ Len(s) \in Nat /\ Len(t) \in Nat /\ Len(s \o t) = Len(s) + Len(t)
      /\ \A n \in 1..Len(s) : (s \o t)[n] = s[n]
      /\ \A n \in 1..Len(t) : (s \o t)[Len(s) + n] = t[n]
  BY Joined
<1>2. ASSUME NEW x \in RowSet(s \o t) PROVE x \in RowSet(s) \cup RowSet(t)
  <2>1. PICK n \in 1..Len(s \o t) : x = (s \o t)[n]
    BY DEF RowSet
  <2>2. CASE n <= Len(s)
    <3>1. n \in 1..Len(s)
      BY <1>1, <2>2
    <3>2. x = s[n]
      BY <1>1, <2>1, <3>1
    <3> QED BY <3>1, <3>2 DEF RowSet
  <2>3. CASE n > Len(s)
    <3>1. n - Len(s) \in 1..Len(t) /\ n = Len(s) + (n - Len(s))
      BY <1>1, <2>3
    <3>2. x = t[n - Len(s)]
      BY <1>1, <2>1, <3>1
    <3> QED BY <3>1, <3>2 DEF RowSet
  <2> QED BY <1>1, <2>2, <2>3
<1>3. ASSUME NEW x \in RowSet(s) PROVE x \in RowSet(s \o t)
  <2>1. PICK n \in 1..Len(s) : x = s[n]
    BY <1>3 DEF RowSet
  <2>2. n \in 1..Len(s \o t) /\ (s \o t)[n] = x
    BY <1>1, <2>1
  <2> QED BY <2>2 DEF RowSet
<1>4. ASSUME NEW x \in RowSet(t) PROVE x \in RowSet(s \o t)
  <2>1. PICK n \in 1..Len(t) : x = t[n]
    BY <1>4 DEF RowSet
  <2>2. Len(s) + n \in 1..Len(s \o t) /\ (s \o t)[Len(s) + n] = x
    BY <1>1, <2>1
  <2> QED BY <2>2 DEF RowSet
<1> QED BY <1>2, <1>3, <1>4
\* What holds of the rows a listing has when it goes on after them: it has
\* missed no more objects than vanished, and has no more rows than there are
\* different objects in them that will not be listed again, and appeared.
Walked(rows) ==
    /\ RowSet(rows) \subseteq Sometime
    /\ Cardinality((Throughout \cap Behind(world, Len(rows))) \ RowSet(rows)) <= left
    /\ Len(rows) <= came + Cardinality(RowSet(rows) \ Beyond(world, Len(rows)))

DriftInv ==
    /\ asking /\ call.kind # "get" /\ call.offset = 0 =>
          offset = Len(results) /\ Len(results) < Ceiling /\ Walked(results)
    /\ ListingDriftsWithEdits

LEMMA PageWalks ==
    ASSUME TypeInv, offset = Len(results), Walked(results)
    PROVE  Walked(results \o Page)
<1> DEFINE k == Len(results)
           p == Len(Page)
           rows == results \o Page
<1>1. /\ world \in SUBSET Nat /\ IsFiniteSet(world) /\ IsFiniteSet(Objects) /\ world \in SUBSET Objects
      /\ k \in Nat /\ p \in Nat /\ Len(rows) = k + p /\ rows \in Seq(Objects)
      /\ Page \in Seq(world) /\ Page \in Seq(Objects) /\ results \in Seq(Objects)
      /\ left \in Nat /\ came \in Nat /\ world \in seen /\ Cardinality(world) \in Nat
  BY WorldTyped, PageTyped DEF TypeInv
<1>2. /\ \A n \in 1..p : Rank(world, Page[n]) = k + n
      /\ k + p <= Cardinality(world) \/ p = 0
  <2>1. /\ p = IF k >= Cardinality(world) THEN 0 ELSE Least(k + Limit, Cardinality(world)) - k
        /\ \A n \in 1..p : Rank(world, Page[n]) = k + n
    BY PageTyped
  <2>2. Least(k + Limit, Cardinality(world)) \in Nat /\ Least(k + Limit, Cardinality(world)) <= Cardinality(world)
    BY <1>1, WorldTyped DEF Least
  <2> QED BY <1>1, <2>1, <2>2
<1>3. /\ RowSet(Page) = {x \in world : k < Rank(world, x) /\ Rank(world, x) <= k + p}
      /\ IsFiniteSet(RowSet(Page)) /\ Cardinality(RowSet(Page)) = p
  <2>1. ASSUME NEW c \in Nat, \A n \in 1..Len(Page) : Rank(world, Page[n]) = c + n,
               c + Len(Page) <= Cardinality(world) \/ Len(Page) = 0
        PROVE  /\ RowSet(Page) = {x \in world : c < Rank(world, x) /\ Rank(world, x) <= c + Len(Page)}
               /\ IsFiniteSet(RowSet(Page)) /\ Cardinality(RowSet(Page)) = Len(Page)
    <3>1. Page \in Seq(world) /\ world \in SUBSET Nat /\ IsFiniteSet(world)
      BY <1>1
    <3> QED BY <2>1, <3>1, PageCounts
  <2> QED BY <1>1, <1>2, <2>1
<1>4. RowSet(rows) = RowSet(results) \cup RowSet(Page)
  BY <1>1, RowsJoined
<1>5. \A x \in world : Rank(world, x) \in Nat
  BY <1>1, RankTyped
<1>6. /\ IsFiniteSet(RowSet(results)) /\ IsFiniteSet(RowSet(rows))
  BY <1>1, RowsTyped
<1>7. RowSet(rows) \subseteq Sometime
  BY <1>1, <1>3, <1>4 DEF Sometime, Walked
<1> DEFINE missed == (Throughout \cap Behind(world, k)) \ RowSet(results)
           missed2 == (Throughout \cap Behind(world, k + p)) \ RowSet(rows)
           done == RowSet(results) \ Beyond(world, k)
           done2 == RowSet(rows) \ Beyond(world, k + p)
<1>8. missed2 \subseteq missed
  <2>1. ASSUME NEW x \in missed2 PROVE x \in missed
    <3>1. x \in Throughout /\ x \in world /\ Rank(world, x) <= k + p /\ x \notin RowSet(results) /\ x \notin RowSet(Page)
      BY <1>4 DEF Behind
    <3>2. ~(k < Rank(world, x))
      BY <1>3, <3>1
    <3>3. Rank(world, x) <= k
      BY <1>1, <1>5, <3>1, <3>2
    <3> QED BY <3>1, <3>3 DEF Behind
  <2> QED BY <2>1
<1>9. Cardinality(missed2) <= left
  <2>1. IsFiniteSet(missed)
    <3>1. missed \subseteq Objects
      BY DEF Throughout
    <3> QED BY <1>1, <3>1, FS_Subset
  <2>2. Cardinality(missed2) <= Cardinality(missed) /\ Cardinality(missed2) \in Nat /\ Cardinality(missed) \in Nat
    BY <1>8, <2>1, Fewer
  <2>3. Cardinality(missed) <= left
    BY DEF Walked
  <2> QED BY <1>1, <2>2, <2>3
<1>10. done \cup RowSet(Page) \subseteq done2 /\ done \cap RowSet(Page) = {}
  <2>1. \A x \in world : Rank(world, x) > k + p => Rank(world, x) > k
    BY <1>1, <1>5
  <2>2. \A x \in RowSet(Page) : x \in world /\ Rank(world, x) > k /\ ~(Rank(world, x) > k + p)
    <3>1. ASSUME NEW x \in RowSet(Page) PROVE x \in world /\ Rank(world, x) > k /\ ~(Rank(world, x) > k + p)
      <4>1. x \in world /\ k < Rank(world, x) /\ Rank(world, x) <= k + p
        BY <1>3, <3>1
      <4>2. Rank(world, x) \in Nat
        BY <1>5, <4>1
      <4> QED BY <1>1, <4>1, <4>2
    <3> QED BY <3>1
  <2> QED BY <1>4, <2>1, <2>2 DEF Beyond
<1>11. Len(rows) <= came + Cardinality(done2)
  <2>1. IsFiniteSet(done) /\ IsFiniteSet(done2) /\ Cardinality(done) \in Nat
    BY <1>6, Fewer
  <2>2. Cardinality(done \cup RowSet(Page)) = Cardinality(done) + p
    <3>1. Cardinality(done \cup RowSet(Page)) = Cardinality(done) + Cardinality(RowSet(Page)) - Cardinality(done \cap RowSet(Page))
      BY <1>3, <2>1, FS_Union
    <3>2. Cardinality(done \cap RowSet(Page)) = 0
      BY <1>10, FS_EmptySet
    <3> QED BY <1>1, <1>3, <2>1, <3>1, <3>2
  <2>3. /\ Cardinality(done \cup RowSet(Page)) <= Cardinality(done2)
        /\ Cardinality(done2) \in Nat
    BY <1>10, <2>1, Fewer
  <2>4. k <= came + Cardinality(done)
    BY DEF Walked
  <2> QED BY <1>1, <2>1, <2>2, <2>3, <2>4
<1> QED BY <1>1, <1>7, <1>9, <1>11 DEF Walked

\* A listing that is whole has the list behind it.
LEMMA WholeIsPast ==
    ASSUME TypeInv, offset = Len(results), Len(results) < Ceiling, IsLast(results \o Page), NEW shown,
           shown = SubSeq(results \o Page, 1, Least(call.max, Len(results \o Page))),
           Len(shown) < call.max \/ Len(Listed) <= Len(shown)
    PROVE  shown = results \o Page /\ Len(shown) >= Cardinality(world)
<1> DEFINE k == Len(results)
           p == Len(Page)
           rows == results \o Page
           size == Cardinality(world)
           most == Least(call.max, Len(rows))
<1>1. /\ k \in Nat /\ p \in Nat /\ size \in Nat /\ Len(rows) = k + p /\ rows \in Seq(Objects)
      /\ Len(Listed) = size /\ call.max \in Nat /\ Limit \in Nat /\ Limit >= 1
      /\ p = IF k >= size THEN 0 ELSE Least(k + Limit, size) - k
  BY WorldTyped, PageTyped DEF TypeInv
<1>2. most \in Nat /\ most <= k + p /\ most <= call.max /\ (most = call.max \/ most = k + p)
  <2>1. most = IF call.max < k + p THEN call.max ELSE k + p
    BY <1>1 DEF Least
  <2> HIDE DEF most, k, p
  <2> QED BY <1>1, <2>1
<1>3. shown \in Seq(Objects) /\ Len(shown) = most /\ \A n \in 1..most : shown[n] = rows[n]
  <2>1. shown = SubSeq(rows, 1, most) /\ most <= Len(rows)
    BY <1>1, <1>2
  <2>2. /\ SubSeq(rows, 1, most) \in Seq(Objects) /\ Len(SubSeq(rows, 1, most)) = most
        /\ \A n \in 1..most : SubSeq(rows, 1, most)[n] = rows[n]
    <3>1. rows \in Seq(Objects) /\ most \in Nat
      BY <1>1, <1>2
    <3> HIDE DEF most, rows
    <3> QED BY <2>1, <3>1, FirstOf, Zenon
  <2> HIDE DEF most, rows
  <2> QED BY <2>1, <2>2
<1>4. /\ k < size => p <= size - k
      /\ k >= size => p = 0
      /\ Page = <<>> => k >= size
      /\ ~HasNext => k + p >= size
  <2>1. Page = <<>> => p = 0
    OBVIOUS
  <2>2. HasNext <=> k + Limit < size
    BY <1>1 DEF HasNext
  <2> QED BY <1>1, <2>1, <2>2 DEF Least
<1>5. most = k + p /\ k + p >= size
  <2>1. CASE size <= most
    <3>1. most = k + p
      <4>1. CASE k < size
        BY <1>1, <1>2, <1>4, <2>1, <4>1
      <4>2. CASE k >= size
        <5>1. p = 0 /\ k < Ceiling
          BY <1>4, <4>2
        <5>2. call.max = 0 \/ call.max > k
          BY <1>1, <5>1 DEF Ceiling
        <5>3. call.max = 0 => k = 0
          BY <1>1, <5>1 DEF Ceiling
        <5> QED BY <1>1, <1>2, <5>1, <5>2, <5>3
      <4> QED BY <1>1, <4>1, <4>2
    <3> QED BY <1>1, <1>2, <2>1, <3>1
  <2>2. CASE most < call.max
    <3>1. most = k + p
      BY <1>1, <1>2, <2>2
    <3>2. ~HasNext \/ Page = <<>>
      BY <1>1, <2>2, <3>1 DEF IsLast
    <3> QED BY <1>1, <1>4, <3>1, <3>2
  <2> QED BY <1>1, <1>3, <2>1, <2>2
<1>6. shown = rows
  <2>1. Len(shown) = Len(rows) /\ \A n \in 1..Len(shown) : shown[n] = rows[n]
    BY <1>1, <1>3, <1>5
  <2> HIDE DEF rows
  <2> QED BY <1>1, <1>3, <2>1, SeqEqual
<1> QED BY <1>1, <1>3, <1>5, <1>6
LEMMA NothingWalked == ASSUME TypeInv PROVE Walked(<<>>)
<1>1. /\ world \in SUBSET Nat /\ IsFiniteSet(world) /\ came \in Nat /\ left \in Nat
  BY WorldTyped DEF TypeInv
<1>2. RowSet(<<>>) = {} /\ Len(<<>>) = 0
  BY DEF RowSet
<1>3. Behind(world, 0) = {}
  <2>1. \A x \in world : Rank(world, x) \in 1..Cardinality(world) /\ Cardinality(world) \in Nat
    BY <1>1, RankTyped
  <2>2. \A x \in world : ~(Rank(world, x) <= 0)
    BY <2>1
  <2> QED BY <2>2 DEF Behind
<1>4. Cardinality({}) = 0 /\ (Throughout \cap {}) \ {} = {} /\ {} \ Beyond(world, 0) = {}
  BY FS_EmptySet
<1>5. 0 <= left /\ 0 <= came + 0
  BY <1>1
<1> QED BY <1>2, <1>3, <1>4, <1>5 DEF Walked

\* Once the whole list is behind it, what was walked is what the caller sees.
LEMMA WholeDrifts ==
    ASSUME TypeInv, NEW rows, rows = results \o Page, Walked(rows), Len(rows) >= Cardinality(world)
    PROVE  /\ RowSet(rows) \subseteq Sometime
           /\ Cardinality(Throughout \ RowSet(rows)) <= left
           /\ Len(rows) - Cardinality(RowSet(rows)) <= came
<1>1. /\ world \in SUBSET Nat /\ IsFiniteSet(world) /\ IsFiniteSet(Objects) /\ world \in seen
      /\ rows \in Seq(Objects) /\ Len(rows) \in Nat /\ came \in Nat
  BY WorldTyped, PageTyped DEF TypeInv
<1>2. \A x \in world : Rank(world, x) \in 1..Cardinality(world) /\ Cardinality(world) \in Nat
  BY <1>1, RankTyped
<1>3. \A x \in world : Rank(world, x) <= Len(rows) /\ ~(Rank(world, x) > Len(rows))
  BY <1>1, <1>2
<1>4. Behind(world, Len(rows)) = world /\ Beyond(world, Len(rows)) = {}
  BY <1>3 DEF Behind, Beyond
<1>5. Throughout \cap world = Throughout
  BY <1>1 DEF Throughout
<1>6. RowSet(rows) \ {} = RowSet(rows)
  OBVIOUS
<1>7. Cardinality(RowSet(rows)) \in Nat
  BY <1>1, RowsTyped
<1>8. /\ RowSet(rows) \subseteq Sometime /\ Cardinality(Throughout \ RowSet(rows)) <= left
      /\ Len(rows) <= came + Cardinality(RowSet(rows))
  BY <1>4, <1>5, <1>6 DEF Walked
<1> QED BY <1>1, <1>7, <1>8

LEMMA EditWalks == ASSUME TypeInv, Walked(results), Edit PROVE Walked(results)'
<1> DEFINE k == Len(results)
<1>1. PICK o \in Objects :
         \/ o \notin world /\ world' = world \cup {o} /\ came' = came + 1 /\ UNCHANGED left
         \/ o \in world /\ world' = world \ {o} /\ left' = left + 1 /\ UNCHANGED came
  BY DEF Edit
<1>2. results' = results /\ seen' = seen \cup {world'}
  BY DEF Edit, progress
<1>3. /\ world \in SUBSET Nat /\ IsFiniteSet(world) /\ IsFiniteSet(Objects) /\ o \in Nat /\ k \in Nat
      /\ came \in Nat /\ left \in Nat /\ world \in seen /\ results \in Seq(Objects)
  BY WorldTyped DEF TypeInv
<1>4. PICK got : got = RowSet(results)
  OBVIOUS
<1>5. IsFiniteSet(got)
  BY <1>3, <1>4, RowsTyped
<1>6. PICK stay, stay2 : stay = Throughout /\ stay2 = Throughout'
  OBVIOUS
<1>7. stay2 \subseteq stay /\ stay2 \subseteq world /\ stay \subseteq world /\ stay2 \subseteq world'
  BY <1>2, <1>3, <1>6 DEF Throughout
<1>8. Sometime \subseteq Sometime'
  BY <1>2 DEF Sometime
<1>9. PICK W, W2 : W = world /\ W2 = world'
  OBVIOUS
<1> DEFINE missed == (stay \cap Behind(W, k)) \ got
           missed2 == (stay2 \cap Behind(W2, k)) \ got
           done == got \ Beyond(W, k)
           done2 == got \ Beyond(W2, k)
<1>10. /\ got \subseteq Sometime /\ Cardinality(missed) <= left
       /\ k <= came + Cardinality(done)
  BY <1>4, <1>6, <1>9 DEF Walked
<1>11. IsFiniteSet(W) /\ W \in SUBSET Nat
  BY <1>3, <1>9
<1>12. IsFiniteSet(missed) /\ IsFiniteSet(done) /\ Cardinality(missed) \in Nat /\ Cardinality(done) \in Nat
  <2>1. missed \subseteq W /\ done \subseteq got
    BY DEF Behind
  <2> QED BY <1>5, <1>11, <2>1, Fewer
<1>13. Cardinality(missed2) <= left' /\ k <= came' + Cardinality(done2)
  <2>1. CASE o \notin world /\ world' = world \cup {o} /\ came' = came + 1 /\ UNCHANGED left
    <3>1. /\ Behind(W2, k) \cap W \subseteq Behind(W, k)
          /\ \A x, y \in Beyond(W2, k) \ Beyond(W, k) : x = y
      <4>1. W2 = W \cup {o} /\ o \in Nat \ W
        BY <1>3, <1>9, <2>1
      <4>2. k \in Nat
        BY <1>3
      <4> HIDE DEF k
      <4> QED BY <1>11, <4>1, <4>2, OneMoves
    <3>2. missed2 \subseteq missed
      BY <1>7, <1>9, <3>1
    <3>3. Cardinality(missed2) <= Cardinality(missed) /\ Cardinality(missed2) \in Nat
      BY <1>12, <3>2, Fewer
    <3>4. \A x, y \in done \ done2 : x = y
      BY <3>1
    <3>5. Cardinality(done) <= Cardinality(done2) + 1 /\ Cardinality(done2) \in Nat
      <4>1. IsFiniteSet(done2) /\ Cardinality(done2) \in Nat
        BY <1>5, Fewer
      <4> HIDE DEF done, done2
      <4> QED BY <3>4, <4>1, AtMostOneMore
    <3> HIDE DEF missed, missed2, done, done2
    <3> QED BY <1>3, <1>10, <1>12, <2>1, <3>3, <3>5
  <2>2. CASE o \in world /\ world' = world \ {o} /\ left' = left + 1 /\ UNCHANGED came
    <3>1. /\ Beyond(W2, k) \subseteq Beyond(W, k)
          /\ \A x, y \in Behind(W2, k) \ Behind(W, k) : x = y
          /\ IsFiniteSet(W2)
      <4>1. W = W2 \cup {o} /\ o \in Nat \ W2 /\ W2 \in SUBSET Nat /\ W2 \subseteq W
        BY <1>3, <1>9, <2>2
      <4>2. IsFiniteSet(W2)
        BY <1>11, <4>1, FS_Subset
      <4>3. k \in Nat
        BY <1>3
      <4> HIDE DEF k
      <4> QED BY <4>1, <4>2, <4>3, OneMoves
    <3>2. \A x, y \in missed2 \ missed : x = y
      BY <1>7, <3>1
    <3>3. IsFiniteSet(missed2) /\ Cardinality(missed2) <= Cardinality(missed) + 1 /\ Cardinality(missed2) \in Nat
      <4>1. IsFiniteSet(missed2) /\ Cardinality(missed2) <= Cardinality(missed) + 1
        <5> HIDE DEF missed, missed2
        <5> QED BY <1>12, <3>2, AtMostOneMore
      <4> QED BY <4>1, FS_CardinalityType
    <3>4. Cardinality(done) <= Cardinality(done2) /\ Cardinality(done2) \in Nat
      <4>1. IsFiniteSet(done2) /\ done \subseteq done2
        <5>1. done2 \subseteq got
          OBVIOUS
        <5> QED BY <1>5, <3>1, <5>1, Fewer
      <4> QED BY <4>1, Fewer
    <3> HIDE DEF missed, missed2, done, done2
    <3> QED BY <1>3, <1>10, <1>12, <2>2, <3>3, <3>4
  <2> QED BY <1>1, <2>1, <2>2
<1>14. /\ RowSet(results') \subseteq Sometime'
       /\ Cardinality((Throughout' \cap Behind(world', Len(results'))) \ RowSet(results')) <= left'
       /\ Len(results') <= came' + Cardinality(RowSet(results') \ Beyond(world', Len(results')))
  <2>1. RowSet(results') = got /\ Len(results') = k
    BY <1>2, <1>4
  <2> QED BY <1>6, <1>8, <1>9, <1>10, <1>13, <2>1
<1> QED BY <1>14 DEF Walked

LEMMA DriftsGoOn == ASSUME TypeInv, DriftInv, [Next]_vars PROVE DriftInv'
<1>1. CASE Edit
  <2>1. /\ asking /\ UNCHANGED <<call, asking, results, offset, answer>> /\ answer.kind = "none"
    BY <1>1 DEF Edit, progress, TypeInv, Pending
  <2>2. ListingDriftsWithEdits'
    BY <2>1 DEF ListingDriftsWithEdits
  <2>3. Ceiling' = Ceiling
    BY <2>1 DEF Ceiling
  <2>4. ASSUME call.kind # "get", call.offset = 0
        PROVE  offset' = Len(results') /\ Len(results') < Ceiling' /\ Walked(results)'
    <3>1. offset = Len(results) /\ Len(results) < Ceiling /\ Walked(results)
      BY <2>1, <2>4 DEF DriftInv
    <3>2. Walked(results)'
      BY <1>1, <3>1, EditWalks
    <3> QED BY <2>1, <2>3, <3>1, <3>2
  <2> QED BY <2>1, <2>2, <2>4 DEF DriftInv
<1>2. CASE Lists
  <2>1. asking /\ call.kind # "get" /\ UNCHANGED <<call, world, seen, came, left>> /\ answer.kind = "none"
    BY <1>2 DEF Lists, Asks, TypeInv, Pending
  <2>2. ASSUME call.offset = 0
        PROVE  offset = Len(results) /\ Len(results) < Ceiling /\ Walked(results \o Page)
    BY <2>1, <2>2, PageWalks DEF DriftInv
  <2>3. CASE IsLast(results \o Page)
    <3>1. PICK shown : shown = SubSeq(results \o Page, 1, Least(call.max, Len(results \o Page)))
      OBVIOUS
    <3>2. /\ ~asking' /\ answer' = [kind |-> IF call.kind = "find" THEN Found(Len(Listed), shown) ELSE "rows",
                                    count |-> Len(Listed), rows |-> shown]
      BY <1>2, <2>3, <3>1 DEF Lists, Ends
    <3>3. ASSUME call.offset = 0, Len(shown) < call.max \/ Len(Listed) <= Len(shown)
          PROVE  /\ RowSet(shown) \subseteq Sometime
                 /\ Cardinality(Throughout \ RowSet(shown)) <= left
                 /\ Len(shown) - Cardinality(RowSet(shown)) <= came
      <4>1. offset = Len(results) /\ Len(results) < Ceiling /\ Walked(results \o Page)
        BY <2>2, <3>3
      <4>2. shown = results \o Page /\ Len(shown) >= Cardinality(world)
        BY <2>3, <3>1, <3>3, <4>1, WholeIsPast
      <4>3. Walked(shown)
        BY <4>1, <4>2
      <4> QED BY <4>2, <4>3, WholeDrifts
    <3>4. Shown' = RowSet(shown)
      <4>1. answer'.rows = shown
        BY <3>2
      <4>2. DOMAIN shown = 1..Len(shown)
        <5>1. PICK rows : rows = results \o Page
          OBVIOUS
        <5>2. rows \in Seq(Objects) /\ Len(rows) \in Nat /\ call.max \in Nat
          BY <5>1, PageTyped, WorldTyped
        <5>3. PICK most : most = Least(call.max, Len(rows))
          OBVIOUS
        <5>4. most \in Nat /\ most <= Len(rows)
          BY <5>2, <5>3 DEF Least
        <5>5. shown = SubSeq(rows, 1, most)
          BY <3>1, <5>1, <5>3
        <5>6. shown \in Seq(Objects)
          BY <5>2, <5>4, <5>5, FirstOf
        <5> QED BY <5>6
      <4> QED BY <4>1, <4>2 DEF Shown, RowSet
    <3>5. Sometime' = Sometime /\ Throughout' = Throughout
      BY <2>1 DEF Sometime, Throughout
    <3>6. ListingDriftsWithEdits'
      BY <2>1, <3>2, <3>3, <3>4, <3>5 DEF ListingDriftsWithEdits
    <3> QED BY <3>2, <3>6 DEF DriftInv
  <2>4. CASE ~IsLast(results \o Page)
    <3>1. results' = results \o Page /\ offset' = offset + Len(Page) /\ UNCHANGED <<asking, answer>>
      BY <1>2, <2>4 DEF Lists, NextOffset
    <3>2. ListingDriftsWithEdits'
      BY <2>1, <3>1 DEF ListingDriftsWithEdits
    <3>3. ASSUME call.offset = 0
          PROVE  offset' = Len(results') /\ Len(results') < Ceiling' /\ Walked(results)'
      <4>1. offset' = Len(results')
        BY <2>2, <3>1, <3>3, PageTyped
      <4>2. Len(results \o Page) < call.max /\ Ceiling' = Ceiling /\ (Len(results \o Page) < call.max => Len(results \o Page) < Ceiling)
        BY <2>1, <2>4, PageTyped, WorldTyped DEF IsLast, Ceiling
      <4>3. Walked(results)'
        BY <2>1, <2>2, <3>1, <3>3 DEF Walked, Throughout, Sometime
      <4> QED BY <3>1, <4>1, <4>2, <4>3
    <3> QED BY <2>1, <3>2, <3>3 DEF DriftInv
  <2> QED BY <2>3, <2>4
<1>3. CASE Gets
  <2>1. call.kind = "get" /\ call' = call /\ answer'.kind # "rows"
    <3>1. asking /\ call.kind = "get" /\ call' = call /\ answer.kind = "none"
      BY <1>3 DEF Gets, Asks, TypeInv, Pending
    <3>2. answer' = answer \/ answer'.kind \in {"found", "absent", "error"}
      BY <1>3 DEF Gets, Ends
    <3> QED BY <3>1, <3>2
  <2> QED BY <2>1 DEF DriftInv, ListingDriftsWithEdits
<1>4. ASSUME NEW status \in Statuses, Fails(status) PROVE DriftInv'
  <2>1. asking /\ UNCHANGED <<call, world, seen, came, left>> /\ answer.kind = "none"
    BY <1>4 DEF Fails, Asks, TypeInv, Pending
  <2>2. CASE FallsThrough(status)
    <3>1. results' = <<>> /\ offset' = call.offset /\ answer' = answer
      BY <1>4, <2>2 DEF Fails
    <3>2. Ceiling' = Ceiling /\ 0 < Ceiling
      BY <2>1, WorldTyped DEF Ceiling
    <3>3. Walked(<<>>)
      BY NothingWalked
    <3>4. Walked(results)'
      BY <2>1, <3>1, <3>3 DEF Walked, Throughout, Sometime
    <3>5. ListingDriftsWithEdits'
      BY <2>1, <3>1 DEF ListingDriftsWithEdits
    <3>6. Len(results') = 0
      BY <3>1
    <3> QED BY <2>1, <3>1, <3>2, <3>4, <3>5, <3>6 DEF DriftInv
  <2>3. CASE ~FallsThrough(status)
    <3>1. asking' = FALSE /\ answer'.kind \in {"absent", "found", "error"}
      BY <1>4, <2>3 DEF Fails, Ends
    <3> QED BY <3>1 DEF DriftInv, ListingDriftsWithEdits
  <2> QED BY <2>2, <2>3
<1>5. CASE UNCHANGED vars
  <2>1. UNCHANGED <<world, call, asking, offset, results, answer, seen, came, left>>
    BY <1>5 DEF vars, progress
  <2> QED BY <2>1 DEF DriftInv, ListingDriftsWithEdits, Walked, Throughout, Sometime, Shown, Ceiling
<1> QED BY <1>1, <1>2, <1>3, <1>4, <1>5 DEF Next

\* A listing from the start that is not cut short, taken page by page while
\* others change NetBox: nothing in it was never there, no more objects that
\* were always there are missing than vanished meanwhile, and no more rows
\* repeat than appeared.  This is for any page sizes, NetBox's own limit among
\* them (list, client.py).
THEOREM ListingDriftsWithEditsAlways == Spec => []ListingDriftsWithEdits
<1>1. Init => DriftInv
  <2> SUFFICES ASSUME Init PROVE DriftInv
    OBVIOUS
  <2>1. TypeInv /\ answer.kind = "none" /\ results = <<>> /\ Len(results) = 0 /\ offset = call.offset
    BY TypeStarts DEF Init, Pending
  <2>2. 0 < Ceiling
    BY <2>1, WorldTyped DEF Ceiling
  <2>3. Walked(results)
    BY <2>1, NothingWalked
  <2> QED BY <2>1, <2>2, <2>3 DEF DriftInv, ListingDriftsWithEdits
<1>2. TypeInv /\ DriftInv /\ [Next]_vars => TypeInv' /\ DriftInv'
  BY TypeGoesOn, DriftsGoOn
<1>3. DriftInv => ListingDriftsWithEdits
  BY DEF DriftInv
<1> QED BY <1>1, <1>2, <1>3, TypeStarts, PTL DEF Spec
=================================================================================
