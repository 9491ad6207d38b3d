----------------------------- MODULE RulesProofs -----------------------------
(***************************************************************************)
(* Theorems about the ordered lists of rules, for any number of rules,     *)
(* lists and requests in flight.                                           *)
(***************************************************************************)
EXTENDS Rules, FiniteSetTheorems, FunctionTheorems, SequenceTheorems, TLAPS

-----------------------------------------------------------------------------
(* Sorting. *)

\* The members of a finite set with distinct keys come in the order of their keys, each once.
LEMMA Sorted ==
    ASSUME NEW S, IsFiniteSet(S), NEW key, \A x \in S : key[x] \in Int,
           \A x, y \in S : key[x] = key[y] => x = y
    PROVE  /\ Cardinality(S) \in Nat
           /\ InOrder(S, key) \in [1 .. Cardinality(S) -> S]
           /\ \A i, j \in 1 .. Cardinality(S) :
                 i < j => key[InOrder(S, key)[i]] < key[InOrder(S, key)[j]]
           /\ \A x \in S : \E i \in 1 .. Cardinality(S) : InOrder(S, key)[i] = x
  <1> DEFINE n == Cardinality(S)
             below(x) == {y \in S : key[y] < key[x]}
             rank(x) == Cardinality(below(x))
             r == [x \in S |-> rank(x)]
             place(i) == CHOOSE x \in S : Cardinality({y \in S : key[y] < key[x]}) = i - 1
  <1>1. n \in Nat
    BY FS_CardinalityType
  <1>2. ASSUME NEW x \in S, NEW T \in SUBSET S, x \notin T
        PROVE  IsFiniteSet(T) /\ Cardinality(T) \in Nat /\ Cardinality(T) < n
    <2>1. IsFiniteSet(T) /\ Cardinality(T) <= n /\ (n = Cardinality(T) => S = T)
      BY FS_Subset
    <2>2. Cardinality(T) \in Nat
      BY <2>1, FS_CardinalityType
    <2> QED
      BY <1>1, <1>2, <2>1, <2>2
  <1>3. \A x \in S : rank(x) \in 0 .. n - 1
    <2> SUFFICES ASSUME NEW x \in S
                 PROVE  rank(x) \in 0 .. n - 1
      OBVIOUS
    <2>1. below(x) \in SUBSET S /\ x \notin below(x)
      OBVIOUS
    <2> HIDE DEF below
    <2> QED
      BY <1>1, <1>2, <2>1
  <1>4. \A x, y \in S : key[x] < key[y] => rank(x) < rank(y)
    <2> SUFFICES ASSUME NEW x \in S, NEW y \in S, key[x] < key[y]
                 PROVE  rank(x) < rank(y)
      OBVIOUS
    <2>1. /\ below(x) \in SUBSET below(y) /\ x \in below(y) /\ x \notin below(x)
          /\ below(y) \in SUBSET S
      OBVIOUS
    <2> HIDE DEF below
    <2>2. IsFiniteSet(below(y))
      BY <2>1, FS_Subset
    <2>3. Cardinality(below(x)) <= Cardinality(below(y))
      BY <2>1, <2>2, FS_Subset
    <2>4. Cardinality(below(x)) # Cardinality(below(y))
      BY <2>1, <2>2, FS_Subset
    <2>5. rank(x) \in Int /\ rank(y) \in Int
      BY <1>1, <1>3
    <2> QED
      BY <2>3, <2>4, <2>5
  <1> HIDE DEF rank, below
  <1>5. \A x, y \in S : rank(x) = rank(y) => x = y
    <2> SUFFICES ASSUME NEW x \in S, NEW y \in S, rank(x) = rank(y), key[x] # key[y]
                 PROVE  FALSE
      OBVIOUS
    <2>1. key[x] < key[y] \/ key[y] < key[x]
      OBVIOUS
    <2> QED
      BY <1>1, <1>3, <1>4, <2>1
  <1>6. r \in Injection(S, 0 .. n - 1)
    BY <1>3, <1>5 DEF Injection, IsInjective
  <1>7. IsFiniteSet(0 .. n - 1) /\ Cardinality(0 .. n - 1) = n
    BY <1>1, FS_Interval
  <1>8. r \in Surjection(S, 0 .. n - 1)
    BY <1>6, <1>7, FS_Injection
  <1>9. \A i \in 1 .. n : \E x \in S : rank(x) = i - 1
    <2> SUFFICES ASSUME NEW i \in 1 .. n
                 PROVE  \E x \in S : rank(x) = i - 1
      OBVIOUS
    <2>1. i - 1 \in 0 .. n - 1
      BY <1>1
    <2> QED
      BY <1>8, <2>1 DEF Surjection
  <1>10. \A i \in 1 .. n : place(i) \in S /\ rank(place(i)) = i - 1
    BY <1>9 DEF rank, below
  <1>11. InOrder(S, key) = [i \in 1 .. n |-> place(i)]
    BY DEF InOrder
  <1> HIDE DEF place
  <1>12. ASSUME NEW i \in 1 .. n, NEW j \in 1 .. n, i < j
         PROVE  key[place(i)] < key[place(j)]
    <2>1. place(i) \in S /\ place(j) \in S /\ rank(place(i)) < rank(place(j))
      BY <1>1, <1>10, <1>12
    <2>2. key[place(i)] # key[place(j)]
      BY <1>10, <1>3, <2>1
    <2>3. ~(key[place(j)] < key[place(i)])
      BY <1>1, <1>3, <1>4, <2>1
    <2> QED
      BY <2>1, <2>2, <2>3
  <1>13. ASSUME NEW x \in S
         PROVE  \E i \in 1 .. n : place(i) = x
    <2> DEFINE i == rank(x) + 1
    <2>1. i \in 1 .. n /\ i - 1 = rank(x)
      BY <1>1, <1>3
    <2> HIDE DEF i
    <2>2. place(i) \in S /\ rank(place(i)) = rank(x)
      BY <1>10, <2>1
    <2>3. place(i) = x
      BY <1>5, <2>2
    <2> QED
      BY <2>1, <2>3
  <1> QED
    BY <1>1, <1>10, <1>11, <1>12, <1>13

\* A finite set of integers has a greatest.
LEMMA Greatest ==
    ASSUME NEW S, IsFiniteSet(S), S \subseteq Int, S # {}
    PROVE  Max(S) \in S /\ \A x \in S : Max(S) >= x
  <1> DEFINE id == [x \in S |-> x]
             n == Cardinality(S)
             s == InOrder(S, id)
  <1>1. (\A x \in S : id[x] \in Int) /\ (\A x, y \in S : id[x] = id[y] => x = y)
    OBVIOUS
  <1> HIDE DEF id
  <1>2. /\ n \in Nat /\ s \in [1 .. n -> S]
        /\ \A i, j \in 1 .. n : i < j => id[s[i]] < id[s[j]]
        /\ \A x \in S : \E i \in 1 .. n : s[i] = x
    BY ONLY <1>1, IsFiniteSet(S), Sorted
  <1> HIDE DEF n, s
  <1>3. \A x \in S : id[x] = x
    BY DEF id
  <1>4. n \in 1 .. n
    <2>1. PICK x \in S : TRUE
      OBVIOUS
    <2>2. PICK i \in 1 .. n : s[i] = x
      BY <1>2
    <2> QED
      BY <1>2
  <1>5. ASSUME NEW x \in S
        PROVE  s[n] >= x
    <2> PICK i \in 1 .. n : s[i] = x
      BY <1>2
    <2>1. CASE i = n
      BY <2>1
    <2>2. CASE i # n
      <3>1. i < n
        BY <2>2, <1>2
      <3> QED
        <4>1. id[s[i]] < id[s[n]]
          BY <1>2, <1>4, <3>1
        <4>2. s[n] \in S /\ id[s[n]] = s[n] /\ id[s[i]] = x
          BY <1>2, <1>3, <1>4
        <4>3. x \in Int /\ s[n] \in Int /\ x < s[n]
          BY <4>1, <4>2
        <4> QED
          BY <4>3
    <2> QED
      BY <2>1, <2>2
  <1>6. \E x \in S : \A y \in S : x >= y
    BY <1>2, <1>4, <1>5
  <1> QED
    BY <1>6 DEF Max
-----------------------------------------------------------------------------
(* The renumbering. *)

Statements ==
    [kind : {"insert", "update", "delete"}, rule : Rules, priority : Int \cup {Same},
     enabled : BOOLEAN \cup {Same}]

\* Every rule has a primary key of its own.
LEMMA Keys == \A x, y \in Rules : Key[x] \in Int /\ (Key[x] = Key[y] => x = y)
  <1> DEFINE n == Cardinality(Rules)
  <1>1. IsFiniteSet(Rules) /\ n \in Nat
    BY RulesAssumption, FS_CardinalityType
  <1>2. Ids \in [1 .. n -> Rules] /\ \A i, j \in 1 .. n : i # j => Ids[i] # Ids[j]
    BY RulesAssumption DEF SetToSeqs
  <1>3. Ids \in Injection(1 .. n, Rules)
    BY <1>2 DEF Injection, IsInjective
  <1>4. Cardinality(1 .. n) = n
    BY <1>1, FS_Interval
  <1> HIDE DEF n
  <1>5. Ids \in Surjection(1 .. n, Rules)
    <2>1. Cardinality(1 .. n) = Cardinality(Rules)
      BY <1>4 DEF n
    <2> QED
      BY <1>1, <1>3, <2>1, FS_Injection
  <1>6. \A x \in Rules : \E i \in 1 .. n : Ids[i] = x
    BY <1>5 DEF Surjection
  <1>7. \A x \in Rules : Place(Ids, x) \in 1 .. n /\ Ids[Place(Ids, x)] = x
    BY <1>2, <1>6 DEF Place
  <1> QED
    BY <1>1, <1>7 DEF Key

\* The place of a rule in a sequence that names it once.
LEMMA Placed ==
    ASSUME NEW order \in Seq(Rules), IsInjective(order)
    PROVE  /\ ToSet(order) \subseteq Rules
           /\ \A x \in ToSet(order) : /\ Place(order, x) \in 1 .. Len(order)
                                      /\ order[Place(order, x)] = x
           /\ \A i \in DOMAIN order : order[i] \in ToSet(order) /\ Place(order, order[i]) = i
  <1>1. order \in [1 .. Len(order) -> Rules]
    OBVIOUS
  <1>2. \A x \in ToSet(order) : \E i \in DOMAIN order : order[i] = x
    BY DEF ToSet
  <1>3. \A x \in ToSet(order) : Place(order, x) \in DOMAIN order /\ order[Place(order, x)] = x
    BY <1>2 DEF Place
  <1>4. \A i \in DOMAIN order : order[i] \in ToSet(order)
    BY DEF ToSet
  <1> QED
    BY <1>1, <1>3, <1>4 DEF IsInjective, ToSet

\* A pass renumbers every rule of the order once, in the order of the keys.
LEMMA PassIs ==
    ASSUME NEW order \in Seq(Rules), IsInjective(order), NEW final \in BOOLEAN
    PROVE  /\ Pass(order, final) \in Seq(Statements)
           /\ \A i \in 1 .. Len(Pass(order, final)) :
                 LET s == Pass(order, final)[i]
                 IN  /\ s.kind = "update" /\ s.rule \in ToSet(order) /\ s.enabled = Same
                     /\ s.priority = Number(Place(order, s.rule), final)
           /\ \A i, j \in 1 .. Len(Pass(order, final)) :
                 i < j => Key[Pass(order, final)[i].rule] < Key[Pass(order, final)[j].rule]
           /\ \A x \in ToSet(order) :
                 \E i \in 1 .. Len(Pass(order, final)) : Pass(order, final)[i].rule = x
  <1> DEFINE S == ToSet(order)
             n == Cardinality(S)
             ids == InOrder(S, Key)
             s == [i \in 1 .. n |-> Update(ids[i], Number(Place(order, ids[i]), final), Same)]
  <1>1. S \subseteq Rules /\ IsFiniteSet(S)
    BY Placed, RulesAssumption, FS_Subset
  <1>2. /\ n \in Nat /\ ids \in [1 .. n -> S]
        /\ \A i, j \in 1 .. n : i < j => Key[ids[i]] < Key[ids[j]]
        /\ \A x \in S : \E i \in 1 .. n : ids[i] = x
    <2>1. \A x, y \in S : Key[x] \in Int /\ (Key[x] = Key[y] => x = y)
      BY <1>1, Keys
    <2>2. IsFiniteSet(S)
      BY <1>1
    <2> HIDE DEF S
    <2> QED
      BY ONLY <2>1, <2>2, Sorted
  <1>3. Pass(order, final) = s
    BY <1>2 DEF Pass
  <1>4. \A x \in S : Place(order, x) \in Nat
    BY Placed
  <1> HIDE DEF ids, n, S
  <1>5. \A i \in 1 .. n : s[i] \in Statements
    BY <1>1, <1>2, <1>4 DEF Update, Statements, Number, STEP
  <1>6. s \in Seq(Statements) /\ Len(s) = n
    BY <1>2, <1>5
  <1>7. \A i \in 1 .. n :
           s[i] = [kind |-> "update", rule |-> ids[i],
                   priority |-> Number(Place(order, ids[i]), final), enabled |-> Same]
    BY DEF Update
  <1> HIDE DEF s
  <1> QED
    BY <1>2, <1>3, <1>6, <1>7 DEF S

\* What follows the first statement.
LEMMA Rest ==
    ASSUME NEW s \in Seq(Statements), s # <<>>
    PROVE  /\ Len(s) \in Nat \ {0} /\ Head(s) = s[1] /\ Head(s) \in Statements
           /\ Tail(s) \in Seq(Statements) /\ Len(Tail(s)) = Len(s) - 1
           /\ \A i \in 1 .. Len(Tail(s)) : i + 1 \in 1 .. Len(s) /\ Tail(s)[i] = s[i + 1]
           /\ \A i \in 1 .. Len(s) : i = 1 \/ (i - 1 \in 1 .. Len(Tail(s)) /\ s[i] = Tail(s)[i - 1])
           /\ Len(s) <= 1 => Tail(s) = <<>>
  <1>1. Len(s) \in Nat \ {0}
    BY EmptySeq
  <1>2. /\ Head(s) \in Statements /\ Tail(s) \in Seq(Statements)
        /\ Len(Tail(s)) = Len(s) - 1 /\ \A i \in 1 .. Len(Tail(s)) : Tail(s)[i] = s[i + 1]
    BY HeadTailProperties
  <1>3. Head(s) = s[1]
    OBVIOUS
  <1>4. \A i \in 1 .. Len(s) : i = 1 \/ i - 1 \in 1 .. Len(Tail(s))
    BY <1>1, <1>2
  <1>5. \A i \in 1 .. Len(Tail(s)) : i + 1 \in 1 .. Len(s)
    BY <1>1, <1>2
  <1>6. Len(s) <= 1 => Tail(s) = <<>>
    <2> DEFINE t == Tail(s)
    <2>1. t \in Seq(Statements) /\ Len(t) = Len(s) - 1
      BY <1>2
    <2> HIDE DEF t, Statements
    <2>2. Len(s) <= 1 => Len(t) = 0
      BY <1>1, <2>1
    <2>3. Len(s) <= 1 => t = <<>>
      BY <2>1, <2>2, EmptySeq
    <2> QED
      BY <2>3 DEF t
  <1> HIDE DEF Statements
  <1> QED
    BY <1>1, <1>2, <1>3, <1>4, <1>5, <1>6

-----------------------------------------------------------------------------
(* The invariant: what each request has yet to do and what it has written. *)

Places == {"idle", "reading", "checking", "writing", "indexing", "presets"}
Columns == {"priority", "enabled"}
Inserting == {"create", "append", "append_again"}
Evaluating == {"ingest", "replay"}

\* The variables that the invariant is about have their types.
TypeInv ==
    /\ rows \in [Rules -> Rows \cup {NoRow}]
    /\ written \in [Requests -> [Rules -> Rows \cup {NoRow, Same}]]
    /\ request \in [Requests -> RequestType \cup {NoRequest}]
    /\ pc \in [Requests -> Places]
    /\ todo \in [Requests -> Seq(Statements)]
    /\ overtaken \in [Requests -> Nat]
    /\ started \in 0 .. MaxRequests

Busy(p) == request[p] # NoRequest
IsReorder(p) == Busy(p) /\ request[p].op = "reorder"
Inserts(p) == Busy(p) /\ request[p].op \in Inserting

\* A row is one of its rule, and a committed number is not negative.
OfRule(x, row) == row.list = ListOf[x] /\ row.severity = SeverityOf[x]
RowsInv == \A x \in Rules : rows[x] # NoRow => OfRule(x, rows[x]) /\ rows[x].priority \in Nat

NothingWritten(p) == \A x \in Rules : written[p][x] = Same

\* The number that p is entering in the index is the one of a row it has written.
EnteringInv(p) ==
    pc[p] = "indexing" =>
        /\ todo[p] # <<>> /\ Head(todo[p]).priority # Same
        /\ written[p][Head(todo[p]).rule] \notin {Same, NoRow}
        /\ written[p][Head(todo[p]).rule].priority = Head(todo[p]).priority

\* Where a request of each kind stands.
Shape(p) ==
    /\ pc[p] = "idle" <=> request[p] = NoRequest
    /\ pc[p] \notin {"writing", "indexing"} => NothingWritten(p)
    /\ pc[p] \in {"idle", "reading", "presets"} => todo[p] = <<>>
    /\ pc[p] = "reading" => request[p].op \in {"append", "append_again"}
    /\ pc[p] = "checking" => /\ request[p].op \in {"create", "update"}
                             /\ todo[p] # <<>> /\ Head(todo[p]).priority # Same
    /\ Busy(p) => (request[p].op \in Evaluating <=> pc[p] = "presets")
    /\ Busy(p) /\ request[p].op \in Evaluating => request[p].rules = <<>>
    /\ Busy(p) /\ request[p].op \notin Evaluating \cup {"reorder"} =>
          /\ Len(request[p].rules) = 1 /\ Len(todo[p]) <= 1
          /\ pc[p] = "writing" /\ todo[p] # <<>> => NothingWritten(p)

FirstNumber(r, x) == Number(Place(r.rules, x), FALSE)
FinalNumber(r, x) == Number(Place(r.rules, x), TRUE)

\* A statement is one its request asks for.
Asked(r, s) ==
    /\ s.rule \in ToSet(r.rules)
    /\ r.op \in Inserting => s.kind = "insert" /\ s.priority \in Nat /\ s.enabled = TRUE
    /\ r.op = "update" => /\ s.kind = "update"
                          /\ s.priority # Same => s.priority \in Nat /\ "priority" \in r.columns
                          /\ s.enabled # Same => "enabled" \in r.columns
    /\ r.op = "delete" => s.kind = "delete" /\ s.priority = Same
    /\ r.op = "reorder" => /\ s.kind = "update" /\ s.enabled = Same
                           /\ s.priority \in {FirstNumber(r, s.rule), FinalNumber(r, s.rule)}
AskedInv(p) == \A i \in 1 .. Len(todo[p]) : Asked(request[p], todo[p][i])

\* What a request has written of a rule whose committed row is old.
Done(r, x, old, new) ==
    /\ x \in ToSet(r.rules)
    /\ r.op \in Inserting <=> old = NoRow
    /\ new = NoRow <=> r.op = "delete"
    /\ new # NoRow => OfRule(x, new)
    /\ new # NoRow /\ r.op # "reorder" => new.priority \in Nat
    /\ new # NoRow /\ r.op = "reorder" => new.priority \in {FirstNumber(r, x), FinalNumber(r, x)}
    /\ new # NoRow /\ r.op \notin Inserting =>
          \A c \in Columns : new[c] # old[c] => c \in r.columns
DoneInv(p) ==
    \A x \in Rules : written[p][x] # Same =>
        Busy(p) /\ Done(request[p], x, rows[x], written[p][x])

\* A rule that is being inserted is nobody else's.
FreshInv(p) ==
    Inserts(p) =>
        \A x \in ToSet(request[p].rules) :
            /\ rows[x] = NoRow
            /\ \A q \in Requests : q # p /\ Busy(q) => x \notin ToSet(request[q].rules)

\* How far a renumbering is: the first pass, in the order of the keys, then the second.
IsFinal(s) == s.priority > 0
FinalsLast(left) ==
    \A i, j \in 1 .. Len(left) : i < j /\ IsFinal(left[i]) => IsFinal(left[j])
KeysRise(left) ==
    \A i, j \in 1 .. Len(left) :
        i < j /\ ~IsFinal(left[j]) => Key[left[i].rule] < Key[left[j].rule]
\* A rule that p has written comes before those that its first pass has not reached.
FirstPass(p) ==
    \A x \in Rules, i \in 1 .. Len(todo[p]) :
        written[p][x] # Same /\ ~IsFinal(todo[p][i]) =>
            \/ Key[x] < Key[todo[p][i].rule]
            \/ i = 1 /\ x = todo[p][1].rule /\ pc[p] = "indexing"
FirstDone(p) ==
    \A x \in ToSet(request[p].rules) :
        \/ rows[x] = NoRow \/ written[p][x] # Same
        \/ \E i \in 1 .. Len(todo[p]) : todo[p][i].rule = x /\ ~IsFinal(todo[p][i])
LastDone(p) ==
    \A x \in ToSet(request[p].rules) :
        \/ rows[x] = NoRow
        \/ \E i \in 1 .. Len(todo[p]) : todo[p][i].rule = x /\ IsFinal(todo[p][i])
        \/ written[p][x] # Same /\ written[p][x].priority = FinalNumber(request[p], x)
ReorderInv(p) ==
    IsReorder(p) =>
        /\ IsInjective(request[p].rules) /\ request[p].columns = {"priority"}
        /\ pc[p] \in {"writing", "indexing"}
        /\ FinalsLast(todo[p]) /\ KeysRise(todo[p])
        /\ FirstPass(p) /\ FirstDone(p) /\ LastDone(p)

\* What holds of one transaction.
TxInv(p) ==
    Shape(p) /\ EnteringInv(p) /\ AskedInv(p) /\ DoneInv(p) /\ FreshInv(p) /\ ReorderInv(p)

\* No two transactions have written the same row.
RowLocks == \A p, q \in Requests, x \in Rules :
                p # q => written[p][x] = Same \/ written[q][x] = Same

\* The unique index: no list has a number twice, as it is committed, as a transaction sees
\* it but for the number it is entering, and between two transactions.
Settled(p, x) == View(p, x) # NoRow /\ ~Entering(p, x)
Entered(p, x) == written[p][x] \notin {Same, NoRow} /\ ~Entering(p, x)
UniqueAmong(x, y, one, other) ==
    x # y /\ ListOf[x] = ListOf[y] => one.priority # other.priority
Committed ==
    \A x, y \in Rules : rows[x] # NoRow /\ rows[y] # NoRow => UniqueAmong(x, y, rows[x], rows[y])
Seen(p) ==
    \A x, y \in Rules :
        Settled(p, x) /\ Settled(p, y) => UniqueAmong(x, y, View(p, x), View(p, y))
Between(p, q) ==
    \A x, y \in Rules :
        Entered(p, x) /\ Entered(q, y) => UniqueAmong(x, y, written[p][x], written[q][y])
IndexInv ==
    /\ Committed
    /\ \A p \in Requests : Seen(p)
    /\ \A p, q \in Requests : p # q => Between(p, q)

\* The inductive invariant.
Inv ==
    /\ TypeInv /\ RowsInv /\ RowLocks /\ IndexInv
    /\ \A p \in Requests : TxInv(p)

\* The commits that a rule to be appended has met, unless its number is still the last.
NumberIsLast(p) ==
    \A y \in RowsOf(ListOf[Head(todo[p]).rule]) : rows[y].priority < Head(todo[p]).priority
AppendInv(p) ==
    Busy(p) =>
        /\ request[p].op = "append_again" => overtaken[p] >= 1
        /\ pc[p] \in {"writing", "indexing"} /\ todo[p] # <<>> =>
              /\ request[p].op = "append" => overtaken[p] >= 1 \/ NumberIsLast(p)
              /\ request[p].op = "append_again" => overtaken[p] >= 2 \/ NumberIsLast(p)

\* The invariant holds at the start.
LEMMA InitInv == Init => Inv
  <1> SUFFICES ASSUME Init
               PROVE  Inv
    OBVIOUS
  <1>1. TypeInv
    <2>2. rows \in [Rules -> Rows \cup {NoRow}]
      BY RulesAssumption DEF Init
    <2>3. MaxRequests \in Nat
      BY RulesAssumption
    <2> HIDE DEF Statements, Rows, RequestType
    <2> QED
      BY <2>2, <2>3 DEF Init, TypeInv, Places
  <1>2. RowsInv
    BY RulesAssumption DEF Init, RowsInv, OfRule, Row
  <1>3. NoRow # Same
    BY NamesAssumption
  <1>4. RowLocks /\ IndexInv
    BY <1>3, RulesAssumption
    DEF Init, RowLocks, IndexInv, Committed, Seen, Between, Settled, Entered, Entering, View,
        UniqueAmong
  <1>5. \A p \in Requests : TxInv(p)
    BY DEF Init, TxInv, Shape, EnteringInv, AskedInv, DoneInv, FreshInv, ReorderInv, Busy,
           Inserts, IsReorder, NothingWritten
  <1> QED
    BY <1>1, <1>2, <1>4, <1>5 DEF Inv

-----------------------------------------------------------------------------
(* Steps that commit nothing. *)

\* Only transaction p moves, and no committed row changes.
Alone(p) ==
    /\ rows' = rows
    /\ \A q \in Requests \ {p} : /\ written'[q] = written[q] /\ request'[q] = request[q]
                                 /\ pc'[q] = pc[q] /\ todo'[q] = todo[q]

\* p names no rule that another request is about to insert.
Apart(p) ==
    Busy(p) => \A q \in Requests \ {p} : Inserts(q) =>
        \A x \in ToSet(request[p].rules) : x \notin ToSet(request[q].rules)

\* What DoneInv says of the next state, request by request.
LEMMA DoneNext ==
    ASSUME NEW p
    PROVE  DoneInv(p)' <=>
              \A x \in Rules : written'[p][x] # Same =>
                  Busy(p)' /\ Done(request'[p], x, rows'[x], written'[p][x])
  BY DEF DoneInv, Done, OfRule, FirstNumber, FinalNumber

\* The same of LastDone.
LEMMA LastDoneNext ==
    ASSUME NEW p
    PROVE  LastDone(p)' <=>
              \A x \in ToSet(request'[p].rules) :
                  \/ rows'[x] = NoRow
                  \/ \E i \in 1 .. Len(todo'[p]) :
                         todo'[p][i].rule = x /\ IsFinal(todo'[p][i])
                  \/ /\ written'[p][x] # Same
                     /\ written'[p][x].priority = FinalNumber(request'[p], x)
  BY DEF LastDone, IsFinal, FinalNumber

\* What the invariant says of the others stays.
LEMMA OthersKeep ==
    ASSUME Inv, NEW p \in Requests, Alone(p), Apart(p)', NEW q \in Requests, q # p
    PROVE  TxInv(q)' /\ (Seen(q))'
  <1>1. /\ rows' = rows /\ written'[q] = written[q] /\ request'[q] = request[q]
        /\ pc'[q] = pc[q] /\ todo'[q] = todo[q]
    BY DEF Alone
  <1>2. TxInv(q) /\ Seen(q)
    BY DEF Inv, IndexInv
  <1>3. Shape(q)' /\ EnteringInv(q)' /\ AskedInv(q)'
    BY <1>1, <1>2
    DEF TxInv, Shape, EnteringInv, AskedInv, Asked, NothingWritten, Busy, FirstNumber, FinalNumber
  <1>4. DoneInv(q)'
    BY <1>1, <1>2
    DEF TxInv, DoneInv, Done, OfRule, Busy, FirstNumber, FinalNumber
  <1>5. ReorderInv(q)'
    <2>1. /\ FinalsLast(todo[q])' = FinalsLast(todo[q]) /\ KeysRise(todo[q])' = KeysRise(todo[q])
          /\ IsReorder(q)' = IsReorder(q)
      BY <1>1 DEF FinalsLast, KeysRise, IsFinal, IsReorder, Busy
    <2>2. FirstPass(q)' = FirstPass(q)
      BY <1>1 DEF FirstPass, IsFinal
    <2>3. FirstDone(q)' = FirstDone(q) /\ LastDone(q)' = LastDone(q)
      BY <1>1 DEF FirstDone, LastDone, IsFinal, FinalNumber
    <2> QED
      BY <1>1, <1>2, <2>1, <2>2, <2>3 DEF TxInv, ReorderInv
  <1>6. FreshInv(q)'
    <2> SUFFICES ASSUME Inserts(q)', NEW x \in ToSet(request'[q].rules)
                 PROVE  /\ rows'[x] = NoRow
                        /\ \A o \in Requests : o # q /\ Busy(o)' => x \notin ToSet(request'[o].rules)
      BY DEF FreshInv
    <2>1. Inserts(q) /\ x \in ToSet(request[q].rules)
      BY <1>1 DEF Inserts, Busy
    <2>2. rows[x] = NoRow /\ \A o \in Requests : o # q /\ Busy(o) => x \notin ToSet(request[o].rules)
      BY <1>2, <2>1 DEF TxInv, FreshInv
    <2>3. ASSUME NEW o \in Requests, o # q, Busy(o)'
          PROVE  x \notin ToSet(request'[o].rules)
      <3>1. CASE o = p
        BY <2>3, <3>1 DEF Apart
      <3>2. CASE o # p
        BY <2>2, <2>3, <3>2 DEF Alone, Busy
      <3> QED
        BY <3>1, <3>2
    <2> QED
      BY <1>1, <2>2, <2>3
  <1>7. Seen(q)'
    BY <1>1, <1>2 DEF Seen, Settled, View, Entering, UniqueAmong
  <1> QED
    BY <1>3, <1>4, <1>5, <1>6, <1>7 DEF TxInv

\* So it is enough to look at what p has written.
LEMMA AloneKeepsInv ==
    ASSUME Inv, NEW p \in Requests, Alone(p), TypeInv', TxInv(p)', Apart(p)',
           \A q \in Requests \ {p}, x \in Rules : written'[p][x] = Same \/ written[q][x] = Same,
           Seen(p)', \A q \in Requests \ {p} : Between(p, q)'
    PROVE  Inv'
  <1>1. rows' = rows /\ \A q \in Requests \ {p} : written'[q] = written[q]
    BY DEF Alone
  <1>2. \A q \in Requests : TxInv(q)' /\ Seen(q)'
    BY OthersKeep
  <1>3. RowsInv'
    BY <1>1 DEF Inv, RowsInv, OfRule
  <1>4. RowLocks'
    BY <1>1 DEF Inv, RowLocks
  <1>5. Committed'
    BY <1>1 DEF Inv, IndexInv, Committed, UniqueAmong
  <1>6. ASSUME NEW o \in Requests, NEW q \in Requests, o # q
        PROVE  Between(o, q)'
    <2>1. CASE o = p
      BY <1>6, <2>1
    <2>2. CASE q = p
      <3>1. Between(q, o)'
        BY <1>6, <2>2
      <3> QED
        BY <3>1 DEF Between, UniqueAmong
    <2>3. CASE o # p /\ q # p
      <3>1. Between(o, q)
        BY <1>6 DEF Inv, IndexInv
      <3>2. /\ written'[q] = written[q] /\ pc'[q] = pc[q] /\ todo'[q] = todo[q]
            /\ written'[o] = written[o] /\ pc'[o] = pc[o] /\ todo'[o] = todo[o]
        BY <2>3 DEF Alone
      <3> QED
        BY <3>1, <3>2 DEF Between, Entered, Entering, UniqueAmong
    <2> QED
      BY <2>1, <2>2, <2>3
  <1> QED
    BY <1>2, <1>3, <1>4, <1>5, <1>6 DEF Inv, IndexInv

\* A transaction that keeps what it has written and enters no number keeps the index.
LEMMA QuietIndex ==
    ASSUME Inv, NEW p \in Requests, Alone(p), UNCHANGED written,
           pc[p] # "indexing", pc'[p] # "indexing"
    PROVE  /\ \A q \in Requests \ {p}, x \in Rules : written'[p][x] = Same \/ written[q][x] = Same
           /\ Seen(p)' /\ \A q \in Requests \ {p} : Between(p, q)'
  <1>1. /\ \A q \in Requests \ {p}, x \in Rules : written[p][x] = Same \/ written[q][x] = Same
        /\ Seen(p) /\ \A q \in Requests \ {p} : Between(p, q)
    BY DEF Inv, RowLocks, IndexInv
  <1>2. Seen(p)'
    BY <1>1 DEF Alone, Seen, Settled, View, Entering, UniqueAmong
  <1>3. ASSUME NEW q \in Requests \ {p}
        PROVE  Between(p, q)'
    BY <1>1 DEF Alone, Between, Entered, Entering, UniqueAmong
  <1> QED
    BY <1>1, <1>2, <1>3

\* The end of a transaction without its writes.
LEMMA FinishKeepsInv ==
    ASSUME Inv, NEW p \in Requests, Finish(p), UNCHANGED <<rows, overtaken, started>>
    PROVE  Inv'
  <1>1. TypeInv
    BY DEF Inv
  <1>2. /\ written'[p] = [x \in Rules |-> Same] /\ request'[p] = NoRequest
        /\ pc'[p] = "idle" /\ todo'[p] = <<>>
    BY <1>1 DEF Finish, Go, TypeInv
  <1>3. Alone(p)
    BY <1>1 DEF Finish, Go, TypeInv, Alone
  <1>4. TypeInv'
    BY <1>1 DEF Finish, Go, TypeInv, Places
  <1>5. TxInv(p)'
    BY <1>2
    DEF TxInv, Shape, EnteringInv, AskedInv, DoneInv, FreshInv, ReorderInv, Busy,
        Inserts, IsReorder, NothingWritten
  <1>6. Apart(p)'
    BY <1>2 DEF Apart, Busy
  <1>7. Seen(p)'
    <2>1. Committed /\ rows' = rows
      BY DEF Inv, IndexInv
    <2> QED
      BY <1>2, <2>1 DEF Seen, Settled, View, Committed, UniqueAmong
  <1>8. \A q \in Requests \ {p} : Between(p, q)'
    BY <1>2 DEF Between, Entered
  <1>9. \A q \in Requests \ {p}, x \in Rules : written'[p][x] = Same \/ written[q][x] = Same
    BY <1>2
  <1> QED
    BY <1>3, <1>4, <1>5, <1>6, <1>7, <1>8, <1>9, AloneKeepsInv

\* A request that arrives.
LEMMA BeginKeepsInv ==
    ASSUME Inv, NEW p \in Requests, NEW new \in RequestType, NEW place \in Places,
           NEW statements \in Seq(Statements), Begin(p, new, place, statements),
           place \notin {"idle", "indexing"},
           Shape(p)', AskedInv(p)', FreshInv(p)', ReorderInv(p)', Apart(p)'
    PROVE  Inv'
  <1>1. TypeInv
    BY DEF Inv
  <1>2. /\ request'[p] = new /\ pc'[p] = place /\ todo'[p] = statements
        /\ written' = written /\ pc[p] = "idle"
    BY <1>1 DEF Begin, Go, TypeInv
  <1>3. Alone(p)
    BY <1>1 DEF Begin, Go, TypeInv, Alone
  <1>4. TypeInv'
    <2>1. started' \in 0 .. MaxRequests
      BY <1>1, RulesAssumption DEF Begin, TypeInv
    <2> HIDE DEF Statements, RequestType, Rows, Places
    <2> QED
      BY <1>1, <2>1 DEF Begin, Go, TypeInv
  <1>5. NothingWritten(p)
    BY <1>2 DEF Inv, TxInv, Shape
  <1>6. EnteringInv(p)' /\ DoneInv(p)'
    BY <1>2, <1>5 DEF EnteringInv, DoneInv, NothingWritten
  <1>7. TxInv(p)'
    BY <1>6 DEF TxInv
  <1> QED
    BY <1>2, <1>3, <1>4, <1>7, QuietIndex, AloneKeepsInv

-----------------------------------------------------------------------------
(* The requests. *)

\* A request that names one rule.
LEMMA OneRule ==
    ASSUME NEW x \in Rules, NEW op \in {"create", "append", "append_again", "update", "delete"},
           NEW columns, columns \subseteq Columns
    PROVE  /\ ToSet(<<x>>) = {x} /\ Len(<<x>>) = 1
           /\ Request(op, <<x>>, columns) \in RequestType
  <1>1. Len(<<x>>) = 1 /\ <<x>>[1] = x /\ DOMAIN <<x>> = 1 .. 1
    OBVIOUS
  <1>2. ToSet(<<x>>) = {x}
    BY <1>1 DEF ToSet
  <1>3. Request(op, <<x>>, columns) \in RequestType
    BY DEF Request, RequestType, Columns
  <1> QED
    BY <1>1, <1>2, <1>3

\* It has at most one statement.
LEMMA OneStatement ==
    ASSUME NEW s \in Statements
    PROVE  /\ <<s>> \in Seq(Statements) /\ Len(<<s>>) = 1 /\ <<s>>[1] = s /\ Head(<<s>>) = s
           /\ <<s>> # <<>>
  OBVIOUS

\* A rule that is created is one nobody has.
LEMMA CreateKeepsInv ==
    ASSUME Inv, NEW p \in Requests, NEW x \in Rules, NEW n \in Numbers \cup {Same},
           create_severity_rule(p, x, n)
    PROVE  Inv'
  <1>1. rows[x] = NoRow /\ \A q \in Requests : Busy(q) => x \notin ToSet(request[q].rules)
    BY DEF create_severity_rule, Fresh, Busy
  <1>2. TypeInv
    BY DEF Inv
  <1>3. CASE n = Same
    <2> DEFINE new == Request("append", <<x>>, {})
    <2>1. Begin(p, new, "reading", <<>>)
      BY <1>3 DEF create_severity_rule
    <2>2. new \in RequestType /\ new # NoRequest /\ new.op = "append" /\ new.rules = <<x>>
      <3>1. new \in RequestType
        BY OneRule
      <3> QED
        BY <3>1, NamesAssumption DEF Request
    <2>3. ToSet(<<x>>) = {x} /\ Len(<<x>>) = 1
      BY DEF ToSet
    <2> HIDE DEF new
    <2>4. /\ request'[p] = new /\ pc'[p] = "reading" /\ todo'[p] = <<>> /\ rows' = rows
          /\ written' = written /\ pc[p] = "idle" /\ Alone(p)
      BY <1>2, <2>1 DEF Begin, Go, TypeInv, Alone
    <2>5. NothingWritten(p)'
      BY <2>4 DEF Inv, TxInv, Shape, NothingWritten
    <2>6. Shape(p)' /\ AskedInv(p)' /\ ReorderInv(p)'
      BY <2>2, <2>3, <2>4, <2>5 DEF Shape, AskedInv, ReorderInv, IsReorder, Busy, Evaluating
    <2>7. FreshInv(p)' /\ Apart(p)'
      BY <1>1, <2>2, <2>3, <2>4 DEF FreshInv, Apart, Inserts, Busy, Alone
    <2>8. <<>> \in Seq(Statements)
      OBVIOUS
    <2> QED
      BY <2>1, <2>2, <2>6, <2>7, <2>8, BeginKeepsInv DEF Places
  <1>4. CASE n # Same
    <2> DEFINE new == Request("create", <<x>>, {})
               s == Insert(x, n)
    <2>1. Begin(p, new, "checking", <<s>>)
      BY <1>4 DEF create_severity_rule
    <2>2. /\ s \in Statements /\ s.kind = "insert" /\ s.rule = x /\ s.priority = n
          /\ s.enabled = TRUE /\ n \in Nat
      <3>1. n \in Nat /\ n \in Int \cup {Same}
        BY <1>4, RulesAssumption
      <3>2. TRUE \in BOOLEAN \cup {Same}
        OBVIOUS
      <3>3. s = [kind |-> "insert", rule |-> x, priority |-> n, enabled |-> TRUE]
        BY DEF Insert
      <3> QED
        BY <3>1, <3>2, <3>3 DEF Statements
    <2> HIDE DEF s
    <2>3. /\ new \in RequestType /\ new # NoRequest /\ new.op = "create" /\ new.rules = <<x>>
          /\ ToSet(<<x>>) = {x} /\ Len(<<x>>) = 1
          /\ <<s>> \in Seq(Statements) /\ Len(<<s>>) = 1 /\ <<s>>[1] = s /\ Head(<<s>>) = s
      <3>1. new \in RequestType /\ ToSet(<<x>>) = {x} /\ Len(<<x>>) = 1
        BY OneRule
      <3>2. new # NoRequest
        BY <3>1, NamesAssumption
      <3> QED
        BY <2>2, <3>1, <3>2, OneStatement DEF Request
    <2> HIDE DEF new
    <2>4. /\ request'[p] = new /\ pc'[p] = "checking" /\ todo'[p] = <<s>> /\ rows' = rows
          /\ written' = written /\ pc[p] = "idle" /\ Alone(p)
      BY <1>2, <2>1 DEF Begin, Go, TypeInv, Alone
    <2>5. NothingWritten(p)'
      BY <2>4 DEF Inv, TxInv, Shape, NothingWritten
    <2>6. Shape(p)' /\ ReorderInv(p)'
      BY <1>4, <2>2, <2>3, <2>4, <2>5 DEF Shape, ReorderInv, IsReorder, Busy, Evaluating
    <2>7. FreshInv(p)' /\ Apart(p)'
      BY <1>1, <2>3, <2>4 DEF FreshInv, Apart, Inserts, Busy, Alone
    <2>8. AskedInv(p)'
      BY <2>2, <2>3, <2>4 DEF AskedInv, Asked
    <2> QED
      BY <2>1, <2>3, <2>6, <2>7, <2>8, BeginKeepsInv DEF Places
  <1> QED
    BY <1>3, <1>4

\* Who changes or deletes a rule has seen it: it is no rule that is being inserted.
LEMMA NotInserted ==
    ASSUME Inv, NEW p \in Requests, NEW x \in Rules, rows[x] # NoRow, Alone(p),
           ToSet(request'[p].rules) = {x}, request'[p].op \notin Inserting
    PROVE  FreshInv(p)' /\ Apart(p)'
  <1>1. \A q \in Requests : Inserts(q) => x \notin ToSet(request[q].rules)
    BY DEF Inv, TxInv, FreshInv
  <1> QED
    BY <1>1 DEF FreshInv, Apart, Inserts, Busy, Alone

\* A PATCH of a rule begins with the statements it asks for.
LEMMA UpdateKeepsInv ==
    ASSUME Inv, NEW p \in Requests, NEW x \in Rules, NEW n \in Numbers \cup {Same},
           NEW e \in BOOLEAN \cup {Same}, update_severity_rule(p, x, n, e)
    PROVE  Inv'
  <1> DEFINE m == IF n = rows[x].priority THEN Same ELSE n
             f == IF e = rows[x].enabled THEN Same ELSE e
             columns == {c \in {"priority", "enabled"} :
                            IF c = "priority" THEN m # Same ELSE f # Same}
             new == Request("update", <<x>>, columns)
             s == Update(x, m, f)
             place == IF m = Same THEN "writing" ELSE "checking"
             statements == IF columns = {} THEN <<>> ELSE <<s>>
  <1>1. rows[x] # NoRow /\ Begin(p, new, place, statements)
    BY DEF update_severity_rule
  <1>2. TypeInv
    BY DEF Inv
  <1>3. m \in Nat \cup {Same} /\ f \in BOOLEAN \cup {Same}
    BY RulesAssumption
  <1>4. "priority" \in columns <=> m # Same
    OBVIOUS
  <1>5. "enabled" \in columns <=> f # Same
    OBVIOUS
  <1>6. columns \in SUBSET Columns
    BY DEF Columns
  <1>7. m # Same => columns # {}
    BY <1>4
  <1> HIDE DEF m, f, columns
  <1>8. /\ s \in Statements /\ s.kind = "update" /\ s.rule = x /\ s.priority = m
        /\ s.enabled = f
    BY <1>3 DEF Update, Statements
  <1> HIDE DEF s
  <1>9. /\ new \in RequestType /\ new # NoRequest /\ new.op = "update" /\ new.rules = <<x>>
        /\ new.columns = columns /\ ToSet(<<x>>) = {x} /\ Len(<<x>>) = 1
        /\ <<s>> \in Seq(Statements) /\ Len(<<s>>) = 1 /\ <<s>>[1] = s /\ Head(<<s>>) = s
    <2>1. new \in RequestType /\ ToSet(<<x>>) = {x} /\ Len(<<x>>) = 1
      BY <1>6, OneRule
    <2>2. new # NoRequest
      BY <2>1, NamesAssumption
    <2> QED
      BY <1>8, <2>1, <2>2, OneStatement DEF Request
  <1>10. /\ statements \in Seq(Statements) /\ Len(statements) <= 1
         /\ \A i \in 1 .. Len(statements) : statements[i] = s
         /\ m # Same => statements # <<>> /\ Head(statements) = s
    BY <1>7, <1>9
  <1>11. place \in {"writing", "checking"} /\ (place = "checking" <=> m # Same)
    OBVIOUS
  <1> HIDE DEF new, statements, place
  <1>12. /\ request'[p] = new /\ pc'[p] = place /\ todo'[p] = statements /\ rows' = rows
         /\ written' = written /\ pc[p] = "idle" /\ Alone(p)
    BY <1>1, <1>2 DEF Begin, Go, TypeInv, Alone
  <1>13. NothingWritten(p)'
    BY <1>12 DEF Inv, TxInv, Shape, NothingWritten
  <1>14. Shape(p)' /\ ReorderInv(p)'
    BY <1>8, <1>9, <1>10, <1>11, <1>12, <1>13 DEF Shape, ReorderInv, IsReorder, Busy, Evaluating
  <1>15. FreshInv(p)' /\ Apart(p)'
    BY <1>1, <1>9, <1>12, NotInserted DEF Inserting
  <1>16. AskedInv(p)'
    BY <1>3, <1>4, <1>5, <1>8, <1>9, <1>10, <1>12 DEF AskedInv, Asked, Inserting
  <1> QED
    BY <1>1, <1>9, <1>10, <1>11, <1>14, <1>15, <1>16, BeginKeepsInv DEF Places

\* A DELETE begins with its one statement.
LEMMA DeleteKeepsInv ==
    ASSUME Inv, NEW p \in Requests, NEW x \in Rules, delete_severity_rule(p, x)
    PROVE  Inv'
  <1> DEFINE new == Request("delete", <<x>>, {})
             s == Delete(x)
  <1>1. rows[x] # NoRow /\ Begin(p, new, "writing", <<s>>)
    BY DEF delete_severity_rule
  <1>2. TypeInv
    BY DEF Inv
  <1>3. s \in Statements /\ s.kind = "delete" /\ s.rule = x /\ s.priority = Same
    BY DEF Delete, Statements
  <1> HIDE DEF s
  <1>4. /\ new \in RequestType /\ new # NoRequest /\ new.op = "delete" /\ new.rules = <<x>>
        /\ ToSet(<<x>>) = {x} /\ Len(<<x>>) = 1
        /\ <<s>> \in Seq(Statements) /\ Len(<<s>>) = 1 /\ <<s>>[1] = s
    <2>1. new \in RequestType /\ ToSet(<<x>>) = {x} /\ Len(<<x>>) = 1
      BY OneRule
    <2>2. new # NoRequest
      BY <2>1, NamesAssumption
    <2> QED
      BY <1>3, <2>1, <2>2, OneStatement DEF Request
  <1> HIDE DEF new
  <1>5. /\ request'[p] = new /\ pc'[p] = "writing" /\ todo'[p] = <<s>> /\ rows' = rows
        /\ written' = written /\ pc[p] = "idle" /\ Alone(p)
    BY <1>1, <1>2 DEF Begin, Go, TypeInv, Alone
  <1>6. NothingWritten(p)'
    BY <1>5 DEF Inv, TxInv, Shape, NothingWritten
  <1>7. Shape(p)' /\ ReorderInv(p)'
    BY <1>4, <1>5, <1>6 DEF Shape, ReorderInv, IsReorder, Busy, Evaluating
  <1>8. FreshInv(p)' /\ Apart(p)'
    BY <1>1, <1>4, <1>5, NotInserted DEF Inserting
  <1>9. AskedInv(p)'
    BY <1>3, <1>4, <1>5 DEF AskedInv, Asked, Inserting
  <1> QED
    BY <1>1, <1>4, <1>7, <1>8, <1>9, BeginKeepsInv DEF Places

\* The statements of a renumbering: every rule in each pass, the final numbers last.
LEMMA RenumberIs ==
    ASSUME NEW order \in Seq(Rules), IsInjective(order)
    PROVE  /\ Renumber(order) \in Seq(Statements)
           /\ \A i \in 1 .. Len(Renumber(order)) :
                 LET s == Renumber(order)[i]
                 IN  /\ s.kind = "update" /\ s.rule \in ToSet(order) /\ s.enabled = Same
                     /\ s.priority \in {Number(Place(order, s.rule), FALSE),
                                        Number(Place(order, s.rule), TRUE)}
           /\ FinalsLast(Renumber(order)) /\ KeysRise(Renumber(order))
           /\ \A x \in ToSet(order) :
                 /\ \E i \in 1 .. Len(Renumber(order)) :
                       Renumber(order)[i].rule = x /\ ~IsFinal(Renumber(order)[i])
                 /\ \E i \in 1 .. Len(Renumber(order)) :
                       Renumber(order)[i].rule = x /\ IsFinal(Renumber(order)[i])
  <1> DEFINE F == Pass(order, FALSE)
             T == Pass(order, TRUE)
             all == Renumber(order)
             n == Len(F)
             m == Len(T)
             number(s, final) == Number(Place(order, s.rule), final)
  <1>1. /\ F \in Seq(Statements)
        /\ \A i \in 1 .. n : /\ F[i].kind = "update" /\ F[i].rule \in ToSet(order)
                             /\ F[i].enabled = Same /\ F[i].priority = number(F[i], FALSE)
        /\ \A i, j \in 1 .. n : i < j => Key[F[i].rule] < Key[F[j].rule]
        /\ \A x \in ToSet(order) : \E i \in 1 .. n : F[i].rule = x
    BY PassIs
  <1>2. /\ T \in Seq(Statements)
        /\ \A i \in 1 .. m : /\ T[i].kind = "update" /\ T[i].rule \in ToSet(order)
                             /\ T[i].enabled = Same /\ T[i].priority = number(T[i], TRUE)
        /\ \A x \in ToSet(order) : \E i \in 1 .. m : T[i].rule = x
    BY PassIs
  <1>3. all = F \o T
    BY DEF Renumber
  <1> HIDE DEF F, T, all, Statements
  <1>4. n \in Nat /\ m \in Nat
    BY <1>1, <1>2, LenProperties
  <1>5. /\ all \in Seq(Statements) /\ Len(all) = n + m
        /\ \A i \in 1 .. n + m : all[i] = IF i <= n THEN F[i] ELSE T[i - n]
    BY <1>1, <1>2, <1>3, ConcatProperties
  <1>6. /\ \A i \in 1 .. n : i \in 1 .. n + m /\ all[i] = F[i]
        /\ \A i \in 1 .. m : n + i \in 1 .. n + m /\ all[n + i] = T[i]
        /\ \A i \in 1 .. n + m : i \in 1 .. n \/ (i - n \in 1 .. m /\ all[i] = T[i - n])
    <2> HIDE DEF n, m
    <2>1. \A i \in 1 .. n : i \in 1 .. n + m /\ all[i] = F[i]
      BY <1>4, <1>5
    <2>2. \A i \in 1 .. m : n + i \in 1 .. n + m /\ ~(n + i <= n) /\ (n + i) - n = i
      BY <1>4
    <2>3. \A i \in 1 .. n + m : i \in 1 .. n \/ (i - n \in 1 .. m /\ ~(i <= n))
      BY <1>4
    <2> QED
      BY <1>5, <2>1, <2>2, <2>3
  <1>7. \A x \in ToSet(order) : Place(order, x) \in Nat \ {0}
    BY Placed
  <1>8. /\ \A i \in 1 .. n : ~IsFinal(F[i])
        /\ \A i \in 1 .. m : IsFinal(T[i])
    <2>1. ASSUME NEW i \in 1 .. n
          PROVE  ~IsFinal(F[i])
      <3>1. F[i].priority = -Place(order, F[i].rule) /\ Place(order, F[i].rule) \in Nat \ {0}
        BY <1>1, <1>7 DEF Number
      <3> QED
        BY <3>1 DEF IsFinal
    <2>2. ASSUME NEW i \in 1 .. m
          PROVE  IsFinal(T[i])
      <3>1. T[i].priority = Place(order, T[i].rule) * 10 /\ Place(order, T[i].rule) \in Nat \ {0}
        BY <1>2, <1>7 DEF Number, STEP
      <3> QED
        BY <3>1 DEF IsFinal
    <2> QED
      BY <2>1, <2>2
  <1>9. \A i \in 1 .. n + m : IsFinal(all[i]) <=> i > n
    <2> HIDE DEF n, m
    <2>1. \A i \in 1 .. n + m : i \in 1 .. n <=> ~(i > n)
      BY <1>4
    <2>2. ASSUME NEW i \in 1 .. n + m, i \notin 1 .. n
          PROVE  IsFinal(all[i])
      <3>1. i - n \in 1 .. m /\ all[i] = T[i - n]
        BY <1>6, <2>2
      <3> QED
        BY <1>8, <3>1
    <2>3. ASSUME NEW i \in 1 .. n + m, i \in 1 .. n
          PROVE  ~IsFinal(all[i])
      BY <1>6, <1>8, <2>3
    <2> QED
      BY <2>1, <2>2, <2>3
  <1>10. FinalsLast(all)
    BY <1>4, <1>5, <1>9 DEF FinalsLast
  <1>11. KeysRise(all)
    <2> SUFFICES ASSUME NEW i \in 1 .. n + m, NEW j \in 1 .. n + m, i < j, ~IsFinal(all[j])
                 PROVE  Key[all[i].rule] < Key[all[j].rule]
      BY <1>5 DEF KeysRise
    <2>1. i \in 1 .. n /\ j \in 1 .. n
      BY <1>4, <1>9
    <2> QED
      BY <1>1, <1>6, <2>1
  <1>12. ASSUME NEW x \in ToSet(order)
         PROVE  /\ \E i \in 1 .. n + m : all[i].rule = x /\ ~IsFinal(all[i])
                /\ \E i \in 1 .. n + m : all[i].rule = x /\ IsFinal(all[i])
    <2>1. PICK i \in 1 .. n : F[i].rule = x
      BY <1>1
    <2>2. PICK j \in 1 .. m : T[j].rule = x
      BY <1>2
    <2> QED
      BY <1>6, <1>8, <2>1, <2>2
  <1>13. ASSUME NEW i \in 1 .. n + m
         PROVE  /\ all[i].kind = "update" /\ all[i].rule \in ToSet(order) /\ all[i].enabled = Same
                /\ all[i].priority \in {number(all[i], FALSE), number(all[i], TRUE)}
    <2>1. CASE i \in 1 .. n
      BY <1>1, <1>6, <2>1
    <2>2. CASE i \notin 1 .. n
      <3>1. i - n \in 1 .. m /\ all[i] = T[i - n]
        BY <1>6, <2>2
      <3>2. /\ T[i - n].kind = "update" /\ T[i - n].rule \in ToSet(order)
            /\ T[i - n].enabled = Same /\ T[i - n].priority = number(T[i - n], TRUE)
        BY <1>2, <3>1
      <3> QED
        BY <3>1, <3>2
    <2> QED
      BY <2>1, <2>2
  <1> QED
    BY <1>5, <1>10, <1>11, <1>12, <1>13 DEF all

\* A reorder begins with the two passes, the first in the order of the keys.
LEMMA ReorderKeepsInv ==
    ASSUME Inv, NEW p \in Requests, NEW list, NEW order \in SetToSeqs(RowsOf(list)),
           reorder_severity_rules(p, order)
    PROVE  Inv'
  <1> DEFINE new == Request("reorder", order, {"priority"})
             all == Renumber(order)
  <1>1. Begin(p, new, "writing", all)
    BY DEF reorder_severity_rules
  <1>2. TypeInv
    BY DEF Inv
  <1>3. order \in Seq(Rules) /\ IsInjective(order) /\ ToSet(order) \subseteq RowsOf(list)
    <2>1. IsFiniteSet(RowsOf(list)) /\ RowsOf(list) \subseteq Rules
      BY RulesAssumption, FS_Subset DEF RowsOf
    <2>2. Cardinality(RowsOf(list)) \in Nat
      BY <2>1, FS_CardinalityType
    <2>3. /\ order \in [1 .. Cardinality(RowsOf(list)) -> RowsOf(list)]
          /\ \A i, j \in 1 .. Cardinality(RowsOf(list)) : i # j => order[i] # order[j]
      BY DEF SetToSeqs
    <2> QED
      BY <2>1, <2>2, <2>3 DEF IsInjective, ToSet
  <1>4. \A x \in ToSet(order) : x \in Rules /\ rows[x] # NoRow
    BY <1>3 DEF RowsOf
  <1>5. new \in RequestType
    BY <1>3 DEF Request, RequestType
  <1>6. new # NoRequest
    BY <1>5, NamesAssumption
  <1>7. new.op = "reorder" /\ new.rules = order /\ new.columns = {"priority"}
    BY DEF Request
  <1>8. /\ all \in Seq(Statements)
        /\ \A i \in 1 .. Len(all) :
              /\ all[i].kind = "update" /\ all[i].rule \in ToSet(order) /\ all[i].enabled = Same
              /\ all[i].priority \in {Number(Place(order, all[i].rule), FALSE),
                                      Number(Place(order, all[i].rule), TRUE)}
        /\ FinalsLast(all) /\ KeysRise(all)
        /\ \A x \in ToSet(order) :
              /\ \E i \in 1 .. Len(all) : all[i].rule = x /\ ~IsFinal(all[i])
              /\ \E i \in 1 .. Len(all) : all[i].rule = x /\ IsFinal(all[i])
    BY <1>3, RenumberIs
  <1> HIDE DEF new, all
  <1>9. /\ request'[p] = new /\ pc'[p] = "writing" /\ todo'[p] = all /\ rows' = rows
        /\ written' = written /\ pc[p] = "idle" /\ Alone(p)
    BY <1>1, <1>2 DEF Begin, Go, TypeInv, Alone
  <1>10. NothingWritten(p)'
    BY <1>9 DEF Inv, TxInv, Shape, NothingWritten
  <1>11. Shape(p)'
    BY <1>6, <1>7, <1>9, <1>10 DEF Shape, Busy, Evaluating
  <1>12. AskedInv(p)'
    BY <1>7, <1>8, <1>9 DEF AskedInv, Asked, Inserting, FirstNumber, FinalNumber
  <1>13. FreshInv(p)'
    BY <1>7, <1>9 DEF FreshInv, Inserts, Inserting
  <1>14. Apart(p)'
    <2>1. \A q \in Requests : Inserts(q) =>
             \A x \in ToSet(order) : x \notin ToSet(request[q].rules)
      BY <1>4 DEF Inv, TxInv, FreshInv
    <2> QED
      BY <1>7, <1>9, <2>1 DEF Apart, Alone, Inserts, Busy
  <1>15. ReorderInv(p)'
    <2>1. FinalsLast(todo[p])' /\ KeysRise(todo[p])'
      BY <1>8, <1>9 DEF FinalsLast, KeysRise, IsFinal
    <2>2. FirstPass(p)'
      BY <1>10 DEF FirstPass, NothingWritten
    <2>3. FirstDone(p)' /\ LastDone(p)'
      BY <1>7, <1>8, <1>9 DEF FirstDone, LastDone, IsFinal
    <2> QED
      BY <1>3, <1>7, <1>9, <2>1, <2>2, <2>3 DEF ReorderInv
  <1> QED
    BY <1>1, <1>5, <1>8, <1>11, <1>12, <1>13, <1>14, <1>15, BeginKeepsInv DEF Places

\* An evaluation reads the receiver's rules into a sequence.
LEMMA ReadKeepsInv ==
    ASSUME Inv, NEW p \in Requests, NEW op \in {"ingest", "replay"}, read_rules(p, op)
    PROVE  Inv'
  <1> DEFINE own == load_own_rules(Existing, Receiver)
             new == [Request(op, <<>>, {}) EXCEPT !.own = own]
             entries == [id : Rules, severity : {SeverityOf[x] : x \in Rules}, preset : BOOLEAN]
  <1>1. Begin(p, new, "presets", <<>>)
    BY DEF read_rules
  <1>2. TypeInv
    BY DEF Inv
  <1>3. own \in Seq(entries)
    <2> DEFINE here == {y \in Rules : rows[y] # NoRow}
               found == {x \in here : rows[x].list = Receiver /\ rows[x].enabled}
               key == [x \in found |-> rows[x].priority]
               n == Cardinality(found)
               ids == InOrder(found, key)
               entry(i) == [id |-> ids[i], severity |-> rows[ids[i]].severity, preset |-> FALSE]
    <2>1. Existing = [x \in here |-> rows[x]]
      BY DEF Existing
    <2>2. \A x \in here : rows[x].list = ListOf[x] /\ rows[x].severity = SeverityOf[x]
                          /\ rows[x].priority \in Nat
      BY DEF Inv, RowsInv, OfRule
    <2>3. found \subseteq Rules /\ IsFiniteSet(found)
      BY RulesAssumption, FS_Subset
    <2>4. \A x, y \in found : key[x] \in Int /\ (key[x] = key[y] => x = y)
      BY <2>2 DEF Inv, IndexInv, Committed, UniqueAmong
    <2>5. n \in Nat /\ ids \in [1 .. n -> found]
      <3> HIDE DEF found, key
      <3> QED
        BY ONLY <2>3, <2>4, Sorted
    <2>6. own = [i \in DOMAIN ids |->
                    [id |-> ids[i], severity |-> Existing[ids[i]].severity, preset |-> FALSE]]
      <3>1. {x \in DOMAIN Existing : Existing[x].list = Receiver /\ Existing[x].enabled} = found
        BY <2>1
      <3>2. [x \in found |-> Existing[x].priority] = key
        BY <2>1
      <3> QED
        BY <3>1, <3>2 DEF load_own_rules, Enabled
    <2>7. \A i \in 1 .. n : ids[i] \in Rules /\ Existing[ids[i]].severity = SeverityOf[ids[i]]
      BY <2>1, <2>2, <2>5
    <2> HIDE DEF ids, n, found, own, key
    <2>8. \A i \in 1 .. n :
             [id |-> ids[i], severity |-> Existing[ids[i]].severity, preset |-> FALSE] \in entries
      BY <2>7
    <2> QED
      BY <2>5, <2>6, <2>8
  <1> HIDE DEF own
  <1>4. new = [op |-> op, rules |-> <<>>, columns |-> {}, own |-> own]
    BY DEF Request
  <1>5. new \in RequestType
    <2>1. /\ op \in {"create", "append", "append_again", "update", "delete", "reorder",
                    "ingest", "replay"}
          /\ <<>> \in Seq(Rules) /\ {} \in SUBSET {"priority", "enabled"}
      OBVIOUS
    <2> QED
      BY <1>3, <1>4, <2>1 DEF RequestType
  <1>6. new # NoRequest
    BY <1>5, NamesAssumption
  <1>7. new.op = op /\ new.rules = <<>> /\ ToSet(<<>>) = {}
    BY <1>4 DEF ToSet
  <1> HIDE DEF new
  <1>8. /\ request'[p] = new /\ pc'[p] = "presets" /\ todo'[p] = <<>> /\ rows' = rows
        /\ written' = written /\ pc[p] = "idle" /\ Alone(p)
    BY <1>1, <1>2 DEF Begin, Go, TypeInv, Alone
  <1>9. NothingWritten(p)'
    BY <1>8 DEF Inv, TxInv, Shape, NothingWritten
  <1>10. Shape(p)' /\ AskedInv(p)' /\ ReorderInv(p)'
    BY <1>6, <1>7, <1>8, <1>9 DEF Shape, AskedInv, ReorderInv, IsReorder, Busy, Evaluating
  <1>11. FreshInv(p)' /\ Apart(p)'
    BY <1>7, <1>8 DEF FreshInv, Apart, Inserts, Inserting
  <1>12. <<>> \in Seq(Statements)
    OBVIOUS
  <1> QED
    BY <1>1, <1>5, <1>10, <1>11, <1>12, BeginKeepsInv DEF Places

-----------------------------------------------------------------------------
(* The statements. *)

\* A request that goes on with its rules keeps them for itself.
LEMMA SameRules ==
    ASSUME Inv, NEW p \in Requests, Alone(p), Busy(p), request'[p].rules = request[p].rules,
           Inserts(p)' => Inserts(p)
    PROVE  FreshInv(p)' /\ Apart(p)'
  <1>1. FreshInv(p) /\ \A q \in Requests : FreshInv(q)
    BY DEF Inv, TxInv
  <1>2. FreshInv(p)'
    BY <1>1 DEF FreshInv, Alone, Inserts, Busy
  <1>3. Apart(p)'
    BY <1>1 DEF FreshInv, Apart, Alone, Inserts, Busy
  <1> QED
    BY <1>2, <1>3

\* The number for a rule that goes to the end is higher than all others.
LEMMA NextNumberIs ==
    ASSUME TypeInv, RowsInv, NEW list
    PROVE  /\ NextNumber(list) \in Nat
           /\ \A y \in RowsOf(list) : rows[y].priority < NextNumber(list)
  <1> DEFINE S == RowsOf(list)
             numbers == {rows[y].priority : y \in S}
  <1>1. S \subseteq Rules /\ IsFiniteSet(S) /\ \A y \in S : rows[y].priority \in Nat
    BY RulesAssumption, FS_Subset DEF RowsOf, RowsInv
  <1>2. NextNumber(list) = IF numbers = {} THEN 10 ELSE Max(numbers) + 10
    BY DEF NextNumber, STEP
  <1> HIDE DEF S
  <1>3. IsFiniteSet(numbers)
    <2>1. [y \in S |-> rows[y].priority] \in Surjection(S, numbers)
      BY DEF Surjection
    <2> QED
      BY <1>1, <2>1, FS_Surjection
  <1>4. numbers \subseteq Nat /\ \A y \in S : rows[y].priority \in numbers
    BY <1>1
  <1> HIDE DEF numbers
  <1>5. CASE numbers = {}
    BY <1>2, <1>4, <1>5 DEF S
  <1>6. CASE numbers # {}
    <2>1. Max(numbers) \in numbers /\ \A n \in numbers : Max(numbers) >= n
      <3>1. numbers \subseteq Int
        BY <1>4
      <3> QED
        BY <1>3, <1>6, <3>1, Greatest
    <2>2. NextNumber(list) = Max(numbers) + 10 /\ Max(numbers) \in Nat
      BY <1>2, <1>4, <1>6, <2>1
    <2>3. \A y \in S : rows[y].priority \in Nat /\ Max(numbers) >= rows[y].priority
      BY <1>4, <2>1
    <2> QED
      BY <2>2, <2>3 DEF S
  <1> QED
    BY <1>5, <1>6

\* A creation without a number takes the next one of the rows it sees.
LEMMA NextPriorityKeepsInv ==
    ASSUME Inv, NEW p \in Requests, _next_priority(p)
    PROVE  Inv'
  <1> DEFINE x == Head(request[p].rules)
             n == NextNumber(ListOf[x])
             s == Insert(x, n)
  <1>1. TypeInv /\ RowsInv
    BY DEF Inv
  <1>2. /\ pc[p] = "reading" /\ request[p] \in RequestType /\ Busy(p) /\ Inserts(p)
        /\ request[p].op \in {"append", "append_again"} /\ Len(request[p].rules) = 1
        /\ NothingWritten(p)
    BY <1>1 DEF _next_priority, Inv, TxInv, Shape, TypeInv, Busy, Inserts, Inserting, Evaluating
  <1>3. x \in Rules /\ x \in ToSet(request[p].rules)
    <2>1. request[p].rules \in Seq(Rules)
      BY <1>2 DEF RequestType
    <2>2. x = request[p].rules[1] /\ 1 \in DOMAIN request[p].rules
      BY <1>2, <2>1
    <2> QED
      BY <2>1, <2>2 DEF ToSet
  <1>4. n \in Nat
    BY <1>1, NextNumberIs
  <1> HIDE DEF x, n
  <1>5. UNCHANGED <<rows, overtaken, started>>
    BY DEF _next_priority
  <1>6. CASE Finish(p)
    BY <1>5, <1>6, FinishKeepsInv
  <1>7. CASE Go(p, "writing", <<s>>) /\ UNCHANGED <<written, request>>
    <2>1. s \in Statements
      <3>1. n \in Int \cup {Same} /\ TRUE \in BOOLEAN \cup {Same}
        BY <1>4
      <3> QED
        BY <1>3, <3>1 DEF Insert, Statements
    <2>2. s.kind = "insert" /\ s.rule = x /\ s.priority = n /\ s.enabled = TRUE
      BY DEF Insert
    <2> HIDE DEF s
    <2>3. <<s>> \in Seq(Statements) /\ Len(<<s>>) = 1 /\ <<s>>[1] = s
      BY <2>1, OneStatement
    <2>4. Alone(p) /\ pc'[p] = "writing" /\ todo'[p] = <<s>> /\ request' = request
      BY <1>1, <1>5, <1>7 DEF Go, TypeInv, Alone
    <2>5. TypeInv'
      <3> HIDE DEF Statements, RequestType, Rows
      <3> QED
        BY <1>1, <1>5, <1>7, <2>3 DEF Go, TypeInv, Places
    <2>6. NothingWritten(p)'
      BY <1>2, <1>7 DEF NothingWritten
    <2>7. Shape(p)' /\ EnteringInv(p)' /\ ReorderInv(p)'
      BY <1>2, <2>3, <2>4, <2>6 DEF Shape, EnteringInv, ReorderInv, IsReorder, Busy, Evaluating
    <2>8. AskedInv(p)'
      BY <1>2, <1>3, <1>4, <2>2, <2>3, <2>4 DEF AskedInv, Asked
    <2>9. DoneInv(p)'
      BY <2>6 DEF DoneInv, NothingWritten
    <2>10. FreshInv(p)' /\ Apart(p)'
      BY <1>2, <2>4, SameRules DEF Inserts, Busy
    <2>11. TxInv(p)'
      BY <2>7, <2>8, <2>9, <2>10 DEF TxInv
    <2> QED
      BY <1>2, <1>7, <2>4, <2>5, <2>10, <2>11, QuietIndex, AloneKeepsInv
  <1> QED
    BY <1>6, <1>7 DEF _next_priority, x, n

\* The comparison with the rows in sight writes nothing.
LEMMA CheckKeepsInv ==
    ASSUME Inv, NEW p \in Requests, _assert_priority_free(p)
    PROVE  Inv'
  <1>1. TypeInv
    BY DEF Inv
  <1>2. UNCHANGED <<rows, overtaken, started>> /\ pc[p] = "checking"
    BY DEF _assert_priority_free
  <1>3. CASE Finish(p)
    BY <1>2, <1>3, FinishKeepsInv
  <1>4. CASE Go(p, "writing", todo[p]) /\ UNCHANGED <<written, request>>
    <2>1. /\ Alone(p) /\ pc'[p] = "writing" /\ todo'[p] = todo[p] /\ request' = request
          /\ written' = written /\ rows' = rows
      BY <1>1, <1>2, <1>4 DEF Go, TypeInv, Alone
    <2>2. TypeInv'
      <3> HIDE DEF Statements, RequestType, Rows
      <3> QED
        BY <1>1, <1>2, <1>4 DEF Go, TypeInv, Places
    <2>3. TxInv(p) /\ Busy(p)
      BY <1>2 DEF Inv, TxInv, Shape, Busy
    <2>4. Shape(p)' /\ EnteringInv(p)' /\ ReorderInv(p)'
      BY <1>2, <2>1, <2>3
      DEF TxInv, Shape, NothingWritten, EnteringInv, ReorderInv, IsReorder, Busy, Evaluating
    <2>5. AskedInv(p)'
      BY <2>1, <2>3 DEF TxInv, AskedInv, Asked, FirstNumber, FinalNumber
    <2>6. FreshInv(p)' /\ Apart(p)'
      BY <2>1, <2>3, SameRules DEF Inserts, Busy
    <2>7. DoneInv(p)'
      <3>1. DoneInv(p) /\ Busy(p)'
        BY <2>1, <2>3 DEF TxInv, Busy
      <3> QED
        BY <2>1, <3>1, DoneNext DEF DoneInv
    <2>8. TxInv(p)'
      BY <2>4, <2>5, <2>6, <2>7 DEF TxInv
    <2> QED
      BY <1>2, <2>1, <2>2, <2>6, <2>8, QuietIndex, AloneKeepsInv
  <1> QED
    BY <1>3, <1>4 DEF _assert_priority_free

\* The first statement of a transaction that has one.
LEMMA First ==
    ASSUME Inv, NEW p \in Requests, Busy(p), todo[p] # <<>>
    PROVE  /\ todo[p] \in Seq(Statements) /\ Len(todo[p]) \in Nat \ {0}
           /\ Head(todo[p]) = todo[p][1] /\ Head(todo[p]) \in Statements
           /\ Head(todo[p]).rule \in Rules /\ Asked(request[p], Head(todo[p]))
           /\ Tail(todo[p]) \in Seq(Statements) /\ Len(Tail(todo[p])) = Len(todo[p]) - 1
           /\ \A i \in 1 .. Len(Tail(todo[p])) :
                 i + 1 \in 1 .. Len(todo[p]) /\ Tail(todo[p])[i] = todo[p][i + 1]
           /\ \A i \in 1 .. Len(todo[p]) :
                 i = 1 \/ (i - 1 \in 1 .. Len(Tail(todo[p])) /\ todo[p][i] = Tail(todo[p])[i - 1])
           /\ Len(todo[p]) <= 1 => Tail(todo[p]) = <<>>
           /\ FinalsLast(todo[p]) => FinalsLast(Tail(todo[p]))
           /\ KeysRise(todo[p]) => KeysRise(Tail(todo[p]))
  <1> DEFINE s == todo[p]
  <1>1. s \in Seq(Statements) /\ s # <<>>
    BY DEF Inv, TypeInv
  <1>2. AskedInv(p)
    BY DEF Inv, TxInv
  <1>3. /\ Len(s) \in Nat \ {0} /\ Head(s) = s[1] /\ Head(s) \in Statements
        /\ Tail(s) \in Seq(Statements) /\ Len(Tail(s)) = Len(s) - 1
        /\ \A i \in 1 .. Len(Tail(s)) : i + 1 \in 1 .. Len(s) /\ Tail(s)[i] = s[i + 1]
        /\ \A i \in 1 .. Len(s) : i = 1 \/ (i - 1 \in 1 .. Len(Tail(s)) /\ s[i] = Tail(s)[i - 1])
        /\ Len(s) <= 1 => Tail(s) = <<>>
    BY <1>1, Rest
  <1>4. Asked(request[p], Head(s))
    BY <1>2, <1>3 DEF AskedInv
  <1> HIDE DEF s
  <1>5. Head(s).rule \in Rules
    BY <1>3 DEF Statements
  <1>6. \A i, j \in 1 .. Len(Tail(s)) : i < j => i + 1 < j + 1
    BY <1>3
  <1>7. FinalsLast(s) => FinalsLast(Tail(s))
    BY <1>3, <1>6 DEF FinalsLast
  <1>8. KeysRise(s) => KeysRise(Tail(s))
    BY <1>3, <1>6 DEF KeysRise
  <1> QED
    BY <1>1, <1>3, <1>4, <1>5, <1>7, <1>8 DEF s

\* A transaction that executes statements.
LEMMA Executing ==
    ASSUME Inv, NEW p \in Requests, pc[p] \in {"writing", "indexing"}
    PROVE  /\ TxInv(p) /\ Busy(p) /\ request[p] \in RequestType
           /\ request[p].op \in Inserting \cup {"update", "delete", "reorder"}
  <1>1. TxInv(p) /\ request[p] \in RequestType \cup {NoRequest}
    BY DEF Inv, TypeInv
  <1>2. Busy(p) /\ request[p].op \notin Evaluating
    BY <1>1 DEF TxInv, Shape, Busy
  <1>3. request[p] \in RequestType
    BY <1>1, <1>2 DEF Busy
  <1> QED
    BY <1>1, <1>2, <1>3 DEF Evaluating, Inserting, RequestType

\* A statement that finds no row, of a request that does not mind.
LEMMA SkipKeepsInv ==
    ASSUME Inv, NEW p \in Requests, pc[p] = "writing", todo[p] # <<>>,
           Head(todo[p]).kind # "insert", View(p, Head(todo[p]).rule) = NoRow,
           Go(p, "writing", Tail(todo[p])), UNCHANGED <<rows, written, request, overtaken, started>>
    PROVE  Inv'
  <1> DEFINE s == Head(todo[p])
             r == request[p]
  <1>1. TypeInv
    BY DEF Inv
  <1>2. TxInv(p) /\ Busy(p) /\ r.op \in Inserting \cup {"update", "delete", "reorder"}
    BY Executing
  <1>3. /\ Len(todo[p]) \in Nat \ {0} /\ s = todo[p][1] /\ s.rule \in Rules /\ Asked(r, s)
        /\ Tail(todo[p]) \in Seq(Statements) /\ Len(Tail(todo[p])) = Len(todo[p]) - 1
        /\ \A i \in 1 .. Len(Tail(todo[p])) :
              i + 1 \in 1 .. Len(todo[p]) /\ Tail(todo[p])[i] = todo[p][i + 1]
        /\ \A i \in 1 .. Len(todo[p]) :
              i = 1 \/ (i - 1 \in 1 .. Len(Tail(todo[p])) /\ todo[p][i] = Tail(todo[p])[i - 1])
        /\ Len(todo[p]) <= 1 => Tail(todo[p]) = <<>>
        /\ FinalsLast(todo[p]) => FinalsLast(Tail(todo[p]))
        /\ KeysRise(todo[p]) => KeysRise(Tail(todo[p]))
    BY <1>2, First
  <1> HIDE DEF s
  <1>4. /\ Alone(p) /\ pc'[p] = "writing" /\ todo'[p] = Tail(todo[p]) /\ request' = request
        /\ written' = written /\ rows' = rows
    BY <1>1 DEF Go, TypeInv, Alone
  <1>5. TypeInv'
    <2> HIDE DEF Statements, RequestType, Rows
    <2> QED
      BY <1>1, <1>3 DEF Go, TypeInv, Places
  <1>6. Shape(p)' /\ EnteringInv(p)'
    <2>1. r.op \notin Evaluating \cup {"reorder"} => todo'[p] = <<>>
      BY <1>2, <1>3, <1>4 DEF TxInv, Shape
    <2>2. todo'[p] = <<>> => Len(todo'[p]) <= 1
      OBVIOUS
    <2> QED
      BY <1>2, <1>4, <2>1, <2>2 DEF TxInv, Shape, EnteringInv, Busy, NothingWritten
  <1>7. AskedInv(p)'
    <2>1. \A i \in 1 .. Len(Tail(todo[p])) : Asked(r, Tail(todo[p])[i])
      BY <1>2, <1>3 DEF TxInv, AskedInv
    <2> QED
      BY <1>4, <2>1 DEF AskedInv, Asked, FirstNumber, FinalNumber
  <1>8. DoneInv(p)'
    BY <1>2, <1>4 DEF TxInv, DoneInv, Done, OfRule, Busy, FirstNumber, FinalNumber
  <1>9. FreshInv(p)' /\ Apart(p)'
    BY <1>2, <1>4, SameRules DEF Inserts, Busy
  <1>10. ReorderInv(p)'
    <2> SUFFICES ASSUME IsReorder(p)
                 PROVE  ReorderInv(p)'
      BY <1>4 DEF ReorderInv, IsReorder, Busy
    <2>1. ReorderInv(p) /\ DoneInv(p) /\ r.op = "reorder"
      BY <1>2 DEF TxInv, IsReorder
    <2>2. rows[s.rule] = NoRow
      <3>1. written[p][s.rule] # Same => written[p][s.rule] # NoRow
        BY <1>3, <2>1 DEF DoneInv, Done
      <3> QED
        BY <3>1 DEF View, s
    <2>3. FinalsLast(todo[p])' /\ KeysRise(todo[p])'
      BY <1>3, <1>4, <2>1 DEF ReorderInv, IsReorder, FinalsLast, KeysRise, IsFinal
    <2>4. FirstPass(p)'
      <3> SUFFICES ASSUME NEW x \in Rules, NEW i \in 1 .. Len(Tail(todo[p])),
                          written[p][x] # Same, ~IsFinal(Tail(todo[p])[i])
                   PROVE  Key[x] < Key[Tail(todo[p])[i].rule]
        BY <1>4 DEF FirstPass, IsFinal
      <3>1. FirstPass(p)
        BY <2>1 DEF ReorderInv
      <3> QED
        BY <1>3, <3>1 DEF FirstPass, IsFinal
    <2>5. FirstDone(p)'
      <3> SUFFICES ASSUME NEW x \in ToSet(r.rules), rows[x] # NoRow, written[p][x] = Same
                   PROVE  \E i \in 1 .. Len(Tail(todo[p])) :
                             Tail(todo[p])[i].rule = x /\ ~IsFinal(Tail(todo[p])[i])
        BY <1>4 DEF FirstDone, IsFinal
      <3>1. PICK i \in 1 .. Len(todo[p]) : todo[p][i].rule = x /\ ~IsFinal(todo[p][i])
        BY <2>1 DEF ReorderInv, FirstDone
      <3> QED
        BY <1>3, <2>2, <3>1
    <2>6. LastDone(p)'
      <3> SUFFICES ASSUME NEW x \in ToSet(r.rules), rows[x] # NoRow,
                          ~(written[p][x] # Same /\ written[p][x].priority = FinalNumber(r, x))
                   PROVE  \E i \in 1 .. Len(Tail(todo[p])) :
                             Tail(todo[p])[i].rule = x /\ IsFinal(Tail(todo[p])[i])
        BY <1>4 DEF LastDone, IsFinal, FinalNumber
      <3>1. PICK i \in 1 .. Len(todo[p]) : todo[p][i].rule = x /\ IsFinal(todo[p][i])
        BY <2>1 DEF ReorderInv, LastDone
      <3> QED
        BY <1>3, <2>2, <3>1
    <2> QED
      BY <1>4, <2>1, <2>3, <2>4, <2>5, <2>6 DEF ReorderInv
  <1>11. TxInv(p)'
    BY <1>6, <1>7, <1>8, <1>9, <1>10 DEF TxInv
  <1> QED
    BY <1>4, <1>5, <1>9, <1>11, QuietIndex, AloneKeepsInv

\* The row that a statement writes is one the request has asked for.
LEMMA AfterIs ==
    ASSUME Inv, NEW p \in Requests, pc[p] = "writing", todo[p] # <<>>,
           Head(todo[p]).kind = "insert" \/ View(p, Head(todo[p]).rule) # NoRow
    PROVE  LET s == Head(todo[p])
               new == After(p, s)
           IN  /\ new \in Rows \cup {NoRow} /\ new # Same
               /\ Done(request[p], s.rule, rows[s.rule], new)
               /\ s.priority # Same => new # NoRow /\ new.priority = s.priority
               /\ s.priority = Same =>
                     \/ new = NoRow
                     \/ rows[s.rule] # NoRow /\ new.priority = rows[s.rule].priority
  <1> DEFINE s == Head(todo[p])
             x == s.rule
             r == request[p]
             old == View(p, x)
             new == After(p, s)
  <1>1. /\ rows \in [Rules -> Rows \cup {NoRow}]
        /\ written \in [Requests -> [Rules -> Rows \cup {NoRow, Same}]]
    BY DEF Inv, TypeInv
  <1>2. TxInv(p) /\ Busy(p) /\ r.op \in Inserting \cup {"update", "delete", "reorder"}
    BY Executing
  <1>3. s \in Statements /\ x \in Rules /\ Asked(r, s)
    BY <1>2, First
  <1>4. /\ s.priority \in Int \cup {Same} /\ s.enabled \in BOOLEAN \cup {Same}
    BY <1>3 DEF Statements
  <1>5. NoRow \notin Rows /\ Same \notin Rows /\ NoRow # Same
    BY NamesAssumption
  <1>6. s.kind = "insert" \/ old # NoRow
    OBVIOUS
  <1>7. old \in Rows \cup {NoRow}
    BY <1>1, <1>3 DEF View
  <1>8. r.op # "reorder" => old = rows[x]
    BY <1>2, <1>3 DEF TxInv, Shape, Evaluating, Inserting, NothingWritten, View
  <1>9. RowsInv /\ FreshInv(p) /\ DoneInv(p)
    BY DEF Inv, TxInv
  <1> HIDE DEF s, x, old
  <1>10. CASE r.op \in Inserting
    <2>1. s.kind = "insert" /\ s.priority \in Nat /\ s.enabled = TRUE /\ x \in ToSet(r.rules)
      BY <1>3, <1>10 DEF Asked, x
    <2>2. new = [list |-> ListOf[x], severity |-> SeverityOf[x], priority |-> s.priority,
                 enabled |-> TRUE]
      BY <2>1 DEF After, Row, x
    <2>3. new \in Rows
      BY <1>3, <2>1, <2>2 DEF Rows
    <2> HIDE DEF new
    <2>4. rows[x] = NoRow
      BY <1>2, <1>9, <1>10, <2>1 DEF FreshInv, Inserts
    <2>5. new.list = ListOf[x] /\ new.severity = SeverityOf[x] /\ new.priority = s.priority
      BY <2>2
    <2>6. s.priority # Same /\ new # NoRow /\ new # Same
      BY <1>5, <2>1, <2>3, NamesAssumption
    <2>7. Done(r, x, rows[x], new)
      BY <1>10, <2>1, <2>4, <2>5, <2>6 DEF Done, OfRule, Inserting
    <2> QED
      BY <2>3, <2>5, <2>6, <2>7 DEF new, x, s
  <1>11. CASE r.op = "delete"
    <2>1. s.kind = "delete" /\ s.priority = Same /\ x \in ToSet(r.rules)
      BY <1>3, <1>11 DEF Asked, x
    <2>2. new = NoRow
      BY <2>1 DEF After
    <2> HIDE DEF new
    <2>3. rows[x] # NoRow
      BY <1>6, <1>8, <1>11, <2>1
    <2>4. Done(r, x, rows[x], new)
      BY <1>11, <2>1, <2>2, <2>3 DEF Done, Inserting
    <2> QED
      BY <1>5, <2>1, <2>2, <2>4 DEF new, x, s
  <1>12. CASE r.op \in {"update", "reorder"}
    <2>1. s.kind = "update" /\ x \in ToSet(r.rules)
      BY <1>3, <1>12 DEF Asked, x
    <2>2. old \in Rows
      BY <1>6, <1>7, <2>1
    <2> DEFINE n == IF s.priority = Same THEN old.priority ELSE s.priority
               e == IF s.enabled = Same THEN old.enabled ELSE s.enabled
    <2>3. new = [old EXCEPT !.priority = n, !.enabled = e]
      BY <2>1 DEF After, x, old
    <2>4. n \in Int /\ e \in BOOLEAN
      BY <1>4, <2>2 DEF Rows
    <2>5. /\ new \in Rows /\ new.list = old.list /\ new.severity = old.severity
          /\ new.priority = n /\ new.enabled = e
      <3> HIDE DEF n, e, new
      <3> QED
        BY <2>2, <2>3, <2>4 DEF Rows
    <2> HIDE DEF new
    <2>6. rows[x] # NoRow /\ rows[x] \in Rows
      <3>1. CASE written[p][x] = Same
        BY <1>1, <1>3, <1>6, <2>1, <3>1 DEF View, old
      <3>2. CASE written[p][x] # Same
        BY <1>1, <1>3, <1>9, <1>12, <3>2 DEF DoneInv, Done, Inserting
      <3> QED
        BY <3>1, <3>2
    <2>7. OfRule(x, old)
      <3>1. CASE written[p][x] = Same
        BY <1>3, <1>9, <2>6, <3>1 DEF View, old, RowsInv
      <3>2. CASE written[p][x] # Same
        BY <1>3, <1>5, <1>6, <1>9, <2>1, <3>2 DEF View, old, DoneInv, Done
      <3> QED
        BY <3>1, <3>2
    <2>8. new # NoRow /\ new # Same /\ OfRule(x, new)
      BY <1>5, <2>5, <2>7 DEF OfRule
    <2>9. CASE r.op = "update"
      <3>1. /\ s.priority # Same => s.priority \in Nat /\ "priority" \in r.columns
            /\ s.enabled # Same => "enabled" \in r.columns
        BY <1>3, <2>9 DEF Asked
      <3>2. old = rows[x] /\ rows[x].priority \in Nat
        BY <1>3, <1>8, <1>9, <2>6, <2>9 DEF RowsInv
      <3>3. new.priority \in Nat
        BY <2>5, <3>1, <3>2
      <3>4. \A c \in Columns : new[c] # rows[x][c] => c \in r.columns
        BY <2>5, <3>1, <3>2 DEF Columns
      <3>5. Done(r, x, rows[x], new)
        BY <2>1, <2>6, <2>8, <2>9, <3>3, <3>4 DEF Done, Inserting
      <3> QED
        BY <2>5, <2>6, <2>8, <3>2, <3>5 DEF new, x, s
    <2>10. CASE r.op = "reorder"
      <3>1. /\ s.enabled = Same /\ s.priority \in {FirstNumber(r, x), FinalNumber(r, x)}
        BY <1>3, <2>10 DEF Asked, x
      <3>2. Place(r.rules, x) \in Nat
        <4>1. IsInjective(r.rules) /\ r.rules \in Seq(Rules)
          BY <1>2, <2>10, Executing DEF TxInv, ReorderInv, IsReorder, RequestType
        <4> QED
          BY <2>1, <4>1, Placed
      <3>3. s.priority # Same
        BY <3>1, <3>2, NamesAssumption DEF FirstNumber, FinalNumber, Number, STEP
      <3>4. new.priority = s.priority /\ new.enabled = old.enabled
        BY <2>5, <3>1, <3>3
      <3>5. r.columns = {"priority"}
        BY <1>2, <2>10 DEF TxInv, ReorderInv, IsReorder
      <3>6. old.enabled = rows[x].enabled
        <4>1. CASE written[p][x] = Same
          BY <4>1 DEF View, old
        <4>2. CASE written[p][x] # Same
          <5>1. Done(r, x, rows[x], written[p][x]) /\ written[p][x] = old
            BY <1>3, <1>9, <4>2 DEF DoneInv, View, old
          <5> QED
            BY <2>10, <3>5, <5>1, <1>5, <2>2 DEF Done, Columns, Inserting
        <4> QED
          BY <4>1, <4>2
      <3>7. \A c \in Columns : new[c] # rows[x][c] => c \in r.columns
        BY <3>4, <3>5, <3>6 DEF Columns
      <3>8. Done(r, x, rows[x], new)
        BY <2>1, <2>6, <2>8, <2>10, <3>1, <3>4, <3>7 DEF Done, Inserting
      <3> QED
        BY <2>5, <2>8, <3>3, <3>4, <3>8 DEF new, x, s
    <2> QED
      BY <1>12, <2>9, <2>10
  <1> QED
    BY <1>2, <1>10, <1>11, <1>12

\* What a statement that writes has in common with others of its transaction.
LEMMA WriteIs ==
    ASSUME Inv, NEW p \in Requests, write(p),
           Head(todo[p]).kind = "insert" \/ View(p, Head(todo[p]).rule) # NoRow,
           written' = [written EXCEPT ![p][Head(todo[p]).rule] = After(p, Head(todo[p]))],
           Go(p, pc'[p], todo'[p]), UNCHANGED request
    PROVE  LET s == Head(todo[p])
               new == After(p, s)
           IN  /\ Alone(p) /\ s.rule \in Rules
               /\ written'[p] = [written[p] EXCEPT ![s.rule] = new]
               /\ written' \in [Requests -> [Rules -> Rows \cup {NoRow, Same}]]
               /\ DoneInv(p)' /\ FreshInv(p)' /\ Apart(p)'
               /\ \A q \in Requests \ {p}, y \in Rules :
                     written'[p][y] = Same \/ written[q][y] = Same
               /\ \A q \in Requests \ {p} : written[q][s.rule] = Same
  <1> DEFINE s == Head(todo[p])
             x == s.rule
             new == After(p, s)
  <1>1. TypeInv
    BY DEF Inv
  <1>2. pc[p] = "writing" /\ todo[p] # <<>> /\ rows' = rows /\ RowHolders(p, x) = {}
    BY DEF write
  <1>3. TxInv(p) /\ Busy(p)
    BY <1>2, Executing
  <1>4. x \in Rules
    BY <1>2, <1>3, First
  <1>5. new \in Rows \cup {NoRow} /\ new # Same /\ Done(request[p], x, rows[x], new)
    BY <1>2, AfterIs
  <1> HIDE DEF s, x, new
  <1>6. written' = [written EXCEPT ![p][x] = new]
    BY DEF s, x, new
  <1>7. /\ written'[p] = [written[p] EXCEPT ![x] = new]
        /\ written' \in [Requests -> [Rules -> Rows \cup {NoRow, Same}]]
    <2> HIDE DEF Rows
    <2>1. written \in [Requests -> [Rules -> Rows \cup {NoRow, Same}]]
      BY <1>1 DEF TypeInv
    <2>2. written'[p] = [written[p] EXCEPT ![x] = new]
      BY <1>6, <2>1
    <2>3. written'[p] \in [Rules -> Rows \cup {NoRow, Same}]
      <3>1. written[p] \in [Rules -> Rows \cup {NoRow, Same}]
        BY <2>1
      <3> QED
        BY ONLY <1>4, <1>5, <2>2, <3>1
    <2>4. written' = [written EXCEPT ![p] = written'[p]]
      BY <1>6, <2>1, <2>2
    <2> QED
      BY ONLY <2>1, <2>2, <2>3, <2>4
  <1>8. Alone(p)
    BY <1>1, <1>2, <1>6 DEF Alone, Go, TypeInv
  <1>9. DoneInv(p)'
    <2> SUFFICES ASSUME NEW y \in Rules, written'[p][y] # Same
                 PROVE  Busy(p)' /\ Done(request[p], y, rows[y], written'[p][y])
      <3>1. request' = request
        BY DEF write
      <3> QED
        BY <1>2, <3>1, DoneNext
    <2>1. CASE y = x
      BY <1>1, <1>3, <1>4, <1>5, <1>7, <2>1 DEF Busy, TypeInv
    <2>2. CASE y # x
      BY <1>1, <1>3, <1>4, <1>7, <2>2 DEF Busy, TypeInv, TxInv, DoneInv
    <2> QED
      BY <2>1, <2>2
  <1>10. FreshInv(p)' /\ Apart(p)'
    BY <1>3, <1>8, SameRules DEF Inserts, Busy
  <1>11. \A q \in Requests \ {p} : written[q][x] = Same
    BY <1>2 DEF RowHolders
  <1>12. \A q \in Requests \ {p}, y \in Rules : written'[p][y] = Same \/ written[q][y] = Same
    BY <1>1, <1>7, <1>11 DEF Inv, RowLocks, TypeInv
  <1> QED
    BY <1>4, <1>7, <1>8, <1>9, <1>10, <1>11, <1>12 DEF s, x, new

\* A deletion, or an update that leaves the number alone.
LEMMA WritePlainKeepsInv ==
    ASSUME Inv, NEW p \in Requests, write(p),
           Head(todo[p]).kind = "insert" \/ View(p, Head(todo[p]).rule) # NoRow,
           written' = [written EXCEPT ![p][Head(todo[p]).rule] = After(p, Head(todo[p]))],
           Head(todo[p]).priority = Same,
           Go(p, "writing", Tail(todo[p])), UNCHANGED request
    PROVE  Inv'
  <1> DEFINE s == Head(todo[p])
             x == s.rule
             new == After(p, s)
             r == request[p]
  <1>1. TypeInv /\ IndexInv /\ RowLocks
    BY DEF Inv
  <1>2. pc[p] = "writing" /\ todo[p] # <<>> /\ UNCHANGED <<rows, overtaken, started>>
    BY DEF write
  <1>3. TxInv(p) /\ Busy(p) /\ r \in RequestType /\ r.op \in Inserting \cup {"update", "delete", "reorder"}
    BY <1>2, Executing
  <1>4. /\ Asked(r, s) /\ Tail(todo[p]) \in Seq(Statements)
        /\ Len(todo[p]) <= 1 => Tail(todo[p]) = <<>>
    BY <1>2, <1>3, First
  <1>5. pc' = [pc EXCEPT ![p] = "writing"] /\ todo' = [todo EXCEPT ![p] = Tail(todo[p])]
    BY DEF Go
  <1>6. pc'[p] = "writing" /\ todo'[p] = Tail(todo[p])
    BY <1>1, <1>5 DEF TypeInv
  <1>7. /\ Alone(p) /\ x \in Rules /\ written'[p] = [written[p] EXCEPT ![x] = new]
        /\ written' \in [Requests -> [Rules -> Rows \cup {NoRow, Same}]]
        /\ DoneInv(p)' /\ FreshInv(p)' /\ Apart(p)'
        /\ \A q \in Requests \ {p}, y \in Rules : written'[p][y] = Same \/ written[q][y] = Same
        /\ \A q \in Requests \ {p} : written[q][x] = Same
    BY <1>5, <1>6, WriteIs DEF Go
  <1>8. new = NoRow \/ (rows[x] # NoRow /\ new.priority = rows[x].priority)
    BY <1>2, AfterIs
  <1>9. r.op \in {"update", "delete"}
    <2>1. r.op \notin Inserting
      BY <1>4, NamesAssumption DEF Asked
    <2>2. r.op # "reorder"
      <3> SUFFICES ASSUME r.op = "reorder"
                   PROVE  FALSE
        OBVIOUS
      <3>1. IsInjective(r.rules) /\ r.rules \in Seq(Rules)
        BY <1>3 DEF TxInv, ReorderInv, IsReorder, RequestType
      <3>2. Place(r.rules, x) \in Nat
        BY <1>4, <3>1, Placed DEF Asked
      <3> QED
        BY <1>4, <3>2, NamesAssumption DEF Asked, FirstNumber, FinalNumber, Number, STEP
    <2> QED
      BY <1>3, <2>1, <2>2
  <1>10. NothingWritten(p) /\ Tail(todo[p]) = <<>>
    BY <1>2, <1>3, <1>4, <1>9 DEF TxInv, Shape, Evaluating
  <1> HIDE DEF s, x, new
  <1>11. /\ written'[p][x] = new
         /\ \A y \in Rules : y # x => written'[p][y] = Same
    BY <1>1, <1>7, <1>10 DEF NothingWritten, TypeInv
  <1>12. TypeInv'
    <2> HIDE DEF Statements, RequestType, Rows
    <2> QED
      BY <1>1, <1>2, <1>4, <1>5, <1>7 DEF TypeInv, Places
  <1>13. Shape(p)' /\ EnteringInv(p)' /\ AskedInv(p)' /\ ReorderInv(p)'
    <2>1. Len(<<>>) <= 1 /\ todo'[p] = <<>>
      BY <1>6, <1>10
    <2> QED
      BY <1>3, <1>6, <1>9, <2>1
      DEF TxInv, Shape, EnteringInv, AskedInv, ReorderInv, IsReorder, Busy, Evaluating
  <1>14. TxInv(p)'
    BY <1>7, <1>13 DEF TxInv
  <1>15. Seen(p)'
    <2>1. \A y \in Rules : View(p, y)' # NoRow =>
             rows[y] # NoRow /\ View(p, y)'.priority = rows[y].priority
      BY <1>2, <1>8, <1>11 DEF View
    <2> QED
      BY <1>1, <1>2, <2>1 DEF Seen, Settled, IndexInv, Committed, UniqueAmong
  <1>16. ASSUME NEW q \in Requests \ {p}
         PROVE  Between(p, q)'
    <2> SUFFICES ASSUME NEW y \in Rules, NEW z \in Rules, Entered(p, y)', Entered(q, z)',
                        y # z, ListOf[y] = ListOf[z]
                 PROVE  written'[p][y].priority # written'[q][z].priority
      BY DEF Between, UniqueAmong
    <2>1. y = x /\ new # NoRow /\ rows[x] # NoRow /\ new.priority = rows[x].priority
      BY <1>8, <1>11 DEF Entered
    <2>2. written'[q] = written[q] /\ Entered(q, z)
      BY <1>7 DEF Alone, Entered, Entering
    <2>3. View(q, x) = rows[x] /\ View(q, z) = written[q][z]
      BY <1>7, <2>2 DEF View, Entered
    <2>4. Settled(q, z)
      BY <2>2, <2>3 DEF Settled, Entered
    <2>5. Settled(q, x)
      <3>1. ~Entering(q, x)
        BY <1>7 DEF Inv, TxInv, EnteringInv, Entering
      <3> QED
        BY <2>1, <2>3, <3>1 DEF Settled
    <2>6. rows[x].priority # written[q][z].priority
      BY <1>1, <1>7, <2>1, <2>3, <2>4, <2>5 DEF IndexInv, Seen, UniqueAmong
    <2> QED
      BY <1>11, <2>1, <2>2, <2>6
  <1> QED
    BY <1>7, <1>12, <1>14, <1>15, <1>16, AloneKeepsInv

\* An insertion, or an update of the number, which goes on to the index.
LEMMA WriteNumberKeepsInv ==
    ASSUME Inv, NEW p \in Requests, write(p),
           Head(todo[p]).kind = "insert" \/ View(p, Head(todo[p]).rule) # NoRow,
           written' = [written EXCEPT ![p][Head(todo[p]).rule] = After(p, Head(todo[p]))],
           Head(todo[p]).priority # Same,
           Go(p, "indexing", todo[p]), UNCHANGED request
    PROVE  Inv'
  <1> DEFINE s == Head(todo[p])
             x == s.rule
             new == After(p, s)
             r == request[p]
  <1>1. TypeInv /\ IndexInv /\ RowLocks
    BY DEF Inv
  <1>2. pc[p] = "writing" /\ todo[p] # <<>> /\ UNCHANGED <<rows, overtaken, started>>
    BY DEF write
  <1>3. TxInv(p) /\ Busy(p) /\ r.op \in Inserting \cup {"update", "delete", "reorder"}
    BY <1>2, Executing
  <1>4. s = todo[p][1] /\ Len(todo[p]) \in Nat \ {0}
    BY <1>2, <1>3, First
  <1>5. pc' = [pc EXCEPT ![p] = "indexing"] /\ todo' = [todo EXCEPT ![p] = todo[p]]
    BY DEF Go
  <1>6. pc'[p] = "indexing" /\ todo'[p] = todo[p]
    BY <1>1, <1>5 DEF TypeInv
  <1>7. /\ Alone(p) /\ x \in Rules /\ written'[p] = [written[p] EXCEPT ![x] = new]
        /\ written' \in [Requests -> [Rules -> Rows \cup {NoRow, Same}]]
        /\ DoneInv(p)' /\ FreshInv(p)' /\ Apart(p)'
        /\ \A q \in Requests \ {p}, y \in Rules : written'[p][y] = Same \/ written[q][y] = Same
    BY <1>5, <1>6, WriteIs DEF Go
  <1>8. new # NoRow /\ new # Same /\ new.priority = s.priority
    BY <1>2, AfterIs
  <1> HIDE DEF s, x, new
  <1>9. /\ written'[p][x] = new
        /\ \A y \in Rules : y # x => written'[p][y] = written[p][y]
    BY <1>1, <1>7 DEF TypeInv
  <1>10. TypeInv'
    <2> HIDE DEF Statements, RequestType, Rows
    <2> QED
      BY <1>1, <1>2, <1>5, <1>7 DEF TypeInv, Places
  <1>11. EnteringInv(p)'
    BY <1>2, <1>6, <1>8, <1>9 DEF EnteringInv, s, x
  <1>12. Shape(p)' /\ AskedInv(p)'
    BY <1>3, <1>6 DEF TxInv, Shape, AskedInv, Asked, FirstNumber, FinalNumber, Busy, Evaluating,
                      Inserting
  <1>13. ReorderInv(p)'
    <2> SUFFICES ASSUME IsReorder(p)
                 PROVE  ReorderInv(p)'
      BY DEF ReorderInv, IsReorder, Busy
    <2>1. ReorderInv(p)
      BY <1>3 DEF TxInv
    <2>2. FinalsLast(todo[p])' /\ KeysRise(todo[p])'
      BY <1>6, <2>1 DEF ReorderInv, IsReorder, FinalsLast, KeysRise, IsFinal
    <2>3. FirstPass(p)'
      <3> SUFFICES ASSUME NEW y \in Rules, NEW i \in 1 .. Len(todo[p]),
                          written'[p][y] # Same, ~IsFinal(todo[p][i]),
                          ~(i = 1 /\ y = todo[p][1].rule)
                   PROVE  Key[y] < Key[todo[p][i].rule]
        BY <1>6 DEF FirstPass, IsFinal
      <3>1. CASE y = x
        <4>1. 1 < i /\ 1 \in 1 .. Len(todo[p])
          BY <1>4, <3>1 DEF x
        <4> QED
          BY <1>4, <2>1, <3>1, <4>1 DEF ReorderInv, KeysRise, x
      <3>2. CASE y # x
        BY <1>2, <1>9, <2>1, <3>2 DEF ReorderInv, FirstPass
      <3> QED
        BY <3>1, <3>2
    <2>4. FirstDone(p)'
      <3> SUFFICES ASSUME NEW y \in ToSet(r.rules), rows[y] # NoRow, written'[p][y] = Same,
                          ~ \E i \in 1 .. Len(todo[p]) : todo[p][i].rule = y /\ ~IsFinal(todo[p][i])
                   PROVE  FALSE
        BY <1>2, <1>6 DEF FirstDone, IsFinal
      <3>1. written[p][y] # Same
        BY <2>1 DEF ReorderInv, FirstDone
      <3>2. y \in Rules
        BY <2>1, <1>2, Executing, Placed DEF ReorderInv, RequestType
      <3> QED
        BY <1>8, <1>9, <3>1, <3>2
    <2>5. LastDone(p)'
      <3> SUFFICES ASSUME NEW y \in ToSet(r.rules), rows[y] # NoRow,
                          ~ \E i \in 1 .. Len(todo[p]) : todo[p][i].rule = y /\ IsFinal(todo[p][i])
                   PROVE  written'[p][y] # Same /\ written'[p][y].priority = FinalNumber(r, y)
        BY <1>2, <1>6 DEF LastDone, IsFinal, FinalNumber
      <3>1. written[p][y] # Same /\ written[p][y].priority = FinalNumber(r, y)
        BY <2>1 DEF ReorderInv, LastDone
      <3>2. y \in Rules
        BY <2>1, <1>2, Executing, Placed DEF ReorderInv, RequestType
      <3>3. y # x
        <4> SUFFICES ASSUME y = x
                     PROVE  FALSE
          OBVIOUS
        <4>1. ~IsFinal(todo[p][1]) /\ x = todo[p][1].rule
          BY <1>4 DEF x
        <4>2. Key[x] < Key[x]
          BY <1>2, <1>4, <2>1, <3>1, <3>2, <4>1 DEF ReorderInv, FirstPass
        <4>3. Key[x] \in Int
          BY <1>7, Keys
        <4> QED
          BY <4>2, <4>3
      <3> QED
        BY <1>9, <3>1, <3>2, <3>3
    <2> QED
      BY <1>6, <2>1, <2>2, <2>3, <2>4, <2>5 DEF ReorderInv
  <1>14. TxInv(p)'
    BY <1>7, <1>11, <1>12, <1>13 DEF TxInv
  <1>15. \A y \in Rules : Entered(p, y)' =>
             y # x /\ Entered(p, y) /\ written'[p][y] = written[p][y]
    BY <1>2, <1>6, <1>9 DEF Entering, Entered, s, x
  <1>16. Seen(p)'
    <2>1. Seen(p)
      BY <1>1 DEF IndexInv
    <2>2. \A y \in Rules : Settled(p, y)' => y # x /\ Settled(p, y) /\ View(p, y)' = View(p, y)
      BY <1>2, <1>6, <1>9 DEF Entering, Settled, View, s, x
    <2> QED
      BY <2>1, <2>2 DEF Seen, UniqueAmong
  <1>17. ASSUME NEW q \in Requests \ {p}
         PROVE  Between(p, q)'
    <2>1. Between(p, q)
      BY <1>1 DEF IndexInv
    <2>2. \A z \in Rules : written'[q] = written[q] /\ Entered(q, z)' = Entered(q, z)
      BY <1>7 DEF Alone, Entered, Entering
    <2> QED
      BY <1>15, <2>1, <2>2 DEF Between, UniqueAmong
  <1> QED
    BY <1>7, <1>10, <1>14, <1>16, <1>17, AloneKeepsInv

\* A statement that writes a row, skips it or fails.
LEMMA WriteKeepsInv ==
    ASSUME Inv, NEW p \in Requests, write(p)
    PROVE  Inv'
  <1> DEFINE s == Head(todo[p])
             gone == s.kind # "insert" /\ View(p, s.rule) = NoRow
  <1>1. /\ pc[p] = "writing" /\ todo[p] # <<>>
        /\ UNCHANGED <<rows, overtaken, started, policy, notification, replay>>
    BY DEF write
  <1>2. TxInv(p) /\ Busy(p) /\ request[p] \in RequestType
    BY <1>1, Executing
  <1>3. Asked(request[p], s)
    BY <1>1, <1>2, First
  <1>4. Len(request[p].rules) \in Nat /\ Len(request[p].rules) # 0
    <2>1. request[p].rules \in Seq(Rules)
      BY <1>2 DEF RequestType
    <2>2. request[p].rules # <<>>
      BY <1>3 DEF Asked, ToSet
    <2> QED
      BY <2>1, <2>2, EmptySeq
  <1> HIDE DEF s
  <1>5. CASE gone /\ s.kind = "update" /\ Len(request[p].rules) = 1
    <2>1. Finish(p)
      BY <1>5 DEF write, s
    <2> QED
      BY <1>1, <2>1, FinishKeepsInv
  <1>6. CASE gone /\ ~(s.kind = "update" /\ Len(request[p].rules) = 1)
    <2>1. s.kind # "update" \/ Len(request[p].rules) > 1
      <3> DEFINE n == Len(request[p].rules)
      <3>1. n \in Nat /\ n # 0
        BY <1>4
      <3>2. s.kind # "update" \/ n # 1
        BY <1>6
      <3> HIDE DEF n
      <3>3. s.kind # "update" \/ n > 1
        BY <3>1, <3>2
      <3> QED
        BY <3>3 DEF n
    <2>2. Go(p, "writing", Tail(todo[p])) /\ UNCHANGED <<written, request>>
      BY <1>6, <2>1 DEF write, s
    <2> QED
      BY <1>1, <1>6, <2>2, SkipKeepsInv DEF s
  <1>7. CASE ~gone
    <2>1. /\ written' = [written EXCEPT ![p][s.rule] = After(p, s)]
          /\ IF s.priority = Same THEN Go(p, "writing", Tail(todo[p]))
             ELSE Go(p, "indexing", todo[p])
          /\ UNCHANGED request
      BY <1>7 DEF write, s
    <2>2. CASE s.priority = Same
      BY <1>7, <2>1, <2>2, WritePlainKeepsInv DEF s
    <2>3. CASE s.priority # Same
      BY <1>7, <2>1, <2>3, WriteNumberKeepsInv DEF s
    <2> QED
      BY <2>2, <2>3
  <1> QED
    BY <1>5, <1>6, <1>7

\* A number that nobody has enters the index.
LEMMA EnterKeepsInv ==
    ASSUME Inv, NEW p \in Requests, index(p),
           ~Taken(p, Head(todo[p]).rule, Head(todo[p]).priority),
           Go(p, "writing", Tail(todo[p])), UNCHANGED <<written, request>>
    PROVE  Inv'
  <1> DEFINE s == Head(todo[p])
             x == s.rule
             r == request[p]
  <1>1. TypeInv /\ IndexInv /\ RowLocks
    BY DEF Inv
  <1>2. /\ pc[p] = "indexing" /\ UNCHANGED <<rows, overtaken, started>>
        /\ IndexHolders(p, ListOf[x], s.priority) = {}
    BY DEF index
  <1>3. TxInv(p) /\ Busy(p) /\ r \in RequestType /\ r.op \in Inserting \cup {"update", "delete", "reorder"}
    BY <1>2, Executing
  <1>4. /\ todo[p] # <<>> /\ s.priority # Same /\ written[p][x] \notin {Same, NoRow}
        /\ written[p][x].priority = s.priority
    BY <1>2, <1>3 DEF TxInv, EnteringInv
  <1>5. /\ Len(todo[p]) \in Nat \ {0} /\ s = todo[p][1] /\ x \in Rules /\ Asked(r, s)
        /\ Tail(todo[p]) \in Seq(Statements)
        /\ \A i \in 1 .. Len(Tail(todo[p])) :
              i + 1 \in 1 .. Len(todo[p]) /\ Tail(todo[p])[i] = todo[p][i + 1]
        /\ \A i \in 1 .. Len(todo[p]) :
              i = 1 \/ (i - 1 \in 1 .. Len(Tail(todo[p])) /\ todo[p][i] = Tail(todo[p])[i - 1])
        /\ Len(todo[p]) <= 1 => Tail(todo[p]) = <<>>
        /\ FinalsLast(todo[p]) => FinalsLast(Tail(todo[p]))
        /\ KeysRise(todo[p]) => KeysRise(Tail(todo[p]))
    BY <1>3, <1>4, First
  <1>6. ~Taken(p, x, s.priority)
    OBVIOUS
  <1> HIDE DEF s, x
  <1>7. /\ Alone(p) /\ pc'[p] = "writing" /\ todo'[p] = Tail(todo[p]) /\ request' = request
        /\ written' = written /\ rows' = rows
    BY <1>1, <1>2 DEF Go, TypeInv, Alone
  <1>8. TypeInv'
    <2> HIDE DEF Statements, RequestType, Rows
    <2> QED
      BY <1>1, <1>2, <1>5 DEF Go, TypeInv, Places
  <1>9. Shape(p)' /\ EnteringInv(p)'
    <2>1. r.op \notin Evaluating \cup {"reorder"} => todo'[p] = <<>>
      BY <1>3, <1>5, <1>7 DEF TxInv, Shape
    <2>2. todo'[p] = <<>> => Len(todo'[p]) <= 1
      OBVIOUS
    <2> QED
      BY <1>2, <1>3, <1>7, <2>1, <2>2
      DEF TxInv, Shape, EnteringInv, Busy, NothingWritten, Evaluating, Inserting
  <1>10. AskedInv(p)'
    <2>1. \A i \in 1 .. Len(Tail(todo[p])) : Asked(r, Tail(todo[p])[i])
      BY <1>3, <1>5 DEF TxInv, AskedInv
    <2> QED
      BY <1>7, <2>1 DEF AskedInv, Asked, FirstNumber, FinalNumber
  <1>11. DoneInv(p)'
    BY <1>3, <1>7 DEF TxInv, DoneInv, Done, OfRule, Busy, FirstNumber, FinalNumber
  <1>12. FreshInv(p)' /\ Apart(p)'
    BY <1>3, <1>7, SameRules DEF Inserts, Busy
  <1>13. ReorderInv(p)'
    <2> SUFFICES ASSUME IsReorder(p)
                 PROVE  ReorderInv(p)'
      BY <1>7 DEF ReorderInv, IsReorder, Busy
    <2>1. ReorderInv(p) /\ DoneInv(p) /\ r.op = "reorder"
      BY <1>3 DEF TxInv, IsReorder
    <2>2. FinalsLast(todo[p])' /\ KeysRise(todo[p])'
      BY <1>5, <1>7, <2>1 DEF ReorderInv, IsReorder, FinalsLast, KeysRise, IsFinal
    <2>3. FirstPass(p)'
      <3> SUFFICES ASSUME NEW y \in Rules, NEW i \in 1 .. Len(Tail(todo[p])),
                          written[p][y] # Same, ~IsFinal(Tail(todo[p])[i])
                   PROVE  Key[y] < Key[Tail(todo[p])[i].rule]
        BY <1>7 DEF FirstPass, IsFinal
      <3>1. FirstPass(p)
        BY <2>1 DEF ReorderInv
      <3>2. i + 1 # 1 /\ i + 1 \in 1 .. Len(todo[p]) /\ Tail(todo[p])[i] = todo[p][i + 1]
        BY <1>5
      <3> QED
        BY <3>1, <3>2 DEF FirstPass
    <2>4. FirstDone(p)'
      <3> SUFFICES ASSUME NEW y \in ToSet(r.rules), rows[y] # NoRow, written[p][y] = Same
                   PROVE  \E i \in 1 .. Len(Tail(todo[p])) :
                             Tail(todo[p])[i].rule = y /\ ~IsFinal(Tail(todo[p])[i])
        BY <1>7 DEF FirstDone, IsFinal
      <3>1. PICK i \in 1 .. Len(todo[p]) : todo[p][i].rule = y /\ ~IsFinal(todo[p][i])
        BY <2>1 DEF ReorderInv, FirstDone
      <3>2. i # 1
        BY <1>4, <1>5, <3>1 DEF x
      <3> QED
        BY <1>5, <3>1, <3>2
    <2>5. LastDone(p)'
      <3>1. ASSUME NEW y \in ToSet(r.rules), rows[y] # NoRow,
                   ~(written[p][y] # Same /\ written[p][y].priority = FinalNumber(r, y))
            PROVE  \E i \in 1 .. Len(Tail(todo[p])) :
                      Tail(todo[p])[i].rule = y /\ IsFinal(Tail(todo[p])[i])
        <4>1. PICK i \in 1 .. Len(todo[p]) : todo[p][i].rule = y /\ IsFinal(todo[p][i])
          BY <2>1, <3>1 DEF ReorderInv, LastDone
        <4>2. i # 1
          <5> SUFFICES ASSUME i = 1
                       PROVE  FALSE
            OBVIOUS
          <5>1. y = x /\ s.priority > 0
            BY <1>5, <4>1 DEF IsFinal, x
          <5>2. s.priority \in {FirstNumber(r, x), FinalNumber(r, x)}
            BY <1>5, <2>1 DEF Asked, x
          <5>3. Place(r.rules, x) \in Nat \ {0}
            <6>1. IsInjective(r.rules) /\ r.rules \in Seq(Rules) /\ x \in ToSet(r.rules)
              BY <1>3, <2>1, <3>1, <5>1 DEF ReorderInv, RequestType
            <6> QED
              BY <6>1, Placed
          <5>4. s.priority = FinalNumber(r, x)
            BY <5>1, <5>2, <5>3 DEF FirstNumber, Number
          <5> QED
            BY <1>4, <3>1, <5>1, <5>4
        <4> QED
          BY <1>5, <4>1, <4>2
      <3>2. /\ request'[p] = r /\ rows' = rows /\ written'[p] = written[p]
            /\ todo'[p] = Tail(todo[p])
        BY <1>7
      <3> QED
        BY ONLY <3>1, <3>2, LastDoneNext
    <2> QED
      BY <1>7, <2>1, <2>2, <2>3, <2>4, <2>5 DEF ReorderInv
  <1>14. TxInv(p)'
    BY <1>9, <1>10, <1>11, <1>12, <1>13 DEF TxInv
  <1>15. View(p, x) = written[p][x] /\ \A y \in Rules : Entering(p, y) => y = x
    BY <1>4 DEF View, Entering, s, x
  <1>16. Seen(p)'
    <2> SUFFICES ASSUME NEW y \in Rules, NEW z \in Rules, View(p, y) # NoRow, View(p, z) # NoRow,
                        y # z, ListOf[y] = ListOf[z]
                 PROVE  View(p, y).priority # View(p, z).priority
      BY <1>7 DEF Seen, Settled, View, UniqueAmong
    <2>1. CASE y = x \/ z = x
      BY <1>4, <1>6, <1>15, <2>1 DEF Taken
    <2>2. CASE y # x /\ z # x
      BY <1>1, <1>15, <2>2 DEF IndexInv, Seen, Settled, UniqueAmong
    <2> QED
      BY <2>1, <2>2
  <1>17. ASSUME NEW q \in Requests \ {p}
         PROVE  Between(p, q)'
    <2> SUFFICES ASSUME NEW y \in Rules, NEW z \in Rules, written[p][y] \notin {Same, NoRow},
                        Entered(q, z), y # z, ListOf[y] = ListOf[z]
                 PROVE  written[p][y].priority # written[q][z].priority
      BY <1>7 DEF Between, Entered, Entering, Alone, UniqueAmong
    <2>1. CASE y = x
      <3>1. q \notin IndexHolders(p, ListOf[x], s.priority)
        BY <1>2 DEF s, x
      <3> QED
        BY <1>4, <2>1, <3>1 DEF IndexHolders, Entered
    <2>2. CASE y # x
      <3>1. Entered(p, y)
        BY <1>15, <2>2 DEF Entered
      <3> QED
        BY <1>1, <3>1 DEF IndexInv, Between, UniqueAmong
    <2> QED
      BY <2>1, <2>2
  <1>18. \A q \in Requests \ {p}, y \in Rules : written'[p][y] = Same \/ written[q][y] = Same
    BY <1>1, <1>7 DEF RowLocks
  <1> QED
    BY <1>7, <1>8, <1>12, <1>14, <1>16, <1>17, <1>18, AloneKeepsInv

\* An automatic number that is taken is computed again.
LEMMA RetryKeepsInv ==
    ASSUME Inv, NEW p \in Requests, pc[p] = "indexing", request[p].op = "append",
           retry(p, Head(todo[p])), UNCHANGED <<rows, overtaken, started>>
    PROVE  Inv' /\ request'[p].op = "append_again"
  <1> DEFINE x == Head(todo[p]).rule
             r == request[p]
  <1>1. TypeInv
    BY DEF Inv
  <1>2. TxInv(p) /\ Busy(p) /\ r \in RequestType
    BY Executing
  <1>3. todo[p] # <<>>
    BY <1>2 DEF TxInv, EnteringInv
  <1>4. x \in Rules /\ x \in ToSet(r.rules)
    BY <1>2, <1>3, First DEF Asked
  <1>5. Len(r.rules) = 1
    BY <1>2 DEF TxInv, Shape, Evaluating
  <1>6. \A y \in ToSet(r.rules) : y = x
    <2>1. r.rules \in Seq(Rules)
      BY <1>2 DEF RequestType
    <2> QED
      BY <1>4, <1>5, <2>1 DEF ToSet
  <1> HIDE DEF x
  <1>7. /\ written' = [written EXCEPT ![p][x] = Same]
        /\ request' = [request EXCEPT ![p].op = "append_again"]
        /\ pc' = [pc EXCEPT ![p] = "reading"] /\ todo' = [todo EXCEPT ![p] = <<>>]
    BY DEF retry, Go, x
  <1>8. request'[p] = [r EXCEPT !.op = "append_again"]
    BY <1>1, <1>7 DEF TypeInv
  <1>9. request'[p] \in RequestType
    <2>1. "append_again" \in {"create", "append", "append_again", "update", "delete", "reorder",
                              "ingest", "replay"}
      OBVIOUS
    <2> QED
      BY <1>2, <1>8, <2>1 DEF RequestType
  <1>10. /\ request'[p].op = "append_again" /\ request'[p].rules = r.rules
    BY <1>2, <1>8 DEF RequestType
  <1>11. request'[p] # NoRequest
    BY <1>9, NamesAssumption
  <1>12. Alone(p) /\ pc'[p] = "reading" /\ todo'[p] = <<>>
    BY <1>1, <1>7 DEF TypeInv, Alone
  <1>13. NothingWritten(p)'
    <2>1. \A y \in Rules : y # x => written[p][y] = Same
      BY <1>2, <1>6 DEF TxInv, DoneInv, Done
    <2> QED
      BY <1>1, <1>4, <1>7, <2>1 DEF TypeInv, NothingWritten
  <1>14. TypeInv'
    <2> HIDE DEF Statements, RequestType, Rows
    <2>1. request' = [request EXCEPT ![p] = request'[p]]
      BY <1>1, <1>7, <1>8 DEF TypeInv
    <2>2. request' \in [Requests -> RequestType \cup {NoRequest}]
      BY <1>1, <1>9, <2>1 DEF TypeInv
    <2>3. written' \in [Requests -> [Rules -> Rows \cup {NoRow, Same}]]
      BY <1>1, <1>4, <1>7 DEF TypeInv
    <2>4. pc' \in [Requests -> Places] /\ todo' \in [Requests -> Seq(Statements)]
      BY <1>1, <1>7 DEF TypeInv, Places
    <2> QED
      BY <1>1, <2>2, <2>3, <2>4 DEF TypeInv
  <1>15. Shape(p)' /\ EnteringInv(p)' /\ AskedInv(p)' /\ DoneInv(p)' /\ ReorderInv(p)'
    <2>1. Len(<<>>) <= 1
      OBVIOUS
    <2> QED
      BY <1>5, <1>10, <1>11, <1>12, <1>13, <2>1
      DEF Shape, EnteringInv, AskedInv, DoneInv, NothingWritten, ReorderInv, IsReorder, Busy,
          Evaluating
  <1>16. FreshInv(p)' /\ Apart(p)'
    BY <1>2, <1>10, <1>12, SameRules DEF Inserts, Busy, Inserting
  <1>17. TxInv(p)'
    BY <1>15, <1>16 DEF TxInv
  <1>18. Seen(p)'
    <2>1. Committed /\ rows' = rows
      BY DEF Inv, IndexInv
    <2> QED
      BY <1>13, <2>1 DEF Seen, Settled, View, Committed, UniqueAmong, NothingWritten
  <1>19. \A q \in Requests \ {p} : Between(p, q)'
    BY <1>13 DEF Between, Entered, NothingWritten
  <1>20. \A q \in Requests \ {p}, y \in Rules : written'[p][y] = Same \/ written[q][y] = Same
    BY <1>13 DEF NothingWritten
  <1> QED
    BY <1>10, <1>12, <1>14, <1>16, <1>17, <1>18, <1>19, <1>20, AloneKeepsInv

\* Entering a number in the unique index, and being refused there.
LEMMA IndexKeepsInv ==
    ASSUME Inv, NEW p \in Requests, index(p)
    PROVE  Inv'
  <1> DEFINE s == Head(todo[p])
  <1>1. pc[p] = "indexing" /\ UNCHANGED <<rows, overtaken, started, policy, notification, replay>>
    BY DEF index
  <1> HIDE DEF s
  <1>2. CASE ~Taken(p, s.rule, s.priority)
    <2>1. Go(p, "writing", Tail(todo[p])) /\ UNCHANGED <<written, request>>
      BY <1>2 DEF index, s
    <2> QED
      BY <1>2, <2>1, EnterKeepsInv DEF s
  <1>3. CASE Taken(p, s.rule, s.priority) /\ request[p].op = "append"
    <2>1. retry(p, s)
      BY <1>3 DEF index, s
    <2> QED
      BY <1>1, <1>3, <2>1, RetryKeepsInv DEF s
  <1>4. CASE Taken(p, s.rule, s.priority) /\ request[p].op # "append"
    <2>1. Finish(p)
      BY <1>4 DEF index, s
    <2> QED
      BY <1>1, <2>1, FinishKeepsInv
  <1> QED
    BY <1>2, <1>3, <1>4

-----------------------------------------------------------------------------
(* The commit. *)

\* Every row that p has written is one it has done with.
LEMMA CommitIs ==
    ASSUME Inv, NEW p \in Requests, commit(p)
    PROVE  /\ TxInv(p) /\ Busy(p) /\ pc[p] = "writing" /\ todo[p] = <<>>
           /\ \A x \in Rules : rows'[x] = View(p, x)
           /\ \A x \in Rules : written[p][x] = Same => rows'[x] = rows[x]
           /\ \A x \in Rules : written[p][x] # Same =>
                 /\ rows'[x] = written[p][x] /\ x \in ToSet(request[p].rules)
                 /\ Done(request[p], x, rows[x], written[p][x])
           /\ \A x \in Rules : ~Entering(p, x)
  <1>1. pc[p] = "writing" /\ todo[p] = <<>> /\ rows' = [x \in Rules |-> View(p, x)]
    BY DEF commit
  <1>2. TxInv(p) /\ Busy(p)
    BY <1>1, Executing
  <1> QED
    BY <1>1, <1>2 DEF TxInv, DoneInv, Done, View, Entering

\* A renumbering that commits has given the final numbers.
LEMMA CommitIsFinal ==
    ASSUME Inv, NEW p \in Requests, commit(p), request[p].op = "reorder",
           NEW x \in ToSet(request[p].rules), rows'[x] # NoRow
    PROVE  /\ x \in Rules /\ rows'[x].priority = FinalNumber(request[p], x)
           /\ Place(request[p].rules, x) \in DOMAIN request[p].rules
           /\ rows'[x].priority = Place(request[p].rules, x) * 10
           /\ rows'[x].priority \in Nat
  <1> DEFINE r == request[p]
  <1>1. /\ ReorderInv(p) /\ IsReorder(p) /\ todo[p] = <<>> /\ pc[p] = "writing"
        /\ \A y \in Rules : written[p][y] = Same => rows'[y] = rows[y]
        /\ \A y \in Rules : written[p][y] # Same =>
              rows'[y] = written[p][y] /\ Done(r, y, rows[y], written[p][y])
    BY CommitIs DEF TxInv, IsReorder
  <1>2. IsInjective(r.rules) /\ r.rules \in Seq(Rules) /\ LastDone(p)
    BY <1>1, Executing DEF ReorderInv, RequestType
  <1>3. /\ x \in Rules /\ Place(r.rules, x) \in 1 .. Len(r.rules)
        /\ DOMAIN r.rules = 1 .. Len(r.rules)
    BY <1>2, Placed
  <1>4. rows[x] # NoRow
    BY <1>1, <1>3 DEF Done, Inserting
  <1>5. written[p][x] # Same /\ written[p][x].priority = FinalNumber(r, x)
    BY <1>1, <1>2, <1>4 DEF LastDone
  <1> QED
    BY <1>1, <1>3, <1>5 DEF FinalNumber, Number, STEP

\* A row that another request has written is not changed.
LEMMA CommitSpares ==
    ASSUME Inv, NEW p \in Requests, commit(p), NEW q \in Requests, q # p, Busy(q),
           NEW x \in Rules
    PROVE  /\ written[q][x] # Same => rows'[x] = rows[x]
           /\ x \in ToSet(request[q].rules) /\ rows[x] = NoRow => rows'[x] = NoRow
           /\ Inserts(q) /\ x \in ToSet(request[q].rules) => rows'[x] = rows[x]
  <1>1. /\ Busy(p) /\ FreshInv(p) /\ FreshInv(q)
        /\ \A y \in Rules : written[p][y] = Same => rows'[y] = rows[y]
        /\ \A y \in Rules : written[p][y] # Same =>
              /\ rows'[y] = written[p][y] /\ y \in ToSet(request[p].rules)
              /\ Done(request[p], y, rows[y], written[p][y])
    BY CommitIs DEF Inv, TxInv
  <1>2. written[q][x] # Same => written[p][x] = Same
    BY DEF Inv, RowLocks
  <1>3. ASSUME x \in ToSet(request[q].rules), rows[x] = NoRow, rows'[x] # NoRow
        PROVE  FALSE
    <2>1. Inserts(p) /\ x \in ToSet(request[p].rules)
      BY <1>1, <1>3 DEF Done, Inserts
    <2> QED
      BY <1>3, <2>1, <1>1 DEF FreshInv
  <1>4. Inserts(q) /\ x \in ToSet(request[q].rules) => rows[x] = NoRow
    BY <1>1 DEF FreshInv
  <1> QED
    BY <1>1, <1>2, <1>3, <1>4

\* A commit installs the rows of its request and disturbs nobody else's.
LEMMA CommitKeepsInv ==
    ASSUME Inv, NEW p \in Requests, commit(p)
    PROVE  Inv'
  <1>1. TypeInv /\ RowsInv /\ RowLocks /\ IndexInv
    BY DEF Inv
  <1>2. /\ TxInv(p) /\ Busy(p) /\ pc[p] = "writing" /\ todo[p] = <<>>
        /\ \A x \in Rules : rows'[x] = View(p, x)
        /\ \A x \in Rules : written[p][x] = Same => rows'[x] = rows[x]
        /\ \A x \in Rules : written[p][x] # Same =>
              /\ rows'[x] = written[p][x] /\ x \in ToSet(request[p].rules)
              /\ Done(request[p], x, rows[x], written[p][x])
        /\ \A x \in Rules : ~Entering(p, x)
    BY CommitIs
  <1>3. /\ written' = [written EXCEPT ![p] = [x \in Rules |-> Same]]
        /\ request' = [request EXCEPT ![p] = NoRequest]
        /\ pc' = [pc EXCEPT ![p] = "idle"] /\ todo' = [todo EXCEPT ![p] = <<>>]
        /\ rows' = [x \in Rules |-> View(p, x)] /\ started' = started
    BY DEF commit, Finish, Go
  <1>4. /\ \A x \in Rules : written'[p][x] = Same
        /\ request'[p] = NoRequest /\ pc'[p] = "idle" /\ todo'[p] = <<>>
        /\ \A q \in Requests \ {p} : /\ written'[q] = written[q] /\ request'[q] = request[q]
                                     /\ pc'[q] = pc[q] /\ todo'[q] = todo[q]
    BY <1>1, <1>3 DEF TypeInv
  <1>5. TypeInv'
    <2>1. rows' \in [Rules -> Rows \cup {NoRow}]
      BY <1>1, <1>3 DEF TypeInv, View
    <2>2. overtaken' \in [Requests -> Nat]
      BY <1>1 DEF TypeInv, commit
    <2> HIDE DEF Statements, RequestType, Rows
    <2>3. written' \in [Requests -> [Rules -> Rows \cup {NoRow, Same}]]
      BY <1>1, <1>3 DEF TypeInv
    <2>4. /\ request' \in [Requests -> RequestType \cup {NoRequest}]
          /\ pc' \in [Requests -> Places] /\ todo' \in [Requests -> Seq(Statements)]
      BY <1>1, <1>3 DEF TypeInv, Places
    <2>5. started' \in 0 .. MaxRequests
      BY <1>1, <1>3 DEF TypeInv
    <2> QED
      BY <2>1, <2>2, <2>3, <2>4, <2>5 DEF TypeInv
  <1>6. RowsInv'
    <2> SUFFICES ASSUME NEW x \in Rules, rows'[x] # NoRow
                 PROVE  OfRule(x, rows'[x]) /\ rows'[x].priority \in Nat
      BY DEF RowsInv, OfRule
    <2>1. CASE written[p][x] = Same
      BY <1>1, <1>2, <2>1 DEF RowsInv
    <2>2. CASE written[p][x] # Same /\ request[p].op # "reorder"
      BY <1>2, <2>2 DEF Done
    <2>3. CASE written[p][x] # Same /\ request[p].op = "reorder"
      BY <1>2, <2>3, CommitIsFinal DEF Done
    <2> QED
      BY <2>1, <2>2, <2>3
  <1>7. RowLocks'
    BY <1>1, <1>4 DEF RowLocks
  <1>8. \A x, y \in Rules : View(p, x) # NoRow /\ View(p, y) # NoRow
                               => UniqueAmong(x, y, View(p, x), View(p, y))
    BY <1>1, <1>2 DEF IndexInv, Seen, Settled
  <1>9. Committed'
    BY <1>2, <1>8 DEF Committed, UniqueAmong
  <1>10. Seen(p)'
    BY <1>2, <1>4, <1>8 DEF Seen, Settled, View, UniqueAmong
  <1>11. ASSUME NEW q \in Requests, q # p
         PROVE  Seen(q)'
    <2> SUFFICES ASSUME NEW x \in Rules, NEW y \in Rules, Settled(q, x)', Settled(q, y)',
                        x # y, ListOf[x] = ListOf[y]
                 PROVE  View(q, x)'.priority # View(q, y)'.priority
      BY DEF Seen, UniqueAmong
    <2>1. written'[q] = written[q] /\ pc'[q] = pc[q] /\ todo'[q] = todo[q]
      BY <1>4, <1>11
    <2>2. ASSUME NEW z \in Rules, Settled(q, z)'
          PROVE  /\ written[q][z] = Same => View(q, z)' = View(p, z) /\ View(p, z) # NoRow
                 /\ written[q][z] # Same => View(q, z)' = written[q][z] /\ Entered(q, z)
                                            /\ Settled(q, z) /\ View(q, z) = written[q][z]
      BY <1>2, <2>1, <2>2 DEF Settled, View, Entering, Entered
    <2>3. CASE written[q][x] = Same /\ written[q][y] = Same
      BY <1>8, <2>2, <2>3 DEF UniqueAmong
    <2>4. CASE written[q][x] # Same /\ written[q][y] # Same
      BY <1>1, <2>2, <2>4 DEF IndexInv, Seen, UniqueAmong
    <2>5. ASSUME NEW v \in Rules, NEW w \in Rules, v # w, ListOf[v] = ListOf[w],
                 written[q][v] # Same, written[q][w] = Same, Settled(q, v)', Settled(q, w)'
          PROVE  View(q, v)'.priority # View(q, w)'.priority
      <3>1. /\ View(q, v)' = written[q][v] /\ Entered(q, v) /\ Settled(q, v)
            /\ View(q, v) = written[q][v] /\ View(q, w)' = View(p, w) /\ View(p, w) # NoRow
        BY <2>2, <2>5
      <3>2. CASE written[p][w] = Same
        <4>1. View(p, w) = rows[w] /\ View(q, w) = rows[w]
          BY <2>5, <3>2 DEF View
        <4>2. ~Entering(q, w)
          BY <1>11, <2>5 DEF Inv, TxInv, EnteringInv, Entering
        <4>3. Settled(q, w)
          BY <3>1, <4>1, <4>2 DEF Settled
        <4> QED
          BY <1>1, <2>5, <3>1, <4>1, <4>3 DEF IndexInv, Seen, UniqueAmong
      <3>3. CASE written[p][w] # Same
        <4>1. View(p, w) = written[p][w] /\ Entered(p, w)
          BY <1>2, <3>1, <3>3 DEF View, Entered
        <4>2. Between(p, q)
          BY <1>1, <1>11 DEF IndexInv
        <4>3. written[p][w].priority # written[q][v].priority
          BY <2>5, <3>1, <4>1, <4>2 DEF Between, UniqueAmong
        <4> QED
          BY <3>1, <4>1, <4>3
      <3> QED
        BY <3>2, <3>3
    <2>6. CASE written[q][x] # Same /\ written[q][y] = Same
      BY <2>5, <2>6
    <2>7. CASE written[q][x] = Same /\ written[q][y] # Same
      <3>1. View(q, y)'.priority # View(q, x)'.priority
        BY <2>5, <2>7
      <3> QED
        BY <3>1
    <2> QED
      BY <2>3, <2>4, <2>6, <2>7
  <1>12. ASSUME NEW o \in Requests, NEW q \in Requests, o # q
         PROVE  Between(o, q)'
    <2>1. CASE o = p \/ q = p
      BY <1>4, <2>1 DEF Between, Entered
    <2>2. CASE o # p /\ q # p
      <3>1. Between(o, q)
        BY <1>1, <1>12 DEF IndexInv
      <3> QED
        BY <1>4, <2>2, <3>1 DEF Between, Entered, Entering, UniqueAmong
    <2> QED
      BY <2>1, <2>2
  <1>13. TxInv(p)'
    BY <1>4
    DEF TxInv, Shape, EnteringInv, AskedInv, DoneInv, FreshInv, ReorderInv, Busy,
        Inserts, IsReorder, NothingWritten
  <1>14. ASSUME NEW q \in Requests, q # p
         PROVE  TxInv(q)'
    <2>1. TxInv(q)
      BY DEF Inv
    <2>2. written'[q] = written[q] /\ request'[q] = request[q] /\ pc'[q] = pc[q] /\ todo'[q] = todo[q]
      BY <1>4, <1>14
    <2>3. \A x \in Rules : Busy(q) =>
             /\ written[q][x] # Same => rows'[x] = rows[x]
             /\ x \in ToSet(request[q].rules) /\ rows[x] = NoRow => rows'[x] = NoRow
             /\ Inserts(q) /\ x \in ToSet(request[q].rules) => rows'[x] = rows[x]
      BY <1>14, CommitSpares
    <2>4. Busy(q) => ToSet(request[q].rules) \subseteq Rules
      <3> SUFFICES ASSUME Busy(q)
                   PROVE  ToSet(request[q].rules) \subseteq Rules
        OBVIOUS
      <3>1. request[q].rules \in Seq(Rules)
        BY <1>1 DEF TypeInv, Busy, RequestType
      <3> QED
        BY <3>1 DEF ToSet
    <2>5. Shape(q)' /\ EnteringInv(q)' /\ AskedInv(q)'
      BY <2>1, <2>2
      DEF TxInv, Shape, EnteringInv, AskedInv, Asked, NothingWritten, Busy, FirstNumber, FinalNumber
    <2>6. DoneInv(q)'
      <3>1. DoneInv(q) /\ (Busy(q) => Busy(q)')
        BY <2>1, <2>2 DEF TxInv, Busy
      <3> QED
        BY <2>2, <2>3, <3>1, DoneNext DEF DoneInv
    <2>7. FreshInv(q)'
      <3> SUFFICES ASSUME Inserts(q), NEW x \in ToSet(request[q].rules)
                   PROVE  /\ rows'[x] = NoRow
                          /\ \A o \in Requests : o # q /\ Busy(o)' => x \notin ToSet(request'[o].rules)
        BY <2>2 DEF FreshInv, Inserts, Busy
      <3>1. rows[x] = NoRow /\ \A o \in Requests : o # q /\ Busy(o) => x \notin ToSet(request[o].rules)
        BY <2>1 DEF TxInv, FreshInv
      <3>2. x \in Rules /\ Busy(q)
        BY <2>4 DEF Inserts
      <3>3. \A o \in Requests : Busy(o)' => Busy(o) /\ request'[o] = request[o]
        BY <1>4 DEF Busy
      <3> QED
        BY <2>3, <3>1, <3>2, <3>3
    <2>8. ReorderInv(q)'
      <3> SUFFICES ASSUME IsReorder(q)
                   PROVE  ReorderInv(q)'
        BY <2>2 DEF ReorderInv, IsReorder, Busy
      <3>1. ReorderInv(q) /\ Busy(q)
        BY <2>1 DEF TxInv, IsReorder
      <3>2. FinalsLast(todo[q])' /\ KeysRise(todo[q])' /\ FirstPass(q)'
        BY <2>2, <3>1 DEF ReorderInv, IsReorder, FinalsLast, KeysRise, FirstPass, IsFinal
      <3>3. FirstDone(q)' /\ LastDone(q)'
        <4>1. FirstDone(q) /\ LastDone(q)
          BY <3>1 DEF ReorderInv
        <4>2. \A x \in ToSet(request[q].rules) : rows[x] = NoRow => rows'[x] = NoRow
          BY <2>3, <2>4, <3>1
        <4>3. FirstDone(q)'
          BY <2>2, <4>1, <4>2 DEF FirstDone, IsFinal
        <4>4. LastDone(q)'
          BY <2>2, <4>1, <4>2 DEF LastDone, IsFinal, FinalNumber
        <4> QED
          BY <4>3, <4>4
      <3> QED
        BY <2>2, <3>1, <3>2, <3>3 DEF ReorderInv, IsReorder
    <2> QED
      BY <2>5, <2>6, <2>7, <2>8 DEF TxInv
  <1>15. \A q \in Requests : TxInv(q)' /\ Seen(q)'
    BY <1>10, <1>11, <1>13, <1>14
  <1> QED
    BY <1>5, <1>6, <1>7, <1>9, <1>12, <1>15 DEF Inv, IndexInv

-----------------------------------------------------------------------------
(* The invariant, and the theorems that follow from it. *)

\* A step of p other than a commit.
Moves(p) ==
    \/ \E x \in Rules, n \in Numbers \cup {Same} : create_severity_rule(p, x, n)
    \/ \E x \in Rules, n \in Numbers \cup {Same}, e \in BOOLEAN \cup {Same} :
           update_severity_rule(p, x, n, e)
    \/ \E x \in Rules : delete_severity_rule(p, x)
    \/ \E list \in {Receiver} \cup ToSet(Presets) : \E order \in SetToSeqs(RowsOf(list)) :
           reorder_severity_rules(p, order)
    \/ \E op \in {"ingest", "replay"} : read_rules(p, op)
    \/ _next_priority(p)
    \/ _assert_priority_free(p)
    \/ write(p)
    \/ index(p)
    \/ Finish(p) /\ UNCHANGED <<rows, overtaken, started>>

\* Every step moves one request or commits it.
LEMMA Steps == Next => \E p \in Requests : Moves(p) \/ commit(p)
  <1> SUFFICES ASSUME NEW p \in Requests,
                      OnRules(p) \/ OnPresetRules(p) \/ Reordering(p) \/ Statement(p)
                      \/ Reading(p) \/ commit(p) \/ rollback(p)
               PROVE  Moves(p) \/ commit(p)
    BY DEF Next
  <1>1. CASE OnRules(p)
    <2>1. Own \subseteq Rules
      BY DEF Own
    <2> QED
      BY <1>1, <2>1 DEF OnRules, Moves
  <1>2. CASE OnPresetRules(p)
    BY <1>2 DEF OnPresetRules, Moves, create_preset_rule, update_preset_rule, delete_preset_rule
  <1>3. CASE Reordering(p)
    BY <1>3 DEF Reordering, Moves, reorder_preset_rules
  <1>4. CASE Statement(p)
    BY <1>4 DEF Statement, Moves
  <1>5. CASE Reading(p)
    <2>1. ASSUME NEW message \in Messages, prepare_notification(p, message)
          PROVE  Moves(p)
      BY <2>1 DEF prepare_notification, Moves
    <2>2. ASSUME replay_severity_rules(p)
          PROVE  Moves(p)
      BY <2>2 DEF replay_severity_rules, replay_with, Moves
    <2> QED
      BY <1>5, <2>1, <2>2 DEF Reading, Moves
  <1>6. CASE rollback(p)
    BY <1>6 DEF rollback, Moves
  <1> QED
    BY <1>1, <1>2, <1>3, <1>4, <1>5, <1>6

\* Every step keeps the invariant.
LEMMA NextKeepsInv == Inv /\ [Next]_vars => Inv'
  <1>1. ASSUME Inv, UNCHANGED vars
        PROVE  Inv'
    <2>1. /\ rows' = rows /\ written' = written /\ request' = request /\ pc' = pc /\ todo' = todo
          /\ overtaken' = overtaken /\ started' = started
      BY <1>1 DEF vars, txVars
    <2>2. TypeInv' /\ RowsInv' /\ RowLocks'
      BY <1>1, <2>1 DEF Inv, TypeInv, RowsInv, OfRule, RowLocks
    <2>3. Committed' /\ \A p \in Requests : Seen(p)' /\ \A q \in Requests : p # q => Between(p, q)'
      BY <1>1, <2>1
      DEF Inv, IndexInv, Committed, Seen, Between, Settled, Entered, View, Entering, UniqueAmong
    <2>4. ASSUME NEW p \in Requests
          PROVE  TxInv(p)'
      <3>1. TxInv(p)
        BY <1>1 DEF Inv
      <3>2. Shape(p)' /\ EnteringInv(p)' /\ AskedInv(p)'
        BY <2>1, <3>1
        DEF TxInv, Shape, EnteringInv, AskedInv, Asked, NothingWritten, Busy, FirstNumber,
            FinalNumber
      <3>3. DoneInv(p)' /\ FreshInv(p)'
        BY <2>1, <3>1
        DEF TxInv, DoneInv, Done, OfRule, FreshInv, Busy, Inserts, FirstNumber, FinalNumber
      <3>4. ReorderInv(p)'
        <4>1. IsReorder(p)' = IsReorder(p) /\ FinalsLast(todo[p])' = FinalsLast(todo[p])
              /\ KeysRise(todo[p])' = KeysRise(todo[p])
          BY <2>1 DEF IsReorder, Busy, FinalsLast, KeysRise, IsFinal
        <4>2. /\ FirstPass(p)' = FirstPass(p) /\ FirstDone(p)' = FirstDone(p)
              /\ LastDone(p)' = LastDone(p)
          BY <2>1 DEF FirstPass, FirstDone, LastDone, IsFinal, FinalNumber
        <4> QED
          BY <2>1, <3>1, <4>1, <4>2 DEF TxInv, ReorderInv
      <3> QED
        BY <3>2, <3>3, <3>4 DEF TxInv
    <2> QED
      BY <2>2, <2>3, <2>4 DEF Inv, IndexInv
  <1>2. ASSUME Inv, NEW p \in Requests, Moves(p)
        PROVE  Inv'
    <2>1. CASE \E list \in {Receiver} \cup ToSet(Presets) : \E order \in SetToSeqs(RowsOf(list)) :
                  reorder_severity_rules(p, order)
      BY <1>2, <2>1, ReorderKeepsInv
    <2>2. CASE Finish(p) /\ UNCHANGED <<rows, overtaken, started>>
      BY <1>2, <2>2, FinishKeepsInv
    <2> QED
      BY <1>2, <2>1, <2>2, CreateKeepsInv, UpdateKeepsInv, DeleteKeepsInv, ReadKeepsInv,
         NextPriorityKeepsInv, CheckKeepsInv, WriteKeepsInv, IndexKeepsInv DEF Moves
  <1> QED
    BY <1>1, <1>2, Steps, CommitKeepsInv

\* The inductive invariant holds in every state.
THEOREM Invariant == Spec => []Inv
  <1>1. Init => Inv
    BY InitInv
  <1>2. Inv /\ [Next]_vars => Inv'
    BY NextKeepsInv
  <1> QED
    BY <1>1, <1>2, PTL DEF Spec

\* The variables have their types, and the unique key of a list (list, priority) holds
\* of what is committed at any moment, whatever passes are under way.
THEOREM TypeCorrect == Spec => []TypeOK
  <1>1. Inv => TypeOK
    <2> SUFFICES ASSUME Inv
                 PROVE  TypeOK
      OBVIOUS
    <2>1. ASSUME NEW x \in Rules, rows[x] # NoRow
          PROVE  rows[x] = Row(x, rows[x].priority, rows[x].enabled)
      <3>1. rows[x] \in Rows /\ rows[x].list = ListOf[x] /\ rows[x].severity = SeverityOf[x]
        BY <2>1 DEF Inv, TypeInv, RowsInv, OfRule
      <3> QED
        BY <3>1 DEF Rows, Row
    <2>2. \A p \in Requests : pc[p] \in Places /\ (pc[p] = "idle" <=> request[p] = NoRequest)
      BY DEF Inv, TypeInv, TxInv, Shape
    <2> QED
      BY <2>1, <2>2 DEF Inv, TypeInv, IndexInv, Committed, UniqueAmong, TypeOK, Places
  <1> QED
    BY <1>1, Invariant, PTL

\* A commit changes only the columns its request asked for: what it has written holds the
\* row, so that nobody has changed it since it was read for the statement.
THEOREM EditsAreKept == Spec => EditsKeepEachOther
  <1>1. ASSUME Inv, NEW p \in Requests, commit(p), NEW x \in Rules, rows[x] # NoRow,
               rows'[x] # NoRow, NEW c \in {"priority", "enabled"}, rows'[x][c] # rows[x][c]
        PROVE  x \in ToSet(request[p].rules) /\ c \in request[p].columns
    <2>1. written[p][x] # Same => /\ rows'[x] = written[p][x] /\ x \in ToSet(request[p].rules)
                                  /\ Done(request[p], x, rows[x], written[p][x])
      BY <1>1, CommitIs
    <2>2. written[p][x] # Same
      BY <1>1, CommitIs
    <2> QED
      BY <1>1, <2>1, <2>2 DEF Done, Columns
  <1>2. Inv /\ [Next]_vars =>
          [\A p \in Requests : commit(p) =>
             \A x \in Rules : rows[x] # NoRow /\ rows'[x] # NoRow =>
               \A c \in {"priority", "enabled"} :
                 rows'[x][c] # rows[x][c]
                   => x \in ToSet(request[p].rules) /\ c \in request[p].columns]_vars
    BY <1>1
  <1>3. Spec => [][Next]_vars
    BY DEF Spec
  <1> QED
    BY <1>2, <1>3, Invariant, PTL DEF EditsKeepEachOther

\* A renumbering that commits leaves its rules in the order it was given, whatever other
\* requests did to them since it was checked.
THEOREM OrdersAreGiven == Spec => OrderAsGiven
  <1>1. ASSUME Inv, NEW p \in Requests, request[p].op = "reorder", commit(p),
               NEW i \in DOMAIN request[p].rules, NEW j \in DOMAIN request[p].rules, i < j,
               rows'[request[p].rules[i]] # NoRow, rows'[request[p].rules[j]] # NoRow
        PROVE  rows'[request[p].rules[i]].priority < rows'[request[p].rules[j]].priority
    <2> DEFINE order == request[p].rules
    <2>1. order \in Seq(Rules) /\ IsInjective(order)
      <3>1. pc[p] = "writing"
        BY <1>1 DEF commit
      <3> QED
        BY <1>1, <3>1, Executing DEF TxInv, ReorderInv, IsReorder, RequestType
    <2>2. \A k \in DOMAIN order : order[k] \in ToSet(order) /\ Place(order, order[k]) = k
      BY <2>1, Placed
    <2>3. rows'[order[i]].priority = i * 10 /\ rows'[order[j]].priority = j * 10
      BY <1>1, <2>2, CommitIsFinal
    <2>4. DOMAIN order \subseteq Int
      BY <2>1
    <2> HIDE DEF order
    <2>5. i \in Int /\ j \in Int
      BY <1>1, <2>4 DEF order
    <2> QED
      BY <1>1, <2>3, <2>5 DEF order
  <1>2. Inv /\ [Next]_vars =>
          [\A p \in Requests :
             request[p] # NoRequest /\ request[p].op = "reorder" /\ commit(p) =>
               LET order == request[p].rules
               IN  \A i, j \in DOMAIN order :
                     i < j /\ rows'[order[i]] # NoRow /\ rows'[order[j]] # NoRow
                       => rows'[order[i]].priority < rows'[order[j]].priority]_vars
    BY <1>1
  <1>3. Spec => [][Next]_vars
    BY DEF Spec
  <1> QED
    BY <1>2, <1>3, Invariant, PTL DEF OrderAsGiven

-----------------------------------------------------------------------------
(* Numbers that are refused. *)

\* What the others know of their numbers stays when nothing is committed.
LEMMA AppendWaits ==
    ASSUME NEW p \in Requests, AppendInv(p), rows' = rows, request'[p] = request[p],
           overtaken'[p] = overtaken[p],
           \/ pc'[p] = pc[p] /\ todo'[p] = todo[p]
           \/ pc[p] = "writing" /\ pc'[p] \in {"writing", "indexing"} /\ todo'[p] = todo[p]
           \/ todo'[p] = <<>>
    PROVE  AppendInv(p)'
  BY DEF AppendInv, NumberIsLast, RowsOf, Busy

\* A rule to be appended whose number is the last is not refused.
LEMMA LastIsFree ==
    ASSUME Inv, NEW p \in Requests, pc[p] = "indexing",
           request[p].op \in {"append", "append_again"},
           Taken(p, Head(todo[p]).rule, Head(todo[p]).priority)
    PROVE  ~NumberIsLast(p)
  <1> DEFINE s == Head(todo[p])
             r == request[p]
  <1>1. TxInv(p) /\ Busy(p) /\ r \in RequestType
    BY Executing
  <1>2. todo[p] # <<>>
    BY <1>1 DEF TxInv, EnteringInv
  <1>3. s.rule \in ToSet(r.rules)
    BY <1>1, <1>2, First DEF Asked
  <1>4. Len(r.rules) = 1 /\ r.rules \in Seq(Rules)
    BY <1>1 DEF TxInv, Shape, RequestType, Evaluating
  <1>5. \A x \in ToSet(r.rules) : x = s.rule
    BY <1>3, <1>4 DEF ToSet
  <1>6. PICK y \in Rules \ {s.rule} : /\ ListOf[y] = ListOf[s.rule] /\ View(p, y) # NoRow
                                      /\ View(p, y).priority = s.priority
    BY DEF Taken
  <1>7. written[p][y] = Same
    BY <1>1, <1>5, <1>6 DEF TxInv, DoneInv, Done
  <1>8. rows[y] # NoRow /\ rows[y].priority = s.priority /\ y \in RowsOf(ListOf[s.rule])
    BY <1>6, <1>7 DEF View, RowsOf
  <1>9. rows[y].priority \in Nat
    BY <1>6, <1>8 DEF Inv, RowsInv
  <1> HIDE DEF s
  <1>10. ~(rows[y].priority < s.priority)
    BY <1>8, <1>9
  <1> QED
    BY <1>8, <1>10 DEF NumberIsLast, s

\* No step but a commit takes a request away from the last number of its list.
LEMMA MovesKeepAppend ==
    ASSUME Inv, NEW p \in Requests, Moves(p), AppendInv(p)
    PROVE  AppendInv(p)'
  <1> DEFINE r == request[p]
  <1>1. TypeInv /\ TxInv(p)
    BY DEF Inv
  <1>2. ASSUME NEW new, NEW place, NEW statements, Begin(p, new, place, statements),
               new.op = "append" => place \notin {"writing", "indexing"},
               new.op # "append_again"
        PROVE  AppendInv(p)'
    <2>1. request'[p] = new /\ pc'[p] = place
      BY <1>1, <1>2 DEF Begin, Go, TypeInv
    <2> QED
      BY <1>2, <2>1 DEF AppendInv
  <1>3. ASSUME NEW x \in Rules, NEW n \in Numbers \cup {Same}, create_severity_rule(p, x, n)
        PROVE  AppendInv(p)'
    <2>1. CASE n = Same
      BY <1>2, <1>3, <2>1 DEF create_severity_rule, Request
    <2>2. CASE n # Same
      BY <1>2, <1>3, <2>2 DEF create_severity_rule, Request
    <2> QED
      BY <2>1, <2>2
  <1>4. ASSUME NEW x \in Rules, NEW n \in Numbers \cup {Same}, NEW e \in BOOLEAN \cup {Same},
               update_severity_rule(p, x, n, e)
        PROVE  AppendInv(p)'
    <2>1. PICK columns, place, statements : Begin(p, Request("update", <<x>>, columns), place, statements)
      BY <1>4 DEF update_severity_rule
    <2> QED
      BY <1>2, <2>1 DEF Request
  <1>5. ASSUME NEW x \in Rules, delete_severity_rule(p, x)
        PROVE  AppendInv(p)'
    BY <1>2, <1>5 DEF delete_severity_rule, Request
  <1>6. ASSUME NEW order, reorder_severity_rules(p, order)
        PROVE  AppendInv(p)'
    BY <1>2, <1>6 DEF reorder_severity_rules, Request
  <1>7. ASSUME NEW op \in {"ingest", "replay"}, read_rules(p, op)
        PROVE  AppendInv(p)'
    <2> DEFINE new == [Request(op, <<>>, {}) EXCEPT !.own = load_own_rules(Existing, Receiver)]
    <2>1. new.op = op
      BY DEF Request
    <2>2. Begin(p, new, "presets", <<>>)
      BY <1>7 DEF read_rules
    <2> HIDE DEF new
    <2> QED
      BY <1>2, <1>7, <2>1, <2>2
  <1>8. ASSUME Finish(p)
        PROVE  AppendInv(p)'
    <2>1. request'[p] = NoRequest
      BY <1>1, <1>8 DEF Finish, TypeInv
    <2> QED
      BY <2>1 DEF AppendInv, Busy
  <1>9. ASSUME _next_priority(p), ~Finish(p)
        PROVE  AppendInv(p)'
    <2> DEFINE x == Head(r.rules)
               n == NextNumber(ListOf[x])
    <2>1. /\ Go(p, "writing", <<Insert(x, n)>>) /\ request' = request /\ rows' = rows
          /\ overtaken' = overtaken /\ pc[p] = "reading"
      BY <1>9 DEF _next_priority
    <2>2. todo'[p] = <<Insert(x, n)>>
      BY <1>1, <2>1 DEF Go, TypeInv
    <2>3. Head(todo'[p]).rule = x /\ Head(todo'[p]).priority = n
      BY <2>2 DEF Insert
    <2>4. \A y \in RowsOf(ListOf[x]) : rows[y].priority < n
      BY NextNumberIs DEF Inv
    <2> HIDE DEF x, n
    <2>5. NumberIsLast(p)'
      BY <2>1, <2>3, <2>4 DEF NumberIsLast, RowsOf
    <2>6. Busy(p)
      BY <1>1, <2>1 DEF TxInv, Shape, Busy
    <2> QED
      BY <2>1, <2>5, <2>6 DEF AppendInv, Busy
  <1>10. ASSUME _assert_priority_free(p), ~Finish(p)
         PROVE  AppendInv(p)'
    <2>1. request' = request /\ pc[p] = "checking"
      BY <1>10 DEF _assert_priority_free
    <2>2. r.op \in {"create", "update"}
      BY <1>1, <2>1 DEF TxInv, Shape
    <2> QED
      BY <2>1, <2>2 DEF AppendInv
  <1>11. ASSUME write(p), ~Finish(p)
         PROVE  AppendInv(p)'
    <2>1. /\ pc[p] = "writing" /\ todo[p] # <<>> /\ request' = request /\ rows' = rows
          /\ overtaken' = overtaken
          /\ Go(p, "writing", Tail(todo[p])) \/ Go(p, "indexing", todo[p])
      BY <1>11 DEF write
    <2>2. \/ pc'[p] = "writing" /\ todo'[p] = Tail(todo[p])
          \/ pc'[p] = "indexing" /\ todo'[p] = todo[p]
      BY <1>1, <2>1 DEF Go, TypeInv
    <2>3. CASE r.op \notin {"append", "append_again"}
      BY <2>1, <2>3 DEF AppendInv
    <2>4. CASE r.op \in {"append", "append_again"}
      <3>1. Busy(p)
        BY <1>1, <2>1 DEF TxInv, Shape, Busy
      <3>2. Len(todo[p]) <= 1
        BY <1>1, <2>4, <3>1 DEF TxInv, Shape, Evaluating
      <3>3. Tail(todo[p]) = <<>>
        BY <2>1, <3>1, <3>2, First
      <3> QED
        BY <2>1, <2>2, <3>3, AppendWaits
    <2> QED
      BY <2>3, <2>4
  <1>12. ASSUME index(p), ~Finish(p)
         PROVE  AppendInv(p)'
    <2> DEFINE s == Head(todo[p])
    <2>1. pc[p] = "indexing" /\ rows' = rows /\ overtaken' = overtaken /\ started' = started
      BY <1>12 DEF index
    <2>2. Busy(p) /\ r.op \in Inserting \cup {"update", "delete", "reorder"}
      BY <2>1, Executing
    <2>3. todo[p] # <<>>
      BY <1>1, <2>1 DEF TxInv, EnteringInv
    <2> HIDE DEF s
    <2>4. CASE ~Taken(p, s.rule, s.priority)
      <3>1. Go(p, "writing", Tail(todo[p])) /\ request' = request
        BY <1>12, <2>4 DEF index, s
      <3>2. todo'[p] = Tail(todo[p])
        BY <1>1, <3>1 DEF Go, TypeInv
      <3>3. CASE r.op \notin {"append", "append_again"}
        BY <3>1, <3>3 DEF AppendInv
      <3>4. CASE r.op \in {"append", "append_again"}
        <4>1. Len(todo[p]) <= 1
          BY <1>1, <2>2, <3>4 DEF TxInv, Shape, Evaluating
        <4>2. todo'[p] = <<>>
          BY <2>2, <2>3, <3>2, <4>1, First
        <4> QED
          BY <2>1, <3>1, <4>2, AppendWaits
      <3> QED
        BY <3>3, <3>4
    <2>5. CASE Taken(p, s.rule, s.priority)
      <3>1. r.op = "append" /\ retry(p, s)
        BY <1>12, <2>5 DEF index, s
      <3>2. ~NumberIsLast(p)
        BY <2>1, <2>5, <3>1, LastIsFree DEF s
      <3>3. overtaken[p] >= 1
        BY <2>1, <2>2, <2>3, <3>1, <3>2 DEF AppendInv
      <3>4. request'[p].op = "append_again"
        BY <2>1, <3>1, RetryKeepsInv DEF s
      <3>5. pc'[p] = "reading"
        BY <1>1, <3>1 DEF retry, Go, TypeInv
      <3> QED
        BY <2>1, <3>3, <3>4, <3>5 DEF AppendInv
    <2> QED
      BY <2>4, <2>5
  <1> QED
    BY <1>3, <1>4, <1>5, <1>6, <1>7, <1>8, <1>9, <1>10, <1>11, <1>12 DEF Moves

\* A step of p touches nothing of the others but the rows.
LEMMA MovesAlone ==
    ASSUME Inv, NEW p \in Requests, Moves(p)
    PROVE  /\ Alone(p) /\ \A q \in Requests \ {p} : overtaken'[q] = overtaken[q]
  <1>1. TypeInv
    BY DEF Inv
  <1>2. ASSUME NEW new, NEW place, NEW statements, Begin(p, new, place, statements)
        PROVE  /\ Alone(p) /\ \A q \in Requests \ {p} : overtaken'[q] = overtaken[q]
    BY <1>1, <1>2 DEF Begin, Go, Alone, TypeInv
  <1>3. ASSUME Finish(p), UNCHANGED <<rows, overtaken>>
        PROVE  /\ Alone(p) /\ \A q \in Requests \ {p} : overtaken'[q] = overtaken[q]
    BY <1>1, <1>3 DEF Finish, Go, Alone, TypeInv
  <1>4. ASSUME NEW place, NEW statements, Go(p, place, statements), UNCHANGED <<rows, overtaken>>,
               \/ UNCHANGED written
               \/ \E x, row : written' = [written EXCEPT ![p][x] = row],
               \/ UNCHANGED request
               \/ \E op : request' = [request EXCEPT ![p].op = op]
        PROVE  /\ Alone(p) /\ \A q \in Requests \ {p} : overtaken'[q] = overtaken[q]
    <2>1. \A q \in Requests \ {p} : pc'[q] = pc[q] /\ todo'[q] = todo[q]
      BY <1>1, <1>4 DEF Go, TypeInv
    <2>2. \A q \in Requests \ {p} : written'[q] = written[q]
      BY <1>1, <1>4 DEF TypeInv
    <2>3. \A q \in Requests \ {p} : request'[q] = request[q]
      BY <1>1, <1>4 DEF TypeInv
    <2> QED
      BY <1>4, <2>1, <2>2, <2>3 DEF Alone
  <1>5. ASSUME NEW x \in Rules, NEW n \in Numbers \cup {Same}, create_severity_rule(p, x, n)
        PROVE  \E new, place, statements : Begin(p, new, place, statements)
    BY <1>5 DEF create_severity_rule
  <1>6. ASSUME NEW x \in Rules, NEW n \in Numbers \cup {Same}, NEW e \in BOOLEAN \cup {Same},
               update_severity_rule(p, x, n, e)
        PROVE  \E new, place, statements : Begin(p, new, place, statements)
    BY <1>6 DEF update_severity_rule
  <1>7. ASSUME NEW x \in Rules, delete_severity_rule(p, x)
        PROVE  \E new, place, statements : Begin(p, new, place, statements)
    BY <1>7 DEF delete_severity_rule
  <1>8. ASSUME NEW order, reorder_severity_rules(p, order)
        PROVE  \E new, place, statements : Begin(p, new, place, statements)
    BY <1>8 DEF reorder_severity_rules
  <1>9. ASSUME NEW op \in {"ingest", "replay"}, read_rules(p, op)
        PROVE  \E new, place, statements : Begin(p, new, place, statements)
    BY <1>9 DEF read_rules
  <1>10. CASE _next_priority(p) \/ _assert_priority_free(p)
    BY <1>3, <1>4, <1>10 DEF _next_priority, _assert_priority_free
  <1>11. CASE write(p)
    BY <1>3, <1>4, <1>11 DEF write
  <1>12. CASE index(p)
    BY <1>3, <1>4, <1>12 DEF index, retry
  <1> QED
    BY <1>2, <1>3, <1>5, <1>6, <1>7, <1>8, <1>9, <1>10, <1>11, <1>12 DEF Moves

\* A commit is counted by everybody else.
LEMMA CommitKeepsAppend ==
    ASSUME Inv, NEW p \in Requests, commit(p), NEW q \in Requests, AppendInv(q)
    PROVE  AppendInv(q)'
  <1>1. TypeInv /\ TxInv(q)
    BY DEF Inv
  <1>2. CASE q = p
    <2>1. request'[p] = NoRequest
      BY <1>1 DEF commit, Finish, TypeInv
    <2> QED
      BY <1>2, <2>1 DEF AppendInv, Busy
  <1>3. CASE q # p
    <2>1. request'[q] = request[q]
      BY <1>1, <1>3 DEF commit, Finish, TypeInv
    <2>2. Busy(q) => pc[q] # "idle"
      BY <1>1 DEF TxInv, Shape, Busy
    <2>3. Busy(q) => overtaken'[q] = overtaken[q] + 1 /\ overtaken[q] \in Nat
      BY <1>1, <1>3, <2>2 DEF commit, TypeInv
    <2> QED
      BY <2>1, <2>3 DEF AppendInv, Busy
  <1> QED
    BY <1>2, <1>3

\* The number of a creation at the end is the last of its list, or another commit came between.
LEMMA AppendInvariant == Spec => [](\A p \in Requests : AppendInv(p))
  <1> DEFINE All == \A p \in Requests : AppendInv(p)
  <1>1. Init => All
    BY DEF Init, AppendInv, Busy
  <1>2. Inv /\ All /\ [Next]_vars => All'
    <2>1. ASSUME Inv, All, NEW p \in Requests, Moves(p), NEW q \in Requests
          PROVE  AppendInv(q)'
      <3>1. CASE q = p
        BY <2>1, <3>1, MovesKeepAppend
      <3>2. CASE q # p
        <4>1. /\ rows' = rows /\ request'[q] = request[q] /\ overtaken'[q] = overtaken[q]
              /\ pc'[q] = pc[q] /\ todo'[q] = todo[q]
          BY <2>1, <3>2, MovesAlone DEF Alone
        <4> QED
          BY <2>1, <4>1, AppendWaits
      <3> QED
        BY <3>1, <3>2
    <2>2. ASSUME Inv, All, NEW p \in Requests, commit(p), NEW q \in Requests
          PROVE  AppendInv(q)'
      BY <2>2, CommitKeepsAppend
    <2>3. ASSUME All, UNCHANGED vars, NEW q \in Requests
          PROVE  AppendInv(q)'
      BY <2>3, AppendWaits DEF vars, txVars
    <2> QED
      BY <2>1, <2>2, <2>3, Steps
  <1> QED
    BY <1>1, <1>2, Invariant, PTL DEF Spec

\* The unique index refuses nobody for a number its author did not choose: a renumbering
\* never meets a rule of its own, and a rule to be appended is refused only when two other
\* requests have committed since it arrived.
THEOREM RefusalsHaveACause == Spec => []NumberRefusalsHaveACause
  <1>1. ASSUME Inv, \A p \in Requests : AppendInv(p)
        PROVE  NumberRefusalsHaveACause
    <2> SUFFICES ASSUME NEW p \in Requests, pc[p] = "indexing"
                 PROVE  LET x == Head(todo[p]).rule
                            n == Head(todo[p]).priority
                        IN  /\ request[p].op = "reorder" =>
                                  \A y \in ToSet(request[p].rules) \ {x} :
                                      View(p, y) # NoRow => View(p, y).priority # n
                            /\ request[p].op = "append_again" /\ WaitsFor(p) = {} /\ Taken(p, x, n)
                                  => overtaken[p] >= 2
      BY DEF NumberRefusalsHaveACause
    <2> DEFINE s == Head(todo[p])
               x == s.rule
               r == request[p]
    <2>1. Inv /\ AppendInv(p)
      BY <1>1
    <2>2. TxInv(p) /\ Busy(p) /\ r \in RequestType
      BY <2>1, Executing
    <2>3. todo[p] # <<>>
      BY <2>2 DEF TxInv, EnteringInv
    <2>4. /\ s = todo[p][1] /\ Len(todo[p]) \in Nat \ {0} /\ x \in Rules /\ Asked(r, s)
      BY <2>1, <2>2, <2>3, First
    <2> HIDE DEF s
    <2>5. ASSUME r.op = "append_again", Taken(p, x, s.priority)
          PROVE  overtaken[p] >= 2
      BY <2>1, <2>2, <2>3, <2>5, LastIsFree DEF AppendInv, s
    <2>6. ASSUME r.op = "reorder", NEW y \in ToSet(r.rules), y # x, View(p, y) # NoRow
          PROVE  View(p, y).priority # s.priority
      <3>1. ReorderInv(p) /\ DoneInv(p) /\ IsReorder(p)
        BY <2>2, <2>6 DEF TxInv, IsReorder
      <3>2. IsInjective(r.rules) /\ r.rules \in Seq(Rules)
        BY <2>2, <3>1 DEF ReorderInv, RequestType
      <3> DEFINE i == Place(r.rules, x)
                 j == Place(r.rules, y)
      <3>3. /\ i \in 1 .. Len(r.rules) /\ j \in 1 .. Len(r.rules) /\ y \in Rules
            /\ r.rules[i] = x /\ r.rules[j] = y /\ Len(r.rules) \in Nat
        BY <2>4, <2>6, <3>2, Placed DEF Asked
      <3>4. i # j /\ i \in Nat \ {0} /\ j \in Nat \ {0}
        BY <2>6, <3>3
      <3>5. s.priority \in {-i, i * 10}
        BY <2>4, <2>6 DEF Asked, FirstNumber, FinalNumber, Number, STEP
      <3>6. written[p][y] # Same => View(p, y) = written[p][y] /\ View(p, y).priority \in {-j, j * 10}
        BY <2>6, <3>1, <3>3 DEF View, DoneInv, Done, FirstNumber, FinalNumber, Number, STEP
      <3>7. written[p][y] = Same => View(p, y).priority \in Nat /\ rows[y] # NoRow
        BY <2>1, <2>6, <3>3 DEF View, Inv, RowsInv
      <3>8. s.priority > 0 => written[p][y] # Same
        <4> SUFFICES ASSUME s.priority > 0, written[p][y] = Same
                     PROVE  FALSE
          OBVIOUS
        <4>1. IsFinal(todo[p][1])
          BY <2>4 DEF IsFinal
        <4>2. \A k \in 1 .. Len(todo[p]) : IsFinal(todo[p][k])
          <5>1. \A k \in 1 .. Len(todo[p]) : k = 1 \/ 1 < k
            BY <2>4
          <5>2. 1 \in 1 .. Len(todo[p])
            BY <2>4
          <5> QED
            BY <3>1, <4>1, <5>1, <5>2 DEF ReorderInv, FinalsLast
        <4>3. rows[y] = NoRow
          BY <2>6, <3>1, <4>2 DEF ReorderInv, FirstDone
        <4> QED
          BY <3>7, <4>3
      <3> HIDE DEF i, j
      <3> QED
        BY <3>4, <3>5, <3>6, <3>7, <3>8
    <2> QED
      BY <2>5, <2>6 DEF s
  <1> QED
    BY <1>1, Invariant, AppendInvariant, PTL

-----------------------------------------------------------------------------
(* The replay. *)

\* What is stored is what the policy and the rules of its chain decide, or what the client
\* has named.
Decided(n) ==
    IF n.resolution.source = "explicit" THEN n.resolution.severity \in Severities
    ELSE n.resolution = resolve_severity(Null, Null, n.message.exit_code, n.message.duration_ms,
                                         policy, n.chain, n.message.content)
ReplayInv ==
    /\ notification # Null => Decided(notification)
    /\ ReplayIsStable

\* The rules, or the default, decide when the client names no severity.
LEMMA NotNamed ==
    ASSUME NEW header, NEW query, NEW exit_code, NEW duration_ms, NEW columns, NEW chain,
           NEW content
    PROVE  LET given == resolve_severity(header, query, exit_code, duration_ms, columns, chain,
                                         content)
           IN  IF given.source = "explicit" THEN given.severity \in Severities
               ELSE given = resolve_severity(Null, Null, exit_code, duration_ms, columns, chain,
                                             content)
  <1> DEFINE slow == duration_exceeds_threshold(duration_ms, columns.duration_threshold_seconds,
                                                columns.duration_severity)
             failed == exit_code \notin {Null, 0} /\ columns.exit_code_severity # Null
             explicit == IF _parse_explicit_severity(header) # Null
                         THEN _parse_explicit_severity(header)
                         ELSE _parse_explicit_severity(query)
             outcome == Outcome(failed, slow, columns)
             hit == SelectInSeq(chain, LAMBDA rule : rule.id \in content)
             rule == Resolution(chain[hit].severity,
                                IF chain[hit].preset THEN "preset_rule" ELSE "rule",
                                chain[hit].id, slow)
             default == Resolution(columns.default_severity, "receiver_default", Null, slow)
             other == IF failed \/ slow THEN outcome ELSE IF hit # 0 THEN rule ELSE default
  <1>1. Null \notin Severities
    BY NamesAssumption
  <1>2. explicit # Null => explicit \in Severities
    BY DEF _parse_explicit_severity
  <1>3. _parse_explicit_severity(Null) = Null
    BY <1>1 DEF _parse_explicit_severity
  <1>4. outcome.source # "explicit" /\ rule.source # "explicit" /\ default.source # "explicit"
    BY DEF Outcome, Resolution
  <1> HIDE DEF slow, failed, hit, outcome, rule, default
  <1>5. resolve_severity(header, query, exit_code, duration_ms, columns, chain, content)
          = IF explicit # Null THEN Resolution(explicit, "explicit", Null, slow) ELSE other
    BY DEF resolve_severity, slow, failed, hit, outcome, rule, default
  <1>6. resolve_severity(Null, Null, exit_code, duration_ms, columns, chain, content) = other
    BY <1>3 DEF resolve_severity, slow, failed, hit, outcome, rule, default
  <1> HIDE DEF explicit
  <1>7. Resolution(explicit, "explicit", Null, slow).source = "explicit"
        /\ Resolution(explicit, "explicit", Null, slow).severity = explicit
    BY DEF Resolution
  <1> QED
    BY <1>2, <1>4, <1>5, <1>6, <1>7

\* A client that names the severity gets it.
LEMMA Named ==
    ASSUME NEW severity \in Severities, NEW exit_code, NEW duration_ms, NEW columns, NEW chain,
           NEW content
    PROVE  resolve_severity(severity, Null, exit_code, duration_ms, columns, chain, content).severity
             = severity
  <1>1. severity # Null /\ _parse_explicit_severity(severity) = severity
    BY NamesAssumption DEF _parse_explicit_severity
  <1>2. \E slow : resolve_severity(severity, Null, exit_code, duration_ms, columns, chain, content)
                    = Resolution(severity, "explicit", Null, slow)
    BY <1>1 DEF resolve_severity
  <1> QED
    BY <1>2 DEF Resolution

\* The decision that is stored has been taken from the message that is stored.
LEMMA StoredIsDecided ==
    ASSUME NEW p \in Requests, NEW message \in Messages, prepare_notification(p, message)
    PROVE  Decided(notification)'
  <1> DEFINE e == parse_exit_code(message.exit_code)
             d == parse_duration_ms(message.duration_ms)
             chain == load_evaluation_chain(p)
             stored == [message EXCEPT !.exit_code = e, !.duration_ms = d]
             given == resolve_severity(message.header, message.query, e, d, policy, chain,
                                       message.content)
  <1>1. /\ notification' = [message |-> stored, resolution |-> given, chain |-> chain]
        /\ policy' = policy
    BY DEF prepare_notification
  <1>2. DOMAIN message = {"header", "query", "exit_code", "duration_ms", "content"}
    BY MessagesAssumption
  <1> HIDE DEF e, d, chain
  <1>3. stored.exit_code = e /\ stored.duration_ms = d /\ stored.content = message.content
    BY <1>2
  <1>4. IF given.source = "explicit" THEN given.severity \in Severities
        ELSE given = resolve_severity(Null, Null, e, d, policy, chain, message.content)
    BY NotNamed
  <1> HIDE DEF stored, given
  <1>5. /\ notification'.message = stored /\ notification'.resolution = given
        /\ notification'.chain = chain
    BY <1>1
  <1> QED
    BY <1>1, <1>3, <1>4, <1>5 DEF Decided

\* Every other step leaves the stored notification, the policy and the last answer alone.
LEMMA OnlyTwoStore ==
    ASSUME [Next]_vars
    PROVE  \/ \E p \in Requests, message \in Messages : prepare_notification(p, message)
           \/ \E p \in Requests : replay_severity_rules(p)
           \/ UNCHANGED <<policy, notification, replay>>
  <1>1. CASE UNCHANGED vars
    BY <1>1 DEF vars
  <1>2. ASSUME NEW p \in Requests, NEW new, NEW place, NEW statements,
               Begin(p, new, place, statements)
        PROVE  UNCHANGED <<policy, notification, replay>>
    BY <1>2 DEF Begin
  <1>3. ASSUME NEW p \in Requests, OnRules(p) \/ OnPresetRules(p)
        PROVE  UNCHANGED <<policy, notification, replay>>
    <2>1. ASSUME NEW x, NEW n, create_severity_rule(p, x, n) \/ create_preset_rule(p, x, n)
          PROVE  UNCHANGED <<policy, notification, replay>>
      BY <1>2, <2>1 DEF create_severity_rule, create_preset_rule
    <2>2. ASSUME NEW x, NEW n, NEW e,
                 update_severity_rule(p, x, n, e) \/ update_preset_rule(p, x, n, e)
          PROVE  UNCHANGED <<policy, notification, replay>>
      BY <1>2, <2>2 DEF update_severity_rule, update_preset_rule
    <2>3. ASSUME NEW x, delete_severity_rule(p, x) \/ delete_preset_rule(p, x)
          PROVE  UNCHANGED <<policy, notification, replay>>
      BY <1>2, <2>3 DEF delete_severity_rule, delete_preset_rule
    <2> QED
      BY <1>3, <2>1, <2>2, <2>3 DEF OnRules, OnPresetRules
  <1>4. ASSUME NEW p \in Requests, Reordering(p)
        PROVE  UNCHANGED <<policy, notification, replay>>
    BY <1>2, <1>4 DEF Reordering, reorder_preset_rules, reorder_severity_rules
  <1>5. ASSUME NEW p \in Requests, Statement(p) \/ commit(p) \/ rollback(p)
        PROVE  UNCHANGED <<policy, notification, replay>>
    BY <1>5 DEF Statement, _next_priority, _assert_priority_free, write, index, commit, rollback
  <1>6. ASSUME NEW p \in Requests, NEW op, read_rules(p, op)
        PROVE  UNCHANGED <<policy, notification, replay>>
    BY <1>2, <1>6 DEF read_rules
  <1> QED
    BY <1>1, <1>3, <1>4, <1>5, <1>6 DEF Next, Reading

\* A replay with the policy and the rules the notification was decided by shows no change.
THEOREM ReplaysAreStable == Spec => []ReplayIsStable
  <1>1. Init => ReplayInv
    BY DEF Init, ReplayInv, ReplayIsStable
  <1>2. ReplayInv /\ [Next]_vars => ReplayInv'
    <2> SUFFICES ASSUME ReplayInv, [Next]_vars
                 PROVE  ReplayInv'
      OBVIOUS
    <2>1. ASSUME NEW p \in Requests, NEW message \in Messages, prepare_notification(p, message)
          PROVE  ReplayInv'
      <3>1. replay' = replay
        BY <2>1 DEF prepare_notification
      <3>2. Decided(notification)'
        BY <2>1, StoredIsDecided
      <3> QED
        BY <3>1, <3>2 DEF ReplayInv, ReplayIsStable
    <2>2. ASSUME NEW p \in Requests, replay_severity_rules(p)
          PROVE  ReplayInv'
      <3> DEFINE named == notification # Null /\ notification.resolution.source = "explicit"
                 explicit == IF named THEN notification.resolution.severity ELSE Null
                 stored == notification.message
                 chain == load_evaluation_chain(p)
                 again == resolve_severity(explicit, Null, stored.exit_code, stored.duration_ms,
                                           policy, chain, stored.content)
      <3>1. /\ notification' = notification /\ policy' = policy
            /\ replay' = IF notification = Null THEN Null
                         ELSE [changed |-> again.severity # notification.resolution.severity,
                               same |-> chain = notification.chain]
        BY <2>2 DEF replay_severity_rules, replay_with
      <3> HIDE DEF chain
      <3>2. (notification # Null => Decided(notification))'
        BY <3>1 DEF ReplayInv, Decided
      <3>3. ASSUME notification # Null, chain = notification.chain
            PROVE  again.severity = notification.resolution.severity
        <4>1. CASE named
          <5>1. notification.resolution.severity \in Severities
            BY <3>3, <4>1 DEF ReplayInv, Decided
          <5> QED
            BY <4>1, <5>1, Named
        <4>2. CASE ~named
          BY <3>3, <4>2 DEF ReplayInv, Decided
        <4> QED
          BY <4>1, <4>2
      <3> HIDE DEF again
      <3>4. CASE notification = Null
        BY <3>1, <3>2, <3>4 DEF ReplayInv, ReplayIsStable
      <3>5. CASE notification # Null
        <4>1. replay' = [changed |-> again.severity # notification.resolution.severity,
                         same |-> chain = notification.chain]
          BY <3>1, <3>5
        <4>2. replay'.same = (chain = notification.chain)
          BY <4>1
        <4>3. replay'.changed = (again.severity # notification.resolution.severity)
          BY <4>1
        <4>4. replay'.same => ~replay'.changed
          BY <3>3, <3>5, <4>2, <4>3
        <4> QED
          BY <3>2, <4>4 DEF ReplayInv, ReplayIsStable
      <3> QED
        BY <3>4, <3>5
    <2>3. CASE UNCHANGED <<policy, notification, replay>>
      BY <2>3 DEF ReplayInv, ReplayIsStable, Decided
    <2> QED
      BY <2>1, <2>2, <2>3, OnlyTwoStore
  <1>3. ReplayInv => ReplayIsStable
    BY DEF ReplayInv
  <1> QED
    BY <1>1, <1>2, <1>3, PTL DEF Spec

-----------------------------------------------------------------------------
(* Deadlock. *)

\* Whoever is waited for has written, and only a renumbering writes and then waits.
LEMMA WaitedForRenumbers ==
    ASSUME Inv, NEW p \in Requests, Busy(p), NEW q \in WaitsFor(p), WaitsFor(q) # {}, Busy(q),
           request[q].op # "update"
    PROVE  q \in Requests /\ q # p /\ IsReorder(q) /\ \E y \in Rules : written[q][y] # Same
  <1> DEFINE s == Head(todo[p])
             x == s.rule
  <1>1. todo[p] # <<>> /\ pc[p] \in {"writing", "indexing"}
    BY DEF WaitsFor
  <1>2. x \in ToSet(request[p].rules) /\ x \in Rules
    BY <1>1, First DEF Asked
  <1> HIDE DEF s
  <1>3. \/ q \in RowHolders(p, x)
        \/ q \in IndexHolders(p, ListOf[x], s.priority)
    BY <1>1 DEF WaitsFor, s
  <1>4. q \in Requests \ {p} /\ \E y \in Rules : written[q][y] # Same
    BY <1>2, <1>3 DEF RowHolders, IndexHolders
  <1>5. todo[q] # <<>> /\ pc[q] \in {"writing", "indexing"}
    BY <1>4 DEF WaitsFor
  <1>6. /\ TxInv(q) /\ request[q] \in RequestType
        /\ request[q].op \in Inserting \cup {"update", "delete", "reorder"}
    BY <1>4, <1>5, Executing
  <1>7. CASE request[q].op = "delete"
    <2>1. pc[q] = "indexing"
      BY <1>4, <1>5, <1>6, <1>7 DEF TxInv, Shape, NothingWritten, Evaluating
    <2>2. Head(todo[q]).priority = Same
      BY <1>4, <1>5, <1>7, First DEF Asked
    <2> QED
      BY <1>6, <2>1, <2>2 DEF TxInv, EnteringInv
  <1>8. CASE request[q].op \in Inserting
    <2>1. pc[q] = "indexing"
      BY <1>4, <1>5, <1>6, <1>8 DEF TxInv, Shape, NothingWritten, Evaluating, Inserting
    <2> DEFINE z == Head(todo[q]).rule
    <2>2. z \in Rules /\ z \in ToSet(request[q].rules)
      BY <1>4, <1>5, First DEF Asked
    <2>3. Len(request[q].rules) = 1 /\ request[q].rules \in Seq(Rules)
      BY <1>4, <1>6, <1>8 DEF TxInv, Shape, RequestType, Evaluating, Inserting
    <2>4. \A y \in ToSet(request[q].rules) : y = z
      BY <2>2, <2>3 DEF ToSet
    <2>5. \A y \in Rules : written[q][y] # Same => y = z /\ rows[y] = NoRow /\ Entering(q, y)
      BY <1>6, <1>8, <2>1, <2>4 DEF TxInv, DoneInv, Done, Entering
    <2>6. x # z
      BY <1>2, <1>4, <1>6, <1>8, <2>2 DEF TxInv, FreshInv, Inserts
    <2> HIDE DEF z
    <2>7. q \notin RowHolders(p, x)
      BY <1>2, <2>5, <2>6 DEF RowHolders
    <2>8. q \notin IndexHolders(p, ListOf[x], s.priority)
      BY <2>5 DEF IndexHolders
    <2> QED
      BY <1>3, <2>7, <2>8
  <1> QED
    BY <1>4, <1>6, <1>7, <1>8 DEF IsReorder, Inserting

\* Of two renumberings of the same rules one writes nothing before the other is over: both
\* begin with the smallest key.
LEMMA OneRenumbers ==
    ASSUME Inv, NEW p \in Requests, NEW q \in Requests, p # q, IsReorder(p), IsReorder(q),
           ToSet(request[p].rules) = ToSet(request[q].rules),
           NEW x \in Rules, NEW y \in Rules, written[p][x] # Same, written[q][y] # Same
    PROVE  FALSE
  <1>1. ASSUME NEW o \in Requests, NEW t \in Requests, o # t, IsReorder(o), IsReorder(t),
               ToSet(request[o].rules) = ToSet(request[t].rules),
               NEW u \in Rules, NEW v \in Rules, written[o][u] # Same, written[t][v] # Same
        PROVE  Key[u] < Key[v]
    <2>1. written[o][v] = Same /\ u # v
      BY <1>1 DEF Inv, RowLocks
    <2>2. ReorderInv(o) /\ DoneInv(t)
      BY <1>1 DEF Inv, TxInv
    <2>3. v \in ToSet(request[o].rules) /\ rows[v] # NoRow
      BY <1>1, <2>2 DEF DoneInv, Done, IsReorder, Inserting
    <2>4. PICK i \in 1 .. Len(todo[o]) : todo[o][i].rule = v /\ ~IsFinal(todo[o][i])
      BY <1>1, <2>1, <2>2, <2>3 DEF ReorderInv, FirstDone
    <2>5. Key[u] < Key[todo[o][i].rule] \/ (i = 1 /\ u = todo[o][1].rule)
      BY <1>1, <2>2, <2>4 DEF ReorderInv, FirstPass
    <2> QED
      BY <2>1, <2>4, <2>5
  <1>2. Key[x] < Key[y] /\ Key[y] < Key[x]
    BY <1>1
  <1>3. Key[x] \in Int /\ Key[y] \in Int
    BY Keys
  <1> QED
    BY <1>2, <1>3

\* Creations, deletions and renumberings of the same rules never wait for one another in a
\* circle, however many there are: a renumbering takes the rows by their primary keys, and
\* nobody else waits for anything while it holds what others wait for.
THEOREM NoCircle == Spec => []ListsNeverDeadlock
  <1>1. ASSUME Inv
        PROVE  ListsNeverDeadlock
    <2> SUFFICES ASSUME NEW circle \in SUBSET {p \in Requests : request[p] # NoRequest},
                        circle # {}, \A p \in circle : WaitsFor(p) \cap circle # {},
                        \A p \in circle : request[p].op # "update",
                        \A p, q \in circle :
                            request[p].op = "reorder" /\ request[q].op = "reorder"
                              => ToSet(request[p].rules) = ToSet(request[q].rules)
                 PROVE  FALSE
      BY DEF ListsNeverDeadlock
    <2>1. \A p \in circle : p \in Requests /\ Busy(p) /\ WaitsFor(p) # {}
      BY DEF Busy
    <2>2. PICK p \in circle : TRUE
      OBVIOUS
    <2>3. PICK q \in circle : q \in WaitsFor(p)
      OBVIOUS
    <2>4. PICK r \in circle : r \in WaitsFor(q)
      OBVIOUS
    <2>5. IsReorder(q) /\ \E y \in Rules : written[q][y] # Same
      BY <1>1, <2>1, <2>3, WaitedForRenumbers
    <2>6. r # q /\ IsReorder(r) /\ \E y \in Rules : written[r][y] # Same
      BY <1>1, <2>1, <2>4, WaitedForRenumbers
    <2>7. ToSet(request[q].rules) = ToSet(request[r].rules)
      BY <2>5, <2>6 DEF IsReorder
    <2> QED
      BY <1>1, <2>1, <2>5, <2>6, <2>7, OneRenumbers
  <1> QED
    BY <1>1, Invariant, PTL
=============================================================================
