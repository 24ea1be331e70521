------------------------- MODULE OrdersTotalsProofs -------------------------
(* Proof that an order's total follows its items, for any number of        *)
(* clients, requests and items and any width of the integers.              *)
EXTENDS OrdersAnswersProofs, FiniteSetTheorems

(* The sum of the subtotals of some rows: what Drift compares a total to.  *)
SumOf(rows, ids) == MapThenSumSet(LAMBDA i : rows[i].subtotal, ids)

LEMMA LeastNumber ==
    ASSUME NEW T, T \subseteq Nat, T # {}
    PROVE  \E n \in T : \A m \in T : ~(m < n)
<1>1. \E n \in T : \A m \in T : ~(<<m, n>> \in OpToRel(<, Nat))
  BY NatLessThanWellFounded, WFMin
<1> QED BY <1>1 DEF OpToRel

LEMMA NaturalsAreInductive ==
    ASSUME NEW T, 0 \in T, \A n \in Nat : n \in T => n + 1 \in T
    PROVE  Nat \subseteq T
<1> DEFINE U == Nat \ T
<1> SUFFICES ASSUME U # {} PROVE FALSE
  OBVIOUS
<1>1. PICK n \in U : \A m \in U : ~(m < n)
  <2> HIDE DEF U
  <2>1. U \subseteq Nat BY DEF U
  <2> QED BY <2>1, LeastNumber
<1>2. n \in Nat /\ n # 0
  BY <1>1
<1>3. n - 1 \in Nat /\ n - 1 < n
  BY <1>2
<1>4. n - 1 \in T
  BY <1>1, <1>3
<1>5. (n - 1) + 1 = n
  BY <1>2
<1> QED BY <1>1, <1>3, <1>4, <1>5
(* The recursion behind a sum: a row is taken out and the rest is summed.  *)
First(s) == CHOOSE x \in s : TRUE

SumStep(sum, rows, s) ==
    IF s = {} THEN 0 ELSE rows[First(s)].subtotal + sum[s \ {First(s)}]

SumsUp(sum, rows, ids) == sum = [s \in SUBSET ids |-> SumStep(sum, rows, s)]

LEMMA SumIsChosen ==
    ASSUME NEW rows, NEW ids
    PROVE  SumOf(rows, ids) = (CHOOSE sum : SumsUp(sum, rows, ids))[ids]
BY DEF SumOf, SumsUp, SumStep, First, MapThenSumSet, MapThenFoldSet

LEMMA FirstIsIn == \A s : s # {} => First(s) \in s
BY DEF First

(* Rows that can be summed: finitely many, each with a number.             *)
Summable(rows, ids) ==
    IsFiniteSet(ids) /\ \A i \in ids : rows[i].subtotal \in Int

LEMMA SubsetSummable ==
    ASSUME NEW rows, NEW ids, Summable(rows, ids), NEW s \in SUBSET ids
    PROVE  /\ Summable(rows, s)
           /\ Cardinality(s) \in Nat
           /\ \A i \in s : Cardinality(s \ {i}) = Cardinality(s) - 1
           /\ Cardinality(s) = 0 <=> s = {}
<1>1. IsFiniteSet(s)
  BY FS_Subset DEF Summable
<1>2. Cardinality(s) \in Nat /\ (Cardinality(s) = 0 <=> s = {})
  BY <1>1, FS_CardinalityType, FS_EmptySet
<1>3. \A i \in s : Cardinality(s \ {i}) = Cardinality(s) - 1
  BY <1>1, FS_RemoveElement
<1> QED BY <1>1, <1>2, <1>3 DEF Summable

(* The recursion has a solution, and its values are numbers.               *)
LEMMA SumsExist ==
    ASSUME NEW rows, NEW ids, Summable(rows, ids)
    PROVE  \E sum : SumsUp(sum, rows, ids) /\ \A s \in SUBSET ids : sum[s] \in Int
<1> DEFINE Upto(n)     == {s \in SUBSET ids : Cardinality(s) <= n}
           Solves(g, n) == /\ g = [s \in Upto(n) |-> g[s]]
                           /\ \A s \in Upto(n) : g[s] \in Int /\ g[s] = SumStep(g, rows, s)
           T == {n \in Nat : \E g : Solves(g, n)}
<1>1. \A s \in SUBSET ids : /\ Cardinality(s) \in Nat
                            /\ Cardinality(s) = 0 <=> s = {}
                            /\ \A i \in s : Cardinality(s \ {i}) = Cardinality(s) - 1
  BY SubsetSummable
<1>2. 0 \in T
  <2> DEFINE g == [s \in Upto(0) |-> 0]
  <2>1. \A s \in Upto(0) : s = {}
    BY <1>1
  <2>2. Solves(g, 0)
    BY <2>1 DEF SumStep
  <2> QED BY <2>2
<1>3. ASSUME NEW n \in Nat, n \in T PROVE n + 1 \in T
  <2>1. PICK g : Solves(g, n)
    BY <1>3
  <2> DEFINE h == [s \in Upto(n + 1) |-> SumStep(g, rows, s)]
  <2>2. ASSUME NEW s \in Upto(n + 1), s # {}
        PROVE  /\ First(s) \in ids
               /\ s \ {First(s)} \in Upto(n)
               /\ s \ {First(s)} \in Upto(n + 1)
    <3>1. First(s) \in s
      BY <2>2, FirstIsIn
    <3>2. Cardinality(s \ {First(s)}) = Cardinality(s) - 1
      BY <1>1, <3>1
    <3> QED BY <1>1, <3>1, <3>2
  <2>3. \A s \in Upto(n) : s \in Upto(n + 1) /\ h[s] = g[s]
    BY <1>1, <2>1
  <2>4. ASSUME NEW s \in Upto(n + 1)
        PROVE  h[s] \in Int /\ h[s] = SumStep(h, rows, s)
    <3>1. CASE s = {}
      BY <3>1 DEF SumStep
    <3>2. CASE s # {}
      <4> DEFINE x == First(s)
      <4>1. x \in ids /\ s \ {x} \in Upto(n)
        BY <2>2, <3>2
      <4>2. h[s \ {x}] = g[s \ {x}] /\ g[s \ {x}] \in Int
        BY <2>1, <2>3, <4>1
      <4>3. rows[x].subtotal \in Int
        BY <4>1 DEF Summable
      <4>4. h[s] = rows[x].subtotal + g[s \ {x}]
        BY <3>2 DEF SumStep
      <4> HIDE DEF h
      <4> QED BY <3>2, <4>2, <4>3, <4>4 DEF SumStep
    <3> QED BY <3>1, <3>2
  <2>5. h = [s \in Upto(n + 1) |-> h[s]]
    OBVIOUS
  <2> HIDE DEF h, Upto
  <2>6. Solves(h, n + 1)
    BY <2>4, <2>5
  <2> QED BY <2>6
<1>4. Cardinality(ids) \in T
  <2> HIDE DEF T
  <2>1. Nat \subseteq T
    BY <1>2, <1>3, NaturalsAreInductive
  <2> QED BY <1>1, <2>1
<1>5. PICK g : Solves(g, Cardinality(ids))
  BY <1>4
<1>6. Upto(Cardinality(ids)) = SUBSET ids
  <2>1. \A s \in SUBSET ids : Cardinality(s) <= Cardinality(ids)
    BY FS_Subset DEF Summable
  <2> QED BY <2>1
<1>7. g = [s \in SUBSET ids |-> SumStep(g, rows, s)]
  BY <1>5, <1>6
<1> QED BY <1>5, <1>6, <1>7 DEF SumsUp

(* Two solutions agree wherever their rows do, whatever else they sum.     *)
LEMMA SumsAgree ==
    ASSUME NEW rows, NEW ids, Summable(rows, ids), NEW sum, SumsUp(sum, rows, ids),
           NEW others, NEW more, NEW sum2, SumsUp(sum2, others, more),
           NEW same \in SUBSET ids, same \subseteq more,
           \A i \in same : rows[i].subtotal = others[i].subtotal
    PROVE  sum[same] = sum2[same]
<1> DEFINE T == {n \in Nat : \A s \in SUBSET same :
                                Cardinality(s) = n => sum[s] = sum2[s]}
<1>1. \A s \in SUBSET same : /\ Cardinality(s) \in Nat
                             /\ Cardinality(s) = 0 <=> s = {}
                             /\ \A i \in s : Cardinality(s \ {i}) = Cardinality(s) - 1
  BY SubsetSummable
<1>2. \A s \in SUBSET same : /\ sum[s] = SumStep(sum, rows, s)
                             /\ sum2[s] = SumStep(sum2, others, s)
  BY DEF SumsUp
<1>3. 0 \in T
  BY <1>1, <1>2 DEF SumStep
<1>4. ASSUME NEW n \in Nat, n \in T PROVE n + 1 \in T
  <2> SUFFICES ASSUME NEW s \in SUBSET same, Cardinality(s) = n + 1
               PROVE  sum[s] = sum2[s]
    OBVIOUS
  <2>1. s # {} /\ First(s) \in s
    BY <1>1, FirstIsIn
  <2>2. sum[s \ {First(s)}] = sum2[s \ {First(s)}]
    <3>1. Cardinality(s \ {First(s)}) = n
      BY <1>1, <2>1
    <3> QED BY <1>4, <3>1
  <2>3. rows[First(s)].subtotal = others[First(s)].subtotal
    BY <2>1
  <2> QED BY <1>2, <2>1, <2>2, <2>3 DEF SumStep
<1>5. Cardinality(same) \in T
  <2> HIDE DEF T
  <2>1. Nat \subseteq T
    BY <1>3, <1>4, NaturalsAreInductive
  <2> QED BY <1>1, <2>1
<1> QED BY <1>5

(* A sum is a number, the sum of no rows is 0, and it depends on nothing   *)
(* but the subtotals of its rows.                                          *)
LEMMA SumIsSolution ==
    ASSUME NEW rows, NEW ids, Summable(rows, ids)
    PROVE  /\ SumOf(rows, ids) \in Int
           /\ \E sum : /\ SumsUp(sum, rows, ids)
                       /\ \A s \in SUBSET ids : SumOf(rows, s) = sum[s]
<1> DEFINE sum == CHOOSE sum : SumsUp(sum, rows, ids)
<1>1. SumsUp(sum, rows, ids)
  BY SumsExist
<1>2. SumOf(rows, ids) = sum[ids]
  BY SumIsChosen
<1> HIDE DEF sum
<1>3. PICK g : SumsUp(g, rows, ids) /\ \A s \in SUBSET ids : g[s] \in Int
  BY SumsExist
<1>4. sum[ids] = g[ids]
  BY <1>1, <1>3, SumsAgree
<1>5. ASSUME NEW s \in SUBSET ids
      PROVE  SumOf(rows, s) = sum[s]
  <2> DEFINE part == CHOOSE part : SumsUp(part, rows, s)
  <2>1. Summable(rows, s)
    BY SubsetSummable
  <2>2. SumsUp(part, rows, s)
    BY <2>1, SumsExist
  <2>3. SumOf(rows, s) = part[s]
    BY SumIsChosen
  <2> HIDE DEF part
  <2>4. part[s] = sum[s]
    BY <1>1, <2>1, <2>2, SumsAgree
  <2> QED BY <2>3, <2>4
<1> QED BY <1>1, <1>2, <1>3, <1>4, <1>5

LEMMA SumOfNone == \A rows : SumOf(rows, {}) = 0
<1> SUFFICES ASSUME NEW rows PROVE SumOf(rows, {}) = 0
  OBVIOUS
<1>1. Summable(rows, {})
  BY FS_EmptySet DEF Summable
<1>2. PICK sum : /\ SumsUp(sum, rows, {})
                 /\ \A s \in SUBSET {} : SumOf(rows, s) = sum[s]
  BY <1>1, SumIsSolution
<1> QED BY <1>2 DEF SumsUp, SumStep

LEMMA SameSum ==
    ASSUME NEW rows, NEW others, NEW ids, Summable(rows, ids),
           \A i \in ids : rows[i].subtotal = others[i].subtotal
    PROVE  Summable(others, ids) /\ SumOf(rows, ids) = SumOf(others, ids)
<1>1. Summable(others, ids)
  BY DEF Summable
<1>2. PICK sum : SumsUp(sum, rows, ids) /\ \A s \in SUBSET ids : SumOf(rows, s) = sum[s]
  BY SumIsSolution
<1>3. PICK sum2 : SumsUp(sum2, others, ids) /\ \A s \in SUBSET ids : SumOf(others, s) = sum2[s]
  BY <1>1, SumIsSolution
<1>4. sum[ids] = sum2[ids]
  BY <1>2, <1>3, SumsAgree
<1> QED BY <1>1, <1>2, <1>3, <1>4

(* Any row may be taken out first.                                         *)
LEMMA SumWithout ==
    ASSUME NEW rows, NEW ids, Summable(rows, ids), NEW i \in ids
    PROVE  SumOf(rows, ids) = rows[i].subtotal + SumOf(rows, ids \ {i})
<1> DEFINE T == {n \in Nat : \A s \in SUBSET ids : Cardinality(s) = n
                  => \A x \in s : SumOf(rows, s) = rows[x].subtotal + SumOf(rows, s \ {x})}
<1>1. \A s \in SUBSET ids : /\ Cardinality(s) \in Nat
                            /\ Cardinality(s) = 0 <=> s = {}
                            /\ \A x \in s : Cardinality(s \ {x}) = Cardinality(s) - 1
  BY SubsetSummable
<1>2. \A s \in SUBSET ids : SumOf(rows, s) \in Int
  BY SubsetSummable, SumIsSolution
<1>3. \A x \in ids : rows[x].subtotal \in Int
  BY DEF Summable
<1>4. \A s \in SUBSET ids : SumOf(rows, s) =
         IF s = {} THEN 0 ELSE rows[First(s)].subtotal + SumOf(rows, s \ {First(s)})
  <2>1. PICK sum : SumsUp(sum, rows, ids) /\ \A s \in SUBSET ids : SumOf(rows, s) = sum[s]
    BY SumIsSolution
  <2>2. \A s \in SUBSET ids : sum[s] = SumStep(sum, rows, s)
    BY <2>1 DEF SumsUp
  <2> QED BY <2>1, <2>2 DEF SumStep
<1>5. 0 \in T
  BY <1>1
<1>6. ASSUME NEW n \in Nat, n \in T PROVE n + 1 \in T
  <2> SUFFICES ASSUME NEW s \in SUBSET ids, Cardinality(s) = n + 1, NEW x \in s
               PROVE  SumOf(rows, s) = rows[x].subtotal + SumOf(rows, s \ {x})
    OBVIOUS
  <2> DEFINE y    == First(s)
             rest == s \ {x, y}
  <2>1. y \in s
    BY FirstIsIn
  <2>2. SumOf(rows, s) = rows[y].subtotal + SumOf(rows, s \ {y})
    BY <1>4
  <2> HIDE DEF y
  <2>3. CASE x = y
    BY <2>2, <2>3
  <2>4. CASE x # y
    <3>1. Cardinality(s \ {x}) = n /\ Cardinality(s \ {y}) = n
      BY <1>1, <2>1
    <3>2. x \in s \ {y} /\ y \in s \ {x}
      BY <2>1, <2>4
    <3>3. (s \ {y}) \ {x} = rest /\ (s \ {x}) \ {y} = rest
      OBVIOUS
    <3>4. SumOf(rows, s \ {y}) = rows[x].subtotal + SumOf(rows, rest)
      <4>1. SumOf(rows, s \ {y}) = rows[x].subtotal + SumOf(rows, (s \ {y}) \ {x})
        BY <1>6, <3>1, <3>2
      <4> QED BY <3>3, <4>1
    <3>5. SumOf(rows, s \ {x}) = rows[y].subtotal + SumOf(rows, rest)
      <4>1. SumOf(rows, s \ {x}) = rows[y].subtotal + SumOf(rows, (s \ {x}) \ {y})
        BY <1>6, <3>1, <3>2
      <4> QED BY <3>3, <4>1
    <3>6. SumOf(rows, rest) \in Int /\ rows[x].subtotal \in Int /\ rows[y].subtotal \in Int
      BY <1>2, <1>3, <2>1
    <3> QED BY <2>2, <3>4, <3>5, <3>6
  <2> QED BY <2>3, <2>4
<1>7. Cardinality(ids) \in T
  <2> HIDE DEF T
  <2>1. Nat \subseteq T
    BY <1>5, <1>6, NaturalsAreInductive
  <2> QED BY <1>1, <2>1
<1> QED BY <1>7

(* A row more adds its subtotal.                                           *)
LEMMA SumWith ==
    ASSUME NEW rows, NEW ids, Summable(rows, ids), NEW i, i \notin ids,
           rows[i].subtotal \in Int
    PROVE  /\ Summable(rows, ids \cup {i})
           /\ SumOf(rows, ids \cup {i}) = SumOf(rows, ids) + rows[i].subtotal
<1>1. Summable(rows, ids \cup {i})
  BY FS_AddElement DEF Summable
<1>2. (ids \cup {i}) \ {i} = ids
  OBVIOUS
<1>3. SumOf(rows, ids) \in Int
  BY SumIsSolution
<1>4. SumOf(rows, ids \cup {i}) = rows[i].subtotal + SumOf(rows, (ids \cup {i}) \ {i})
  BY <1>1, SumWithout
<1>5. SumOf(rows, ids \cup {i}) = rows[i].subtotal + SumOf(rows, ids)
  BY <1>2, <1>4
<1> HIDE DEF Summable
<1> QED BY <1>1, <1>3, <1>5

-----------------------------------------------------------------------------
(* int64 arithmetic: wrapping a summand first changes nothing.             *)
LEMMA Division ==
    ASSUME NEW n \in Int, NEW d \in Int, d > 0
    PROVE  n % d \in 0 .. d - 1 /\ n \div d \in Int /\ n = d * (n \div d) + (n % d)
<1>1. n % d \in 0 .. d - 1
  BY SMTT(60)
<1>2. n \div d \in Int
  BY SMTT(60)
<1>3. n % d = n - d * (n \div d)
  BY SMTT(60)
<1> QED BY <1>1, <1>2, <1>3

LEMMA RemainderIsUnique ==
    ASSUME NEW n \in Int, NEW d \in Int, d > 0,
           NEW q \in Int, NEW r \in 0 .. d - 1, n = d * q + r
    PROVE  n % d = r
BY SMTT(60)

LEMMA RemainderOfSum ==
    ASSUME NEW n \in Int, NEW b \in Int, NEW d \in Int, d > 0
    PROVE  ((n % d) + b) % d = (n + b) % d
<1> DEFINE q == n \div d
           r == n % d
           p == (n + b) \div d
           s == (n + b) % d
<1>1. r \in 0 .. d - 1 /\ q \in Int /\ n = d * q + r
  BY Division
<1>2. n + b \in Int
  OBVIOUS
<1>3. s \in 0 .. d - 1 /\ p \in Int /\ n + b = d * p + s
  BY <1>2, Division
<1> HIDE DEF q, r, p, s
<1>4. d * (p - q) = d * p - d * q
  BY <1>1, <1>3
<1>5. r + b \in Int /\ p - q \in Int /\ r + b = d * (p - q) + s
  BY <1>1, <1>3, <1>4
<1>6. (r + b) % d = s
  <2> DEFINE m == r + b
             k == p - q
  <2>1. m \in Int /\ k \in Int /\ m = d * k + s
    BY <1>5
  <2> HIDE DEF m, k
  <2>2. m % d = s
    BY <1>3, <2>1, RemainderIsUnique
  <2> QED BY <2>2 DEF m
<1> QED BY <1>6 DEF r, s

LEMMA WrapOfSum ==
    ASSUME NEW a \in Int, NEW b \in Int
    PROVE  Wrap(Wrap(a) + b) = Wrap(a + b)
<1> DEFINE d == 2 * Half
           r == (a + Half) % d
<1>1. Half \in Int /\ d \in Int /\ d > 0 /\ a + Half \in Int
  BY HalfAssumption
<1>2. r \in Int
  BY <1>1, Division
<1>3. (r + b) % d = ((a + Half) + b) % d
  BY <1>1, RemainderOfSum
<1>4. (r - Half) + b + Half = r + b /\ (a + Half) + b = a + b + Half
  BY <1>1, <1>2
<1>5. Wrap(a) = r - Half
  BY DEF Wrap
<1>6. Wrap(Wrap(a) + b) = ((r + b) % d) - Half
  BY <1>4, <1>5 DEF Wrap
<1>7. Wrap(a + b) = (((a + Half) + b) % d) - Half
  BY <1>4 DEF Wrap
<1> QED BY <1>3, <1>6, <1>7

-----------------------------------------------------------------------------
(* What the total of an order in memory is off by, as Drift says it of a   *)
(* stored one; the domain methods keep it, except for the removal of an    *)
(* item, which nobody stores.                                              *)
DriftOf(order) == Wrap(order.total - SumOf(order.items, DOMAIN order.items))

LEMMA ItemsSummable ==
    ASSUME NEW order, IsOrder(order), IsFiniteSet(DOMAIN order.items)
    PROVE  Summable(order.items, DOMAIN order.items)
BY DEF IsOrder, ItemRow, Cents, Summable

(* Adding to the total what the items gain.                                *)
LEMMA DriftKept ==
    ASSUME NEW total \in Int, NEW sum \in Int, NEW gain \in Int
    PROVE  Wrap(Wrap(total + gain) - (sum + gain)) = Wrap(total - sum)
<1>1. total + gain \in Int /\ -(sum + gain) \in Int
  OBVIOUS
<1>2. Wrap(Wrap(total + gain) + (-(sum + gain))) = Wrap((total + gain) + (-(sum + gain)))
  BY <1>1, WrapOfSum
<1>3. (total + gain) + (-(sum + gain)) = total - sum
  OBVIOUS
<1>4. Wrap(total + gain) \in Int
  BY <1>1, WrapInRange DEF Cents
<1>5. Wrap(total + gain) + (-(sum + gain)) = Wrap(total + gain) - (sum + gain)
  BY <1>4
<1> QED BY <1>2, <1>3, <1>5

LEMMA WithItemKeepsDrift ==
    ASSUME NEW order, IsOrder(order), IsFiniteSet(DOMAIN order.items),
           -order.fresh \notin DOMAIN order.items, NEW line \in Line
    PROVE  /\ DriftOf(WithItem(order, line)) = DriftOf(order)
           /\ IsFiniteSet(DOMAIN WithItem(order, line).items)
<1> DEFINE item == [order    |-> 0,
                    quantity |-> line.quantity,
                    price    |-> line.price,
                    subtotal |-> Subtotal(line.quantity, line.price)]
           id  == -order.fresh
           new == WithItem(order, line)
           ids == DOMAIN order.items
           sum == SumOf(order.items, ids)
<1>1. /\ new.items = Put(order.items, id, item)
      /\ new.total = Wrap(order.total + item.subtotal)
  BY DEF WithItem, IsOrder
<1>2. item.subtotal \in Int /\ order.total \in Int
  BY SubtotalInRange DEF IsOrder, Cents, Line
<1> HIDE DEF item, id, new
<1>3. /\ DOMAIN new.items = ids \cup {id} /\ new.items[id] = item
      /\ \A i \in ids \ {id} : new.items[i] = order.items[i]
  <2>1. DOMAIN new.items = ids \cup {id}
    <3>1. DOMAIN Put(order.items, id, item) = ids \cup {id}
      BY PutDomain
    <3> QED BY <1>1, <3>1
  <2>2. new.items[id] = item
    BY <1>1, PutNew
  <2>3. \A i \in ids \ {id} : new.items[i] = order.items[i]
    BY <1>1, PutOld
  <2> QED BY <2>1, <2>2, <2>3
<1>4. id \notin ids
  BY DEF id
<1>5. Summable(order.items, ids)
  BY ItemsSummable
<1>6. Summable(new.items, ids) /\ SumOf(new.items, ids) = sum
  <2>1. \A i \in ids : order.items[i].subtotal = new.items[i].subtotal
    BY <1>3, <1>4
  <2> QED BY <1>5, <2>1, SameSum
<1>7. /\ Summable(new.items, ids \cup {id})
      /\ SumOf(new.items, ids \cup {id}) = SumOf(new.items, ids) + new.items[id].subtotal
  BY <1>2, <1>3, <1>4, <1>6, SumWith
<1>8. SumOf(new.items, DOMAIN new.items) = sum + item.subtotal
  BY <1>3, <1>6, <1>7
<1>9. sum \in Int
  BY <1>5, SumIsSolution
<1>10. DriftOf(new) = DriftOf(order)
  <2>1. DriftOf(new) = Wrap(Wrap(order.total + item.subtotal) - (sum + item.subtotal))
    BY <1>1, <1>8 DEF DriftOf
  <2>2. DriftOf(order) = Wrap(order.total - sum)
    BY DEF DriftOf
  <2> HIDE DEF sum
  <2> QED BY <1>2, <1>9, <2>1, <2>2, DriftKept
<1>11. IsFiniteSet(DOMAIN new.items)
  BY <1>3, <1>7 DEF Summable
<1> QED BY <1>10, <1>11 DEF new

LEMMA WithPatchKeepsDrift ==
    ASSUME NEW order, IsOrder(order), GoodItems(order), IsFiniteSet(DOMAIN order.items),
           NEW id \in DOMAIN order.items, NEW patch \in Patches, ValidPatch(patch)
    PROVE  DriftOf(WithPatch(order, id, patch)) = DriftOf(order)
<1>1. CASE patch.quantity = Nil /\ patch.price = Nil
  BY <1>1 DEF WithPatch
<1>2. CASE ~(patch.quantity = Nil /\ patch.price = Nil)
  <2> DEFINE old  == order.items[id].subtotal
             item == Patched(order.items[id], patch)
             new  == WithPatch(order, id, patch)
             ids  == DOMAIN order.items
             rest == SumOf(order.items, ids \ {id})
  <2>1. /\ new.items = Put(order.items, id, item)
        /\ new.total = Wrap(order.total + item.subtotal - old)
    BY <1>2 DEF WithPatch, IsOrder
  <2>2. item.subtotal \in Int /\ old \in Int /\ order.total \in Int
    <3>1. GoodItem(item)
      BY PatchedGood DEF GoodItems
    <3> HIDE DEF item
    <3> QED BY <3>1 DEF GoodItem, ItemRow, IsOrder, Cents
  <2> HIDE DEF item, new
  <2>3. DOMAIN new.items = ids
    <3>1. DOMAIN Put(order.items, id, item) = ids \cup {id}
      BY PutDomain
    <3>2. ids \cup {id} = ids
      OBVIOUS
    <3> QED BY <2>1, <3>1, <3>2
  <2>4. new.items[id] = item
    BY <2>1, PutNew
  <2>5. \A i \in ids \ {id} : new.items[i] = order.items[i]
    BY <2>1, PutOld
  <2>6. Summable(order.items, ids) /\ Summable(order.items, ids \ {id})
    BY ItemsSummable, SubsetSummable
  <2>7. SumOf(order.items, ids) = old + rest
    BY <2>6, SumWithout
  <2>8. Summable(new.items, ids \ {id}) /\ SumOf(new.items, ids \ {id}) = rest
    <3>1. \A i \in ids \ {id} : order.items[i].subtotal = new.items[i].subtotal
      BY <2>5
    <3> QED BY <2>6, <3>1, SameSum
  <2>9. Summable(new.items, ids)
    <3>1. \A i \in ids : new.items[i].subtotal \in Int
      BY <2>2, <2>4, <2>8 DEF Summable
    <3> QED BY <2>6, <3>1 DEF Summable
  <2>10. SumOf(new.items, ids) = item.subtotal + rest
    BY <2>4, <2>8, <2>9, SumWithout
  <2>11. rest \in Int
    BY <2>6, SumIsSolution
  <2> DEFINE gain == item.subtotal - old
             sum  == old + rest
  <2>12. /\ gain \in Int /\ sum \in Int
         /\ order.total + item.subtotal - old = order.total + gain
         /\ item.subtotal + rest = sum + gain
    BY <2>2, <2>11
  <2>13. DriftOf(new) = Wrap(Wrap(order.total + gain) - (sum + gain))
    BY <2>1, <2>3, <2>10, <2>12 DEF DriftOf
  <2>14. DriftOf(order) = Wrap(order.total - sum)
    BY <2>7 DEF DriftOf
  <2> HIDE DEF gain, sum
  <2>15. DriftOf(new) = DriftOf(order)
    BY <2>2, <2>12, <2>13, <2>14, DriftKept
  <2> QED BY <2>15 DEF new
<1> QED BY <1>1, <1>2

(* What the command handlers make of an order they loaded.                 *)
LEMMA AppliedKeepsDrift ==
    ASSUME NEW order, IsOrder(order), GoodItems(order), IsFiniteSet(DOMAIN order.items),
           order.fresh = 0, \A i \in DOMAIN order.items : i > 0,
           NEW r \in Request, DomainError(order, r) = 0
    PROVE  LET new == Applied(order, r)
           IN  /\ IsFiniteSet(DOMAIN new.items)
               /\ \A i \in DOMAIN new.items : i > 0 \/ i > -new.fresh
               /\ r.op # "remove"
                  => /\ DriftOf(new) = DriftOf(order)
                     /\ {i \in DOMAIN new.items : i > 0} = DOMAIN order.items
<1>1. CASE r.op = "status"
  <2> DEFINE new == [order EXCEPT !.status = r.status]
  <2>1. Applied(order, r) = new
    BY <1>1 DEF Applied
  <2>2. new.total = order.total /\ new.items = order.items
    BY DEF IsOrder
  <2> HIDE DEF new
  <2>3. DriftOf(new) = DriftOf(order)
    BY <2>2 DEF DriftOf
  <2> QED BY <2>1, <2>2, <2>3
<1>2. CASE r.op = "add"
  <2> DEFINE new == WithItem(order, r.line)
  <2>1. r.line \in Line /\ ValidLine(r.line)
    BY <1>2, LinesAssumption DEF DomainError, Request
  <2>2. Applied(order, r) = new
    BY <1>2 DEF Applied
  <2>3. /\ new.fresh = 1
        /\ DOMAIN new.items = DOMAIN order.items \cup {-0}
    BY <2>1, WithItemGood
  <2>4. -order.fresh \notin DOMAIN order.items
    OBVIOUS
  <2>5. DriftOf(new) = DriftOf(order) /\ IsFiniteSet(DOMAIN new.items)
    BY <2>1, <2>4, WithItemKeepsDrift
  <2> HIDE DEF new
  <2>6. \A i \in DOMAIN new.items : i > 0 \/ i > -new.fresh
    BY <2>3
  <2>7. {i \in DOMAIN new.items : i > 0} = DOMAIN order.items
    BY <2>3
  <2> QED BY <2>2, <2>5, <2>6, <2>7
<1>3. CASE r.op = "patch"
  <2> DEFINE new == WithPatch(order, r.item, r.patch)
  <2>1. r.item \in DOMAIN order.items /\ r.patch \in Patches /\ ValidPatch(r.patch)
    BY <1>3 DEF DomainError, Request
  <2>2. Applied(order, r) = new
    BY <1>3 DEF Applied
  <2>3. DOMAIN new.items = DOMAIN order.items
    BY <2>1, WithPatchGood
  <2>4. DriftOf(new) = DriftOf(order)
    BY <2>1, WithPatchKeepsDrift
  <2> HIDE DEF new
  <2> QED BY <2>2, <2>3, <2>4
<1>4. CASE r.op = "remove"
  <2>1. r.item \in DOMAIN order.items
    BY <1>4 DEF DomainError, Request
  <2>2. Applied(order, r) = WithoutItem(order, r.item)
    BY <1>4 DEF Applied
  <2>3. DOMAIN WithoutItem(order, r.item).items = DOMAIN order.items \ {r.item}
    <3> DEFINE kept == DOMAIN order.items \ {r.item}
    <3>1. WithoutItem(order, r.item).items = Restrict(order.items, kept)
      BY DEF WithoutItem, IsOrder
    <3> HIDE DEF kept
    <3>2. DOMAIN WithoutItem(order, r.item).items = kept
      BY <3>1, RestrictIds
    <3> QED BY <3>2 DEF kept
  <2>4. IsFiniteSet(DOMAIN order.items \ {r.item})
    BY FS_Subset
  <2> QED BY <1>4, <2>2, <2>3, <2>4
<1>5. CASE r.op \notin {"status", "add", "patch", "remove"}
  BY <1>5 DEF Applied
<1> QED BY <1>1, <1>2, <1>3, <1>4, <1>5

(* New items get their ids from the sequence, one after the other, and the *)
(* sum over the new ids is the sum over the old ones.                      *)
LEMMA SavedKeepsDrift ==
    ASSUME nextItem \in Nat \ {0},
           NEW order, IsOrder(order), IsFiniteSet(DOMAIN order.items),
           \A k \in 0 .. (order.fresh - 1) : -k \in DOMAIN order.items,
           \A i \in DOMAIN order.items : i > 0 => i < nextItem,
           \A i \in DOMAIN order.items : i > 0 \/ i > -order.fresh
    PROVE  LET new == Saved(order)
           IN  /\ DriftOf(new) = DriftOf(order)
               /\ IsFiniteSet(DOMAIN new.items)
               /\ DOMAIN new.items = {i \in DOMAIN order.items : i > 0} \cup new.inserted
<1> DEFINE new    == Saved(order)
           stored == {i \in DOMAIN order.items : i > 0}
           Old(k) == {i \in DOMAIN order.items : i > 0 \/ i > -k}
           New(k) == stored \cup nextItem .. (nextItem + k - 1)
           T == {k \in Nat : k <= order.fresh
                    => /\ Summable(new.items, New(k))
                       /\ SumOf(new.items, New(k)) = SumOf(order.items, Old(k))}
<1>1. /\ new.items = SavedItems(order) /\ new.total = order.total
      /\ new.inserted = nextItem .. (nextItem + order.fresh - 1)
  BY DEF Saved, IsOrder
<1>2. /\ DOMAIN new.items = New(order.fresh)
      /\ \A i \in stored : new.items[i] = order.items[i]
      /\ \A i \in nextItem .. (nextItem + order.fresh - 1) :
            i \notin stored => new.items[i] = [order.items[nextItem - i] EXCEPT !.order = order.id]
  BY <1>1 DEF SavedItems
<1> HIDE DEF new
<1>3. order.fresh \in Nat /\ \A i \in DOMAIN order.items : i \in Int
  BY DEF IsOrder
<1>4. Summable(order.items, DOMAIN order.items)
  BY ItemsSummable
<1>5. ASSUME NEW k \in Nat
      PROVE  Summable(order.items, Old(k)) /\ SumOf(order.items, Old(k)) \in Int
  BY <1>4, SubsetSummable, SumIsSolution
<1>6. 0 \in T
  <2>1. Old(0) = stored /\ New(0) = stored
    BY <1>3
  <2>2. Summable(order.items, stored)
    BY <1>4, SubsetSummable
  <2>3. \A i \in stored : order.items[i].subtotal = new.items[i].subtotal
    BY <1>2
  <2>4. Summable(new.items, stored) /\ SumOf(new.items, stored) = SumOf(order.items, stored)
    <3> HIDE DEF stored
    <3> QED BY <2>2, <2>3, SameSum
  <2> QED BY <2>1, <2>4
<1>7. ASSUME NEW k \in Nat, k \in T PROVE k + 1 \in T
  <2> SUFFICES ASSUME k + 1 <= order.fresh
               PROVE  /\ Summable(new.items, New(k + 1))
                      /\ SumOf(new.items, New(k + 1)) = SumOf(order.items, Old(k + 1))
    OBVIOUS
  <2> DEFINE i == nextItem + k
             j == -k
  <2>1. /\ Summable(new.items, New(k))
        /\ SumOf(new.items, New(k)) = SumOf(order.items, Old(k))
    BY <1>3, <1>7
  <2>2. j \in DOMAIN order.items /\ j \notin Old(k)
    <3>1. k \in 0 .. (order.fresh - 1)
      BY <1>3
    <3>2. -k \in DOMAIN order.items
      BY <3>1
    <3> QED BY <3>2
  <2>3. Old(k + 1) = Old(k) \cup {j}
    BY <1>3, <2>2
  <2>4. i \notin stored /\ i \notin New(k) /\ i \in nextItem .. (nextItem + order.fresh - 1)
    BY <1>3
  <2>5. New(k + 1) = New(k) \cup {i}
    BY <1>3
  <2>6. new.items[i].subtotal = order.items[j].subtotal /\ order.items[j].subtotal \in Int
    <3>1. nextItem - i = j
      OBVIOUS
    <3>2. new.items[i] = [order.items[j] EXCEPT !.order = order.id]
      BY <1>2, <2>4, <3>1
    <3>3. order.items[j] \in ItemRow
      BY <2>2 DEF IsOrder
    <3> HIDE DEF i, j
    <3> QED BY <3>2, <3>3 DEF ItemRow, Cents
  <2> HIDE DEF Old, New, i, j
  <2>7. /\ Summable(new.items, New(k) \cup {i})
        /\ SumOf(new.items, New(k) \cup {i}) = SumOf(new.items, New(k)) + new.items[i].subtotal
    BY <2>1, <2>4, <2>6, SumWith
  <2>8. SumOf(order.items, Old(k) \cup {j}) = SumOf(order.items, Old(k)) + order.items[j].subtotal
    BY <1>5, <2>2, <2>6, SumWith
  <2> QED BY <2>1, <2>3, <2>5, <2>6, <2>7, <2>8
<1>8. order.fresh \in T
  <2> HIDE DEF T
  <2>1. Nat \subseteq T
    BY <1>6, <1>7, NaturalsAreInductive
  <2> QED BY <1>3, <2>1
<1>9. Old(order.fresh) = DOMAIN order.items
  OBVIOUS
<1>10. /\ Summable(new.items, DOMAIN new.items)
       /\ SumOf(new.items, DOMAIN new.items) = SumOf(order.items, DOMAIN order.items)
  <2>1. /\ Summable(new.items, New(order.fresh))
        /\ SumOf(new.items, New(order.fresh)) = SumOf(order.items, Old(order.fresh))
    <3> HIDE DEF Old, New
    <3> QED BY <1>3, <1>8
  <2> HIDE DEF Old, New
  <2> QED BY <1>2, <1>9, <2>1
<1>11. DriftOf(new) = DriftOf(order)
  BY <1>1, <1>10 DEF DriftOf
<1>12. IsFiniteSet(DOMAIN new.items)
  BY <1>10 DEF Summable
<1> QED BY <1>1, <1>2, <1>11, <1>12 DEF new

-----------------------------------------------------------------------------
(* The invariant behind the totals.  A handler's items are finitely many,  *)
(* and those not stored yet are numbered 0, -1, ... without a gap.         *)
HoldsTidyItems(c) ==
    /\ IsFiniteSet(DOMAIN loaded[c].items)
    /\ pc[c] # "committing"
       => \A i \in DOMAIN loaded[c].items : i > 0 \/ i > -loaded[c].fresh

(* An order that is being created is the sum of its items.                 *)
CreatesWithoutDrift(c) ==
    /\ pc[c] \in {"building", "inserting", "storing"} => DriftOf(loaded[c]) = 0
    /\ pc[c] = "committing" /\ req[c].op = "create"
       => /\ DriftOf(loaded[c]) = 0
          /\ DOMAIN loaded[c].items = loaded[c].inserted

(* As long as nobody overtakes it, a handler that has read an order knows  *)
(* its total, then its items, and keeps what the total is off by.          *)
KnowsItsOrder(c) ==
    LET o    == loaded[c].id
        held == DOMAIN loaded[c].items
    IN  c \notin overtaken /\ o \in DOMAIN orders
        => /\ pc[c] = "loading" => loaded[c].total = orders[o].total
           /\ pc[c] \in {"updating", "writing"} /\ req[c].op # "remove"
              => /\ DriftOf(loaded[c]) = Drift(o)
                 /\ {i \in held : i > 0} = ItemsOf(o)
           /\ pc[c] = "committing" /\ req[c].op \notin {"create", "remove", "delete"}
              => /\ DriftOf(loaded[c]) = Drift(o)
                 /\ held = ItemsOf(o) \cup loaded[c].inserted

TotalsInv ==
    \A c \in Clients : HoldsTidyItems(c) /\ CreatesWithoutDrift(c) /\ KnowsItsOrder(c)

(* Drift in terms of sums.                                                 *)
LEMMA StoredDrift ==
    \A o : Drift(o) = Wrap(orders[o].total - SumOf(items, ItemsOf(o)))
BY DEF Drift, SumOf

LEMMA StoredDriftNext ==
    \A o : Drift(o)' = Wrap(orders'[o].total - SumOf(items', ItemsOf(o)'))
BY DEF Drift, SumOf, MapThenSumSet, MapThenFoldSet

LEMMA EmptyOrderHasNoDrift ==
    /\ DriftOf(EmptyOrder) = 0
    /\ DOMAIN EmptyOrder.items = {}
    /\ IsFiniteSet(DOMAIN EmptyOrder.items)
<1>1. EmptyOrder.total = 0 /\ DOMAIN EmptyOrder.items = {}
  BY DEF EmptyOrder
<1>2. SumOf(EmptyOrder.items, DOMAIN EmptyOrder.items) = 0
  BY <1>1, SumOfNone
<1>3. DriftOf(EmptyOrder) = Wrap(0)
  BY <1>1, <1>2 DEF DriftOf
<1>4. Wrap(0) = 0
  <2> DEFINE d == 2 * Half
  <2>1. d \in Int /\ d > 0 /\ Half \in 0 .. d - 1 /\ Half = d * 0 + Half
    BY HalfAssumption
  <2> HIDE DEF d
  <2>2. Half % d = Half
    BY <2>1, RemainderIsUnique
  <2>3. 0 + Half = Half
    BY HalfAssumption
  <2> QED BY <2>2, <2>3, HalfAssumption DEF Wrap, d
<1> QED BY <1>1, <1>3, <1>4, FS_EmptySet

(* A step of one handler that leaves the tables alone.                     *)
Quiet(c) ==
    /\ UNCHANGED <<orders, items>>
    /\ \A d \in Clients \ {c} :
          /\ pc'[d] = pc[d] /\ req'[d] = req[d] /\ loaded'[d] = loaded[d]
          /\ d \in overtaken => d \in overtaken'

LEMMA QuietKeepsTotals ==
    ASSUME TotalsInv, NEW c \in Clients, Quiet(c),
           HoldsTidyItems(c)', CreatesWithoutDrift(c)', KnowsItsOrder(c)'
    PROVE  TotalsInv'
<1>1. ASSUME NEW d \in Clients \ {c}
      PROVE  HoldsTidyItems(d)' /\ CreatesWithoutDrift(d)' /\ KnowsItsOrder(d)'
  <2>1. HoldsTidyItems(d) /\ CreatesWithoutDrift(d) /\ KnowsItsOrder(d)
    BY DEF TotalsInv
  <2>2. /\ pc'[d] = pc[d] /\ req'[d] = req[d] /\ loaded'[d] = loaded[d]
        /\ d \in overtaken => d \in overtaken'
        /\ orders' = orders /\ items' = items
    BY DEF Quiet
  <2>3. HoldsTidyItems(d)' /\ CreatesWithoutDrift(d)'
    BY <2>1, <2>2 DEF HoldsTidyItems, CreatesWithoutDrift
  <2>4. \A o : Drift(o)' = Drift(o) /\ ItemsOf(o)' = ItemsOf(o)
    BY <2>2, StoredDrift, StoredDriftNext DEF ItemsOf
  <2>5. KnowsItsOrder(d)'
    BY <2>1, <2>2, <2>4 DEF KnowsItsOrder
  <2> QED BY <2>3, <2>5
<1> QED BY <1>1 DEF TotalsInv

LEMMA LeaveKeepsTotals ==
    ASSUME IInv, TotalsInv, NEW c \in Clients, NEW code, Leave(c, code)
    PROVE  TotalsInv'
<1>1. /\ pc'[c] = "idle" /\ loaded'[c] = EmptyOrder /\ Quiet(c)
  BY DEF Leave, Answer, Goto, IInv, TypeOK, Quiet
<1>2. HoldsTidyItems(c)' /\ CreatesWithoutDrift(c)' /\ KnowsItsOrder(c)'
  BY <1>1, EmptyOrderHasNoDrift DEF HoldsTidyItems, CreatesWithoutDrift, KnowsItsOrder
<1> QED BY <1>1, <1>2, QuietKeepsTotals

LEMMA SubmitKeepsTotals ==
    ASSUME IInv, TotalsInv, NEW c \in Clients, NEW r, Submit(c, r)
    PROVE  TotalsInv'
<1>1. /\ loaded[c] = EmptyOrder /\ loaded' = loaded /\ Quiet(c)
      /\ pc'[c] \in {"idle", "building", "reading"}
  BY DEF Submit, Goto, IInv, TypeOK, MemoryMatchesStep, Quiet
<1>2. HoldsTidyItems(c)' /\ CreatesWithoutDrift(c)' /\ KnowsItsOrder(c)'
  BY <1>1, EmptyOrderHasNoDrift DEF HoldsTidyItems, CreatesWithoutDrift, KnowsItsOrder
<1> QED BY <1>1, <1>2, QuietKeepsTotals

LEMMA BuildLineKeepsTotals ==
    ASSUME IInv, TotalsInv, NEW c \in Clients, BuildLine(c)
    PROVE  TotalsInv'
<1> DEFINE lines == req[c].cart.lines
           line  == lines[loaded[c].fresh + 1]
           new   == WithItem(loaded[c], line)
<1>1. CASE Leave(c, 400)
  BY <1>1, LeaveKeepsTotals
<1>2. CASE /\ ValidLine(line)
           /\ loaded' = [loaded EXCEPT ![c] = new]
           /\ Goto(c, IF loaded[c].fresh + 1 = Len(lines) THEN "inserting" ELSE "building")
           /\ UNCHANGED <<orders, items, nextOrder, nextItem, req, locks,
                          answer, sent, overtaken>>
  <2>1. /\ pc[c] = "building" /\ IsOrder(loaded[c]) /\ GoodItems(loaded[c])
        /\ \A i \in DOMAIN loaded[c].items : i <= 0
        /\ req[c].op = "create" /\ loaded[c].fresh < Len(lines)
    BY DEF BuildLine, IInv, TypeOK, MemoryMatchesStep, GoodItems
  <2>2. HoldsTidyItems(c) /\ DriftOf(loaded[c]) = 0
    BY <2>1 DEF TotalsInv, CreatesWithoutDrift
  <2>3. line \in Line
    <3>1. req[c] \in Request
      BY <2>1 DEF IInv, TypeOK, NoRequest
    <3>2. lines \in Seq(Line)
      BY <2>1, <3>1, CartsAssumption DEF Request
    <3>3. loaded[c].fresh + 1 \in 1 .. Len(lines)
      BY <2>1, <3>2 DEF IsOrder
    <3> HIDE DEF lines
    <3> QED BY <3>2, <3>3
  <2>4. -loaded[c].fresh \notin DOMAIN loaded[c].items
    BY <2>1, <2>2 DEF HoldsTidyItems, IsOrder
  <2>5. /\ DriftOf(new) = 0 /\ IsFiniteSet(DOMAIN new.items)
        /\ new.fresh = loaded[c].fresh + 1
        /\ DOMAIN new.items = DOMAIN loaded[c].items \cup {-loaded[c].fresh}
    <3>1. DriftOf(new) = 0 /\ IsFiniteSet(DOMAIN new.items)
      BY <2>1, <2>2, <2>3, <2>4, WithItemKeepsDrift DEF HoldsTidyItems
    <3>2. /\ new.fresh = loaded[c].fresh + 1
          /\ DOMAIN new.items = DOMAIN loaded[c].items \cup {-loaded[c].fresh}
      BY <1>2, <2>1, <2>3, WithItemGood
    <3> QED BY <3>1, <3>2
  <2>6. /\ loaded'[c] = new /\ Quiet(c) /\ pc'[c] \in {"building", "inserting"}
    BY <1>2 DEF Quiet, Goto, IInv, TypeOK
  <2> HIDE DEF new
  <2>7. HoldsTidyItems(c)'
    <3>1. ASSUME NEW i \in DOMAIN new.items
          PROVE  i > 0 \/ i > -new.fresh
      <4>1. CASE i = -loaded[c].fresh
        BY <2>1, <2>5, <4>1 DEF IsOrder
      <4>2. CASE i \in DOMAIN loaded[c].items
        BY <2>1, <2>2, <2>5, <4>2 DEF IsOrder, HoldsTidyItems
      <4> QED BY <2>5, <4>1, <4>2
    <3> QED BY <2>5, <2>6, <3>1 DEF HoldsTidyItems
  <2>8. CreatesWithoutDrift(c)' /\ KnowsItsOrder(c)'
    BY <2>5, <2>6 DEF CreatesWithoutDrift, KnowsItsOrder
  <2> QED BY <2>6, <2>7, <2>8, QuietKeepsTotals
<1> QED BY <1>1, <1>2 DEF BuildLine

LEMMA InsertOrderKeepsTotals ==
    ASSUME IInv, TotalsInv, NEW c \in Clients, InsertOrder(c)
    PROVE  TotalsInv'
<1>1. /\ pc[c] = "inserting" /\ IsOrder(loaded[c])
      /\ HoldsTidyItems(c) /\ DriftOf(loaded[c]) = 0
  BY DEF InsertOrder, IInv, TypeOK, TotalsInv, CreatesWithoutDrift
<1>2. /\ loaded'[c].items = loaded[c].items /\ loaded'[c].total = loaded[c].total
      /\ loaded'[c].fresh = loaded[c].fresh
      /\ pc'[c] = "storing" /\ Quiet(c)
  BY <1>1 DEF InsertOrder, Goto, IInv, TypeOK, IsOrder, Quiet
<1>3. DriftOf(loaded'[c]) = 0
  BY <1>1, <1>2 DEF DriftOf
<1>4. HoldsTidyItems(c)' /\ CreatesWithoutDrift(c)' /\ KnowsItsOrder(c)'
  BY <1>1, <1>2, <1>3 DEF HoldsTidyItems, CreatesWithoutDrift, KnowsItsOrder
<1> QED BY <1>2, <1>4, QuietKeepsTotals

LEMMA SavesItemsKeepsTotals ==
    ASSUME IInv, TotalsInv, NEW c \in Clients, pc[c] \in {"storing", "writing"},
           SavesItems(c)
    PROVE  TotalsInv'
<1> DEFINE new == Saved(loaded[c])
<1>1. /\ IsOrder(loaded[c]) /\ nextItem \in Nat \ {0}
      /\ \A k \in 0 .. (loaded[c].fresh - 1) : -k \in DOMAIN loaded[c].items
      /\ \A i \in DOMAIN loaded[c].items : i > 0 => i < nextItem
  BY DEF IInv, TypeOK, MemoryMatchesStep
<1>2. HoldsTidyItems(c) /\ CreatesWithoutDrift(c) /\ KnowsItsOrder(c)
  BY DEF TotalsInv
<1>3. /\ DriftOf(new) = DriftOf(loaded[c])
      /\ IsFiniteSet(DOMAIN new.items)
      /\ DOMAIN new.items = {i \in DOMAIN loaded[c].items : i > 0} \cup new.inserted
  BY <1>1, <1>2, SavedKeepsDrift DEF HoldsTidyItems
<1>4. new.id = loaded[c].id
  BY <1>1, SavedRows
<1>5. /\ loaded'[c] = new /\ pc'[c] = "committing" /\ req'[c] = req[c]
      /\ orders' = orders /\ items' = items /\ overtaken' = overtaken /\ Quiet(c)
  BY DEF SavesItems, IInv, TypeOK, Quiet
<1>6. \A o : Drift(o)' = Drift(o) /\ ItemsOf(o)' = ItemsOf(o)
  BY <1>5, StoredDrift, StoredDriftNext DEF ItemsOf
<1> HIDE DEF new
<1>7. HoldsTidyItems(c)'
  BY <1>3, <1>5 DEF HoldsTidyItems
<1>8. CreatesWithoutDrift(c)'
  <2> SUFFICES ASSUME req[c].op = "create"
               PROVE  DriftOf(new) = 0 /\ DOMAIN new.items = new.inserted
    BY <1>5 DEF CreatesWithoutDrift
  <2>1. pc[c] = "storing" /\ \A i \in DOMAIN loaded[c].items : i <= 0
    BY DEF IInv, MemoryMatchesStep
  <2>2. {i \in DOMAIN loaded[c].items : i > 0} = {}
    BY <1>1, <2>1 DEF IsOrder
  <2> QED BY <1>2, <1>3, <2>1, <2>2 DEF CreatesWithoutDrift
<1>9. KnowsItsOrder(c)'
  <2> SUFFICES ASSUME c \notin overtaken, loaded[c].id \in DOMAIN orders,
                      req[c].op \notin {"create", "remove", "delete"}
               PROVE  /\ DriftOf(new) = Drift(loaded[c].id)
                      /\ DOMAIN new.items = ItemsOf(loaded[c].id) \cup new.inserted
    BY <1>4, <1>5, <1>6 DEF KnowsItsOrder
  <2>1. pc[c] = "writing"
    BY DEF IInv, MemoryMatchesStep
  <2>2. /\ DriftOf(loaded[c]) = Drift(loaded[c].id)
        /\ {i \in DOMAIN loaded[c].items : i > 0} = ItemsOf(loaded[c].id)
    BY <1>2, <2>1 DEF KnowsItsOrder
  <2> QED BY <1>3, <2>2
<1> QED BY <1>5, <1>7, <1>8, <1>9, QuietKeepsTotals

LEMMA InsertItemsKeepsTotals ==
    ASSUME IInv, TotalsInv, NEW c \in Clients, InsertItems(c) \/ WriteItems(c)
    PROVE  TotalsInv'
<1>1. pc[c] \in {"storing", "writing"} /\ (Leave(c, 500) \/ SavesItems(c))
  BY DEF InsertItems, WriteItems, SavesItems, Goto
<1> QED BY <1>1, LeaveKeepsTotals, SavesItemsKeepsTotals

LEMMA ReadOrderKeepsTotals ==
    ASSUME IInv, TotalsInv, NEW c \in Clients, ReadOrder(c)
    PROVE  TotalsInv'
<1>1. pc[c] = "reading" /\ loaded[c] = EmptyOrder
  BY DEF ReadOrder, IInv, TypeOK, MemoryMatchesStep
<1>2. CASE Leave(c, 404)
  BY <1>2, LeaveKeepsTotals
<1>3. CASE ~Leave(c, 404)
  <2> DEFINE o   == req[c].order
             new == [loaded[c] EXCEPT !.id = o, !.status = orders[o].status,
                                      !.total = orders[o].total]
  <2>1. /\ loaded' = [loaded EXCEPT ![c] = new]
        /\ Goto(c, "loading")
        /\ UNCHANGED <<orders, items, nextOrder, nextItem, req, locks, answer,
                       sent, overtaken>>
    BY <1>3 DEF ReadOrder
  <2>2. new.items = EmptyOrder.items /\ new.id = o /\ new.total = orders[o].total
    BY <1>1 DEF EmptyOrder
  <2>3. loaded'[c] = new /\ pc'[c] = "loading" /\ orders' = orders /\ Quiet(c)
    BY <2>1 DEF Goto, IInv, TypeOK, Quiet
  <2> HIDE DEF new
  <2>4. HoldsTidyItems(c)' /\ CreatesWithoutDrift(c)' /\ KnowsItsOrder(c)'
    BY <2>2, <2>3, EmptyOrderHasNoDrift
    DEF HoldsTidyItems, CreatesWithoutDrift, KnowsItsOrder
  <2> QED BY <2>3, <2>4, QuietKeepsTotals
<1> QED BY <1>2, <1>3

(* The item table is finite, and every row has a subtotal to sum.          *)
LEMMA StoredSummable ==
    ASSUME IInv, NEW ids, ids \subseteq DOMAIN items
    PROVE  Summable(items, ids)
<1>1. /\ nextItem \in Nat
      /\ \A i \in DOMAIN items : i \in 1 .. (nextItem - 1) /\ items[i] \in ItemRow
  BY DEF IInv, TypeOK
<1>2. IsFiniteSet(1 .. (nextItem - 1))
  BY <1>1, FS_Interval
<1>3. IsFiniteSet(ids)
  <2>1. ids \subseteq 1 .. (nextItem - 1)
    BY <1>1
  <2> QED BY <1>2, <2>1, FS_Subset
<1> QED BY <1>1, <1>3 DEF Summable, ItemRow, Cents

LEMMA ReadItemsKeepsTotals ==
    ASSUME IInv, TotalsInv, NEW c \in Clients, ReadItems(c)
    PROVE  TotalsInv'
<1> DEFINE r     == req[c]
           rows  == Restrict(items, ItemsOf(r.order))
           order == [loaded[c] EXCEPT !.items = rows]
           new   == Applied(order, r)
<1>1. CASE Leave(c, 200) \/ Leave(c, DomainError(order, r))
  BY <1>1, LeaveKeepsTotals
<1>2. CASE /\ DomainError(order, r) = 0
           /\ loaded' = [loaded EXCEPT ![c] = new]
           /\ Goto(c, IF r.op = "delete" THEN "deleting" ELSE "updating")
           /\ UNCHANGED <<orders, items, nextOrder, nextItem, req, locks, answer,
                          sent, overtaken>>
  <2>1. /\ pc[c] = "loading" /\ r.op \in Routes \ {"create"}
        /\ loaded[c].id = r.order /\ loaded[c].fresh = 0 /\ loaded[c].inserted = {}
        /\ IsOrder(loaded[c])
    BY DEF ReadItems, IInv, TypeOK, MemoryMatchesStep, LockMatchesStep
  <2>2. r \in Request
    BY <2>1 DEF IInv, TypeOK, NoRequest, Routes
  <2>3. /\ DOMAIN rows = ItemsOf(r.order)
        /\ \A i \in ItemsOf(r.order) : rows[i] = items[i]
    BY RestrictIds, RestrictRow
  <2>4. \A i \in ItemsOf(r.order) :
           /\ i \in Int /\ i > 0 /\ i \in DOMAIN items
           /\ items[i] \in ItemRow /\ GoodItem(items[i])
    BY DEF IInv, TypeOK, ItemRowsConsistent, ItemsOf
  <2>5. Summable(items, ItemsOf(r.order))
    BY StoredSummable DEF ItemsOf
  <2> HIDE DEF rows
  <2>6. /\ DOMAIN order = DOMAIN loaded[c] /\ order.items = rows
        /\ order.id = loaded[c].id /\ order.total = loaded[c].total
        /\ order.fresh = 0 /\ order.inserted = {}
    BY <2>1 DEF IsOrder
  <2> HIDE DEF order
  <2>7. IsOrder(order) /\ GoodItems(order)
    BY <2>1, <2>3, <2>4, <2>6 DEF IsOrder, GoodItems
  <2>8. SumOf(order.items, DOMAIN order.items) = SumOf(items, ItemsOf(r.order))
    <3>1. \A i \in ItemsOf(r.order) : items[i].subtotal = rows[i].subtotal
      BY <2>3
    <3> QED BY <2>3, <2>5, <2>6, <3>1, SameSum
  <2>9. c \notin overtaken /\ r.order \in DOMAIN orders
        => DriftOf(order) = Drift(r.order)
    <3> SUFFICES ASSUME c \notin overtaken, r.order \in DOMAIN orders
                 PROVE  DriftOf(order) = Drift(r.order)
      OBVIOUS
    <3>1. order.total = orders[r.order].total
      BY <2>1, <2>6 DEF TotalsInv, KnowsItsOrder
    <3> QED BY <2>8, <3>1, StoredDrift DEF DriftOf
  <2> HIDE DEF r
  <2>10. /\ new.id = order.id
         /\ IsFiniteSet(DOMAIN new.items)
         /\ \A i \in DOMAIN new.items : i > 0 \/ i > -new.fresh
         /\ r.op # "remove"
            => /\ DriftOf(new) = DriftOf(order)
               /\ {i \in DOMAIN new.items : i > 0} = DOMAIN order.items
    <3>1. new.id = order.id
      BY <1>2, <2>2, <2>6, <2>7, AppliedGood
    <3>2. IsFiniteSet(DOMAIN order.items) /\ \A i \in DOMAIN order.items : i > 0
      BY <2>3, <2>4, <2>5, <2>6 DEF Summable
    <3> QED BY <1>2, <2>2, <2>6, <2>7, <3>1, <3>2, AppliedKeepsDrift
  <2> HIDE DEF new
  <2>11. /\ loaded'[c] = new /\ req'[c] = r /\ overtaken' = overtaken
         /\ pc'[c] \in {"updating", "deleting"}
         /\ orders' = orders /\ items' = items /\ Quiet(c)
    BY <1>2 DEF Goto, IInv, TypeOK, Quiet, r
  <2>12. \A o : Drift(o)' = Drift(o) /\ ItemsOf(o)' = ItemsOf(o)
    BY <2>11, StoredDrift, StoredDriftNext DEF ItemsOf
  <2>13. HoldsTidyItems(c)' /\ CreatesWithoutDrift(c)'
    BY <2>10, <2>11 DEF HoldsTidyItems, CreatesWithoutDrift
  <2>14. KnowsItsOrder(c)'
    BY <2>1, <2>3, <2>6, <2>9, <2>10, <2>11, <2>12 DEF KnowsItsOrder
  <2> QED BY <2>11, <2>13, <2>14, QuietKeepsTotals
<1> QED BY <1>1, <1>2 DEF ReadItems

LEMMA LockKeepsTotals ==
    ASSUME IInv, TotalsInv, NEW c \in Clients, UpdateOrder(c) \/ DeleteOrder(c)
    PROVE  TotalsInv'
<1>1. CASE Leave(c, 500)
  BY <1>1, LeaveKeepsTotals
<1>2. CASE \/ pc[c] = "updating" /\ LockOrder(c, "writing")
           \/ pc[c] = "deleting" /\ LockOrder(c, "committing")
  <2>1. /\ UNCHANGED <<orders, items, loaded, req, overtaken>> /\ Quiet(c)
        /\ \/ pc[c] = "updating" /\ pc'[c] = "writing"
           \/ pc[c] = "deleting" /\ pc'[c] = "committing"
    BY <1>2 DEF LockOrder, Goto, IInv, TypeOK, Quiet
  <2>2. pc[c] = "deleting" => req[c].op = "delete"
    BY DEF IInv, MemoryMatchesStep
  <2>3. HoldsTidyItems(c) /\ KnowsItsOrder(c)
    BY DEF TotalsInv
  <2>4. \A o : Drift(o)' = Drift(o) /\ ItemsOf(o)' = ItemsOf(o)
    BY <2>1, StoredDrift, StoredDriftNext DEF ItemsOf
  <2>5. HoldsTidyItems(c)' /\ CreatesWithoutDrift(c)'
    BY <2>1, <2>2, <2>3 DEF HoldsTidyItems, CreatesWithoutDrift
  <2>6. KnowsItsOrder(c)'
    BY <2>1, <2>2, <2>3, <2>4 DEF KnowsItsOrder
  <2> QED BY <2>1, <2>5, <2>6, QuietKeepsTotals
<1> QED BY <1>1, <1>2 DEF UpdateOrder, DeleteOrder

-----------------------------------------------------------------------------
(* COMMIT.                                                                 *)

(* Its own order keeps what its total was off by, unless the handler was   *)
(* overtaken or took an item out.                                          *)
LEMMA OwnOrderKeepsDrift ==
    ASSUME IInv, RowsInv, TotalsInv, NEW c \in Clients, pc[c] = "committing",
           InstallRows(c), NEW o \in DOMAIN orders', o = loaded[c].id,
           c \notin overtaken, req[c].op # "remove"
    PROVE  Drift(o)' = IF o \in DOMAIN orders THEN Drift(o) ELSE 0
<1> DEFINE order == loaded[c]
           held  == DOMAIN loaded[c].items
<1>1. req[c].op # "delete"
  <2> SUFFICES ASSUME req[c].op = "delete" PROVE FALSE
    OBVIOUS
  <2> DEFINE others == DOMAIN orders \ {o}
  <2>1. orders' = Restrict(orders, others)
    BY DEF InstallRows, DeleteRows
  <2> HIDE DEF others
  <2>2. DOMAIN orders' = others
    BY <2>1, RestrictIds
  <2> QED BY <2>2 DEF others
<1>2. /\ orders'[o] = Row(order)
      /\ \A i \in held : i \in DOMAIN items' /\ items'[i] = order.items[i]
  BY <1>1, CommitStores DEF ShownIsStored
<1>3. /\ IsOrder(order) /\ IsFiniteSet(held) /\ order.inserted \subseteq held
      /\ \A i \in held : order.items[i].order = o
      /\ req[c].op \in Routes
  BY <1>1 DEF IInv, TypeOK, IsOrder, MemoryMatchesStep, TotalsInv, HoldsTidyItems
<1>4. IF o \in DOMAIN orders
      THEN DriftOf(order) = Drift(o) /\ held = ItemsOf(o) \cup order.inserted
      ELSE DriftOf(order) = 0 /\ ItemsOf(o) \subseteq held
  <2>1. CASE req[c].op = "create"
    <3>1. o \notin DOMAIN orders /\ DriftOf(order) = 0
      BY <2>1 DEF IInv, NewIdIsUnused, TotalsInv, CreatesWithoutDrift
    <3>2. ItemsOf(o) = {}
      BY <3>1 DEF IInv, NoOrphanItems, ItemsOf
    <3> QED BY <3>1, <3>2
  <2>2. CASE req[c].op # "create"
    <3>1. o \in DOMAIN orders
      BY <1>1, <2>2 DEF InstallRows, UpdateRows
    <3> QED BY <1>1, <2>2, <3>1 DEF TotalsInv, KnowsItsOrder
  <2> QED BY <2>1, <2>2
<1>5. ItemsOf(o)' = held
  <2>1. ItemsOf(o)' = {i \in DOMAIN items' : items'[i].order = o}
    BY DEF ItemsOf
  <2>2. items' = ItemsWritten(order)
    BY <1>1 DEF InstallRows, CreateRows, UpdateRows
  <2>3. ASSUME NEW i \in DOMAIN items', items'[i].order = o
        PROVE  i \in held
    <3>1. i \in held \/ (i \in DOMAIN items /\ items'[i] = items[i])
      BY <1>3, <2>2, ItemsWrittenRows
    <3> QED BY <1>4, <2>3, <3>1 DEF ItemsOf
  <2> QED BY <1>2, <1>3, <2>1, <2>3
<1>6. SumOf(items', held) = SumOf(order.items, held)
  <2>1. Summable(order.items, held)
    BY <1>3, ItemsSummable
  <2>2. \A i \in held : order.items[i].subtotal = items'[i].subtotal
    BY <1>2
  <2> QED BY <2>1, <2>2, SameSum
<1>7. Drift(o)' = Wrap(order.total - SumOf(order.items, held))
  <2>1. Drift(o)' = Wrap(orders'[o].total - SumOf(items', ItemsOf(o)'))
    BY StoredDriftNext
  <2> QED BY <1>2, <1>5, <1>6, <2>1 DEF Row
<1> QED BY <1>4, <1>7 DEF DriftOf

LEMMA OtherOrdersKeepDrift ==
    ASSUME IInv, RowsInv, NEW c \in Clients, pc[c] = "committing", InstallRows(c),
           NEW o \in DOMAIN orders, o # loaded[c].id
    PROVE  Drift(o)' = Drift(o)
<1>1. /\ orders'[o] = orders[o] /\ ItemsOf(o)' = ItemsOf(o)
      /\ \A i \in ItemsOf(o) : items[i].subtotal = items'[i].subtotal
  BY OtherOrdersUntouched
<1>2. SumOf(items', ItemsOf(o)) = SumOf(items, ItemsOf(o))
  <2>1. Summable(items, ItemsOf(o))
    BY StoredSummable DEF ItemsOf
  <2> QED BY <1>1, <2>1, SameSum
<1> QED BY <1>1, <1>2, StoredDrift, StoredDriftNext

LEMMA InstallKeepsTotals ==
    ASSUME IInv, RowsInv, TotalsInv, NEW c \in Clients, NEW code,
           pc[c] = "committing", Install(c, code)
    PROVE  TotalsInv'
<1>1. /\ pc'[c] = "idle" /\ loaded'[c] = EmptyOrder /\ InstallRows(c)
      /\ overtaken' = (overtaken \cup Readers(c)) \ {c}
      /\ \A d \in Clients \ {c} :
            pc'[d] = pc[d] /\ req'[d] = req[d] /\ loaded'[d] = loaded[d]
  BY DEF Install, Answer, Goto, IInv, TypeOK
<1>2. HoldsTidyItems(c)' /\ CreatesWithoutDrift(c)' /\ KnowsItsOrder(c)'
  BY <1>1, EmptyOrderHasNoDrift DEF HoldsTidyItems, CreatesWithoutDrift, KnowsItsOrder
<1>3. ASSUME NEW d \in Clients \ {c}
      PROVE  HoldsTidyItems(d)' /\ CreatesWithoutDrift(d)' /\ KnowsItsOrder(d)'
  <2>1. HoldsTidyItems(d) /\ CreatesWithoutDrift(d) /\ KnowsItsOrder(d)
    BY DEF TotalsInv
  <2>2. HoldsTidyItems(d)' /\ CreatesWithoutDrift(d)'
    BY <1>1, <2>1 DEF HoldsTidyItems, CreatesWithoutDrift
  <2>3. CASE loaded[d].id = loaded[c].id
    BY <1>1, <2>2, <2>3 DEF KnowsItsOrder, Readers
  <2>4. CASE loaded[d].id # loaded[c].id
    <3> PICK o : o = loaded[d].id
      OBVIOUS
    <3>1. /\ o \in DOMAIN orders' <=> o \in DOMAIN orders
          /\ o \in DOMAIN orders => orders'[o] = orders[o]
          /\ ItemsOf(o)' = ItemsOf(o)
      BY <1>1, <2>4, OtherOrdersUntouched
    <3>2. o \in DOMAIN orders => Drift(o)' = Drift(o)
      BY <1>1, <2>4, OtherOrdersKeepDrift
    <3>3. d \in overtaken => d \in overtaken'
      BY <1>1
    <3>4. pc'[d] = pc[d] /\ req'[d] = req[d] /\ loaded'[d] = loaded[d]
      BY <1>1
    <3> QED BY <2>1, <2>2, <3>1, <3>2, <3>3, <3>4 DEF KnowsItsOrder
  <2> QED BY <2>2, <2>3, <2>4
<1> QED BY <1>2, <1>3 DEF TotalsInv

-----------------------------------------------------------------------------
LEMMA InitEstablishesTotals == Init => TotalsInv
<1> SUFFICES ASSUME Init, NEW c \in Clients
             PROVE  HoldsTidyItems(c) /\ CreatesWithoutDrift(c) /\ KnowsItsOrder(c)
  BY DEF TotalsInv
<1>1. pc[c] = "idle" /\ loaded[c] = EmptyOrder /\ DOMAIN orders = {}
  BY DEF Init
<1> QED BY <1>1, EmptyOrderHasNoDrift
        DEF HoldsTidyItems, CreatesWithoutDrift, KnowsItsOrder

LEMMA NextKeepsTotals == IInv /\ RowsInv /\ TotalsInv /\ [Next]_vars => TotalsInv'
<1> SUFFICES ASSUME IInv, RowsInv, TotalsInv, [Next]_vars PROVE TotalsInv'
  OBVIOUS
<1>1. ASSUME NEW c \in Clients, NEW op \in Commands, NEW r \in Requests(op), Submit(c, r)
      PROVE  TotalsInv'
  BY <1>1, SubmitKeepsTotals
<1>2. ASSUME NEW c \in Clients, Serve(c) PROVE TotalsInv'
  <2>1. CASE Commit(c)
    BY <2>1, InstallKeepsTotals DEF Commit
  <2>2. CASE BuildLine(c) \/ InsertOrder(c) \/ InsertItems(c) \/ WriteItems(c)
    BY <2>2, BuildLineKeepsTotals, InsertOrderKeepsTotals, InsertItemsKeepsTotals
  <2>3. CASE ReadOrder(c) \/ ReadItems(c) \/ UpdateOrder(c) \/ DeleteOrder(c)
    BY <2>3, ReadOrderKeepsTotals, ReadItemsKeepsTotals, LockKeepsTotals
  <2> QED BY <1>2, <2>1, <2>2, <2>3 DEF Serve
<1>3. ASSUME NEW c \in Clients, Fail(c) PROVE TotalsInv'
  BY <1>3, LeaveKeepsTotals, InstallKeepsTotals DEF Fail
<1>4. CASE UNCHANGED vars
  <2>1. /\ pc' = pc /\ req' = req /\ loaded' = loaded /\ overtaken' = overtaken
        /\ orders' = orders /\ items' = items
    BY <1>4 DEF vars
  <2>2. \A o : Drift(o)' = Drift(o) /\ ItemsOf(o)' = ItemsOf(o)
    BY <2>1, StoredDrift, StoredDriftNext DEF ItemsOf
  <2> QED BY <2>1, <2>2
          DEF TotalsInv, HoldsTidyItems, CreatesWithoutDrift, KnowsItsOrder
<1> QED BY <1>1, <1>2, <1>3, <1>4 DEF Next, Done

LEMMA TotalsInvariance == Spec => []TotalsInv
BY Invariance, RowsInvariance, InitEstablishesTotals, NextKeepsTotals, PTL DEF Spec

(* An order's total and the sum of its items move together in every commit *)
(* of a handler that nobody overtook and that removed no item: creation,   *)
(* new items, changed items and status, with subtotals and totals wrapping *)
(* as int64 does, whatever other handlers do and whatever failed.          *)
THEOREM TotalsFollowItems == Spec => TotalFollowsItems
<1> DEFINE Follows ==
      \A o \in DOMAIN orders' :
          \/ Drift(o)' = IF o \in DOMAIN orders THEN Drift(o) ELSE 0
          \/ \E c \in Clients : /\ loaded[c].id = o
                               /\ pc[c] = "committing" /\ pc'[c] = "idle"
                               /\ (c \in overtaken \/ req[c].op = "remove")
<1>1. IInv /\ RowsInv /\ TotalsInv /\ [Next]_vars => [Follows]_vars
  <2> SUFFICES ASSUME IInv, RowsInv, TotalsInv, Next PROVE Follows
    BY DEF vars
  <2>1. ASSUME NEW c \in Clients, NEW code, pc[c] = "committing", Install(c, code)
        PROVE  Follows
    <3> SUFFICES ASSUME NEW o \in DOMAIN orders',
                        ~(loaded[c].id = o /\ (c \in overtaken \/ req[c].op = "remove"))
                 PROVE  Drift(o)' = IF o \in DOMAIN orders THEN Drift(o) ELSE 0
      BY <2>1 DEF Install, Answer, Goto, IInv, TypeOK
    <3>1. InstallRows(c)
      BY <2>1 DEF Install
    <3>2. CASE o = loaded[c].id
      BY <2>1, <3>1, <3>2, OwnOrderKeepsDrift
    <3>3. CASE o # loaded[c].id
      <4>1. o \in DOMAIN orders
        BY <2>1, <3>1, <3>3, OtherOrdersUntouched
      <4> QED BY <2>1, <3>1, <3>3, <4>1, OtherOrdersKeepDrift
    <3> QED BY <3>2, <3>3
  <2>2. CASE UNCHANGED <<orders, items>>
    <3>1. \A o : ItemsOf(o)' = ItemsOf(o)
      BY <2>2 DEF ItemsOf
    <3>2. \A o : Drift(o)' = Drift(o)
      BY <2>2, <3>1, StoredDrift, StoredDriftNext
    <3> QED BY <2>2, <3>2
  <2>3. ASSUME NEW c \in Clients, Serve(c) PROVE Follows
    <3>1. CASE Commit(c)
      BY <2>1, <3>1 DEF Commit
    <3>2. CASE ~Commit(c)
      BY <2>2, <2>3, <3>2 DEF Serve, BuildLine, InsertOrder, InsertItems, ReadOrder,
         ReadItems, UpdateOrder, WriteItems, DeleteOrder, LockOrder, Leave
    <3> QED BY <3>1, <3>2
  <2>4. ASSUME NEW c \in Clients, Fail(c) PROVE Follows
    BY <2>1, <2>2, <2>4 DEF Fail, Leave
  <2> QED BY <2>2, <2>3, <2>4 DEF Next, Submit, Done, vars
<1> QED BY Invariance, RowsInvariance, TotalsInvariance, <1>1, PTL
        DEF Spec, TotalFollowsItems
=============================================================================
