------------------------ MODULE PaymentLedger_proofs ------------------------
(***************************************************************************)
(* The balances of a payment are the sums of its ledger entries, for every *)
(* value of the constants. The sums are those of SumFunctionOnSet, a       *)
(* recursive function; what is needed of them is proved here by looking at *)
(* a smallest exception.                                                   *)
(***************************************************************************)
EXTENDS PaymentEvidence_proofs, FiniteSetTheorems

----------------------------------------------------------------------------
(* Sums over finite sets.                                                  *)

LessThan == {ss \in Nat \X Nat : ss[1] < ss[2]}

\* A set of numbers has a least one.
LEMMA Least ==
    ASSUME NEW T, T \subseteq Nat, T # {}
    PROVE  \E n \in T : \A m \in T : n <= m
<1>1. IsWellFoundedOn(LessThan, Nat)
  BY NatLessThanWellFounded DEF OpToRel, LessThan
<1>2. PICK n \in T : \A m \in T : ~(<<m, n>> \in LessThan)
  BY <1>1, WFMin
<1>3. \A m \in T : ~(m < n)
  BY <1>2 DEF LessThan
<1> QED
  BY <1>3

\* A family of finite sets has a member from which nothing can be taken away
\* without leaving the family.
LEMMA Minimal ==
    ASSUME NEW S, IsFiniteSet(S), NEW B, B \subseteq SUBSET S, B # {}
    PROVE  \E s \in B : \A x \in s : s \ {x} \notin B
<1> DEFINE sizes == {Cardinality(s) : s \in B}
<1>1. \A s \in SUBSET S : IsFiniteSet(s) /\ Cardinality(s) \in Nat
  BY FS_Subset, FS_CardinalityType
<1>2. PICK n \in sizes : \A m \in sizes : n <= m
  <2>1. sizes \subseteq Nat /\ sizes # {}
    BY <1>1
  <2> QED
    BY <2>1, Least
<1>3. PICK s \in B : n = Cardinality(s)
  BY <1>2
<1>4. ASSUME NEW x \in s, s \ {x} \in B
      PROVE  FALSE
  <2>1. Cardinality(s \ {x}) = Cardinality(s) - 1
    BY <1>1, <1>3, <1>4, FS_RemoveElement
  <2>2. Cardinality(s) <= Cardinality(s \ {x})
    BY <1>2, <1>3, <1>4
  <2> QED
    BY <1>1, <1>3, <2>1, <2>2
<1> QED
  BY <1>3, <1>4

Chosen(s) == CHOOSE x \in s : TRUE

\* A set that is not empty has the element chosen from it.
LEMMA ChosenIsIn == ASSUME NEW s, s # {} PROVE Chosen(s) \in s
BY DEF Chosen

\* g gives every part of S its sum, as SumFunctionOnSet computes it.
IsSum(g, f, S) ==
    g = [s \in SUBSET S |-> IF s = {} THEN 0
                            ELSE f[Chosen(s)] + g[s \ {Chosen(s)}]]

\* A function that adds up the subsets of S has its value from what is left.
LEMMA SumValue ==
    ASSUME NEW g, NEW f, NEW S, IsSum(g, f, S), NEW s \in SUBSET S
    PROVE  /\ s = {} => g[s] = 0
           /\ s # {} => g[s] = f[Chosen(s)] + g[s \ {Chosen(s)}]
<1> DEFINE body(t) == IF t = {} THEN 0 ELSE f[Chosen(t)] + g[t \ {Chosen(t)}]
<1>1. g = [t \in SUBSET S |-> body(t)]
  BY DEF IsSum
<1>2. g[s] = body(s)
  BY <1>1
<1> QED
  BY <1>2

\* Sums do not depend on what they are parts of.
LEMMA SumsAgree ==
    ASSUME NEW S, IsFiniteSet(S), NEW T, S \subseteq T, NEW f, NEW e,
           \A x \in S : f[x] = e[x],
           NEW g, IsSum(g, f, S), NEW h, IsSum(h, e, T)
    PROVE  \A s \in SUBSET S : g[s] = h[s]
<1> DEFINE B == {s \in SUBSET S : g[s] # h[s]}
<1>1. SUFFICES ASSUME B # {} PROVE FALSE
  OBVIOUS
<1>2. PICK s \in B : \A x \in s : s \ {x} \notin B
  BY <1>1, Minimal
<1>3. s \in SUBSET S /\ s \in SUBSET T /\ g[s] # h[s]
  BY <1>2
<1>4. s # {}
  BY <1>3, SumValue
<1>5. Chosen(s) \in s /\ s \ {Chosen(s)} \in SUBSET S
  BY <1>3, <1>4, ChosenIsIn
<1>6. g[s \ {Chosen(s)}] = h[s \ {Chosen(s)}] /\ f[Chosen(s)] = e[Chosen(s)]
  BY <1>2, <1>3, <1>5
<1>7. g[s] = f[Chosen(s)] + g[s \ {Chosen(s)}]
  BY <1>3, <1>4, SumValue
<1>8. h[s] = e[Chosen(s)] + h[s \ {Chosen(s)}]
  BY <1>3, <1>4, SumValue
<1> QED
  BY <1>3, <1>6, <1>7, <1>8

\* Sums of numbers are numbers.
LEMMA SumsAreNumbers ==
    ASSUME NEW S, IsFiniteSet(S), NEW f, \A x \in S : f[x] \in Nat,
           NEW g, IsSum(g, f, S)
    PROVE  \A s \in SUBSET S : g[s] \in Nat
<1> DEFINE B == {s \in SUBSET S : g[s] \notin Nat}
<1>1. SUFFICES ASSUME B # {} PROVE FALSE
  OBVIOUS
<1>2. PICK s \in B : \A x \in s : s \ {x} \notin B
  BY <1>1, Minimal
<1>3. s \in SUBSET S /\ g[s] \notin Nat
  BY <1>2
<1>4. s # {}
  <2>1. s = {} => g[s] = 0
    BY <1>3, SumValue
  <2> QED
    BY <1>3, <2>1
<1>5. Chosen(s) \in s /\ s \ {Chosen(s)} \in SUBSET S
  BY <1>3, <1>4, ChosenIsIn
<1>6. g[s \ {Chosen(s)}] \in Nat /\ f[Chosen(s)] \in Nat
  BY <1>2, <1>3, <1>5
<1>7. g[s] = f[Chosen(s)] + g[s \ {Chosen(s)}]
  BY <1>3, <1>4, SumValue
<1> QED
  BY <1>3, <1>6, <1>7

\* Any element may be taken out of a sum first.
LEMMA TakenOut ==
    ASSUME NEW S, IsFiniteSet(S), NEW f, \A x \in S : f[x] \in Nat,
           NEW g, IsSum(g, f, S)
    PROVE  \A s \in SUBSET S : \A x \in s : g[s] = f[x] + g[s \ {x}]
<1> DEFINE B == {s \in SUBSET S : \E x \in s : g[s] # f[x] + g[s \ {x}]}
<1>1. SUFFICES ASSUME B # {} PROVE FALSE
  OBVIOUS
<1>2. PICK s \in B : \A x \in s : s \ {x} \notin B
  BY <1>1, Minimal
<1>3. PICK x \in s : g[s] # f[x] + g[s \ {x}]
  BY <1>2
<1> DEFINE y == Chosen(s)
           rest == (s \ {x}) \ {y}
<1>4. s \in SUBSET S /\ s # {} /\ y \in s /\ x \in S /\ y \in S
  BY <1>2, <1>3, ChosenIsIn
<1>5. g[s] = f[y] + g[s \ {y}]
  BY <1>4, SumValue
<1>6. x # y
  BY <1>3, <1>5
<1>7. /\ s \ {x} \in SUBSET S /\ s \ {x} \notin B /\ y \in s \ {x}
      /\ s \ {y} \in SUBSET S /\ s \ {y} \notin B /\ x \in s \ {y}
  BY <1>2, <1>3, <1>4, <1>6
<1>8. (s \ {y}) \ {x} = rest
  OBVIOUS
<1>9. g[s \ {x}] = f[y] + g[rest] /\ g[s \ {y}] = f[x] + g[rest]
  <2> HIDE DEF y
  <2>1. g[s \ {x}] = f[y] + g[(s \ {x}) \ {y}]
    BY <1>7
  <2>2. g[s \ {y}] = f[x] + g[(s \ {y}) \ {x}]
    BY <1>7
  <2> QED
    BY <1>8, <2>1, <2>2
<1>10. f[x] \in Nat /\ f[y] \in Nat /\ g[rest] \in Nat
  BY <1>4, SumsAreNumbers
<1> HIDE DEF y, rest, B
<1> QED
  BY <1>3, <1>5, <1>9, <1>10

\* The parts of at most n elements, and their sums.
Small(S, n) == {s \in SUBSET S : Cardinality(s) <= n}

IsSmallSum(g, f, S, n) ==
    g = [s \in Small(S, n) |-> IF s = {} THEN 0
                               ELSE f[Chosen(s)] + g[s \ {Chosen(s)}]]

\* Sets with few elements have a function that adds them up.
LEMMA SmallSumsExist ==
    ASSUME NEW S, IsFiniteSet(S), NEW f, NEW n \in Nat
    PROVE  \E g : IsSmallSum(g, f, S, n)
<1> DEFINE B == {m \in Nat : ~ \E g : IsSmallSum(g, f, S, m)}
<1>1. SUFFICES ASSUME B # {} PROVE FALSE
  OBVIOUS
<1>2. PICK m \in B : \A k \in B : m <= k
  BY <1>1, Least
<1>3. \A s \in SUBSET S : IsFiniteSet(s) /\ Cardinality(s) \in Nat
  BY FS_Subset, FS_CardinalityType
<1>4. CASE m = 0
  <2> DEFINE g == [s \in Small(S, m) |-> 0]
  <2>1. \A s \in Small(S, m) : s = {}
    BY <1>3, <1>4, FS_EmptySet DEF Small
  <2>2. IsSmallSum(g, f, S, m)
    BY <2>1 DEF IsSmallSum
  <2> QED
    BY <1>2, <2>2
<1>5. CASE m # 0
  <2>1. m - 1 \in Nat /\ m - 1 \notin B
    BY <1>2, <1>5
  <2>2. PICK h : IsSmallSum(h, f, S, m - 1)
    BY <2>1
  <2> DEFINE body(t) == IF t = {} THEN 0 ELSE f[Chosen(t)] + h[t \ {Chosen(t)}]
             g == [t \in Small(S, m) |-> body(t)]
  <2>3. \A t \in Small(S, m - 1) : h[t] = body(t)
    <3>1. h = [t \in Small(S, m - 1) |-> body(t)]
      BY <2>2 DEF IsSmallSum
    <3> QED
      BY <3>1
  <2>4. ASSUME NEW t \in Small(S, m), t # {}
        PROVE  t \ {Chosen(t)} \in Small(S, m - 1) /\ t \ {Chosen(t)} \in Small(S, m)
    <3>1. Chosen(t) \in t /\ IsFiniteSet(t) /\ t \in SUBSET S
      BY <1>3, <2>4, ChosenIsIn DEF Small
    <3>2. Cardinality(t \ {Chosen(t)}) = Cardinality(t) - 1
      BY <3>1, FS_RemoveElement
    <3> QED
      BY <1>2, <1>3, <2>4, <3>1, <3>2 DEF Small
  <2>5. \A t \in Small(S, m) : t # {} => g[t \ {Chosen(t)}] = h[t \ {Chosen(t)}]
    <3> HIDE DEF body
    <3> QED
      BY <2>3, <2>4
  <2>6. \A t \in Small(S, m) :
           body(t) = IF t = {} THEN 0 ELSE f[Chosen(t)] + g[t \ {Chosen(t)}]
    <3> HIDE DEF g
    <3> QED
      BY <2>5
  <2>7. IsSmallSum(g, f, S, m)
    <3>1. g = [t \in Small(S, m) |-> body(t)]
      OBVIOUS
    <3> HIDE DEF g, body
    <3> QED
      BY <2>6, <3>1 DEF IsSmallSum
  <2> QED
    BY <1>2, <2>7
<1> QED
  BY <1>4, <1>5

\* Finite sets have sums.
LEMMA SumsExist ==
    ASSUME NEW S, IsFiniteSet(S), NEW f
    PROVE  \E g : IsSum(g, f, S)
<1>1. Cardinality(S) \in Nat
  BY FS_CardinalityType
<1>2. PICK g : IsSmallSum(g, f, S, Cardinality(S))
  BY <1>1, SmallSumsExist
<1>3. Small(S, Cardinality(S)) = SUBSET S
  BY FS_Subset DEF Small
<1> QED
  BY <1>2, <1>3 DEF IsSum, IsSmallSum

\* n is the sum of f over S.
HasSum(f, S, n) == \E g : IsSum(g, f, S) /\ n = g[S]

\* What SumFunctionOnSet computes is a sum.
LEMMA SumIsComputed ==
    ASSUME NEW f, NEW S, IsFiniteSet(S)
    PROVE  HasSum(f, S, SumFunctionOnSet(f, S))
<1> DEFINE literal(g) ==
             g = [s \in SUBSET S |->
                   IF s = {} THEN 0
                   ELSE f[CHOOSE x \in s : TRUE] + g[s \ {CHOOSE x \in s : TRUE}]]
<1>1. \A g : literal(g) <=> IsSum(g, f, S)
  BY DEF IsSum, Chosen
<1>2. \E g : literal(g)
  <2> HIDE DEF literal
  <2> QED
    BY <1>1, SumsExist
<1>3. SumFunctionOnSet(f, S) = (CHOOSE g : literal(g))[S]
  BY DEF SumFunctionOnSet, FoldFunctionOnSet, MapThenFoldSet
<1>4. literal(CHOOSE g : literal(g))
  BY <1>2
<1> HIDE DEF literal
<1> QED
  BY <1>1, <1>3, <1>4 DEF HasSum

\* The sum of nothing is zero.
LEMMA SumOfNone == ASSUME NEW f, NEW n, HasSum(f, {}, n) PROVE n = 0
BY SumValue DEF HasSum

\* A sum of numbers is a number.
LEMMA SumIsNumber ==
    ASSUME NEW S, IsFiniteSet(S), NEW f, \A x \in S : f[x] \in Nat,
           NEW n, HasSum(f, S, n)
    PROVE  n \in Nat
BY SumsAreNumbers DEF HasSum

\* A sum depends on the summands only.
LEMMA SameSum ==
    ASSUME NEW S, IsFiniteSet(S), NEW f, NEW e, \A x \in S : f[x] = e[x],
           NEW n, HasSum(f, S, n), NEW m, HasSum(e, S, m)
    PROVE  m = n
<1>1. PICK g : IsSum(g, f, S) /\ n = g[S]
  BY DEF HasSum
<1>2. PICK h : IsSum(h, e, S) /\ m = h[S]
  BY DEF HasSum
<1> QED
  BY <1>1, <1>2, SumsAgree

\* One summand more.
LEMMA SumGrows ==
    ASSUME NEW S, IsFiniteSet(S), NEW f, NEW e, \A y \in S : f[y] = e[y],
           NEW x, x \notin S, NEW T, T = S \cup {x}, \A y \in T : e[y] \in Nat,
           NEW n, HasSum(f, S, n), NEW m, HasSum(e, T, m)
    PROVE  m = n + e[x]
<1>1. PICK g : IsSum(g, f, S) /\ n = g[S]
  BY DEF HasSum
<1>2. PICK h : IsSum(h, e, T) /\ m = h[T]
  BY DEF HasSum
<1>3. IsFiniteSet(T)
  BY FS_AddElement
<1>4. h[T] = e[x] + h[T \ {x}] /\ T \ {x} = S
  BY <1>2, <1>3, TakenOut
<1>5. g[S] = h[S]
  <2>1. IsSum(g, f, S) /\ IsSum(h, e, T) /\ S \subseteq T
    BY <1>1, <1>2
  <2> QED
    BY <1>3, <2>1, SumsAgree
<1>6. g[S] \in Nat /\ e[x] \in Nat
  <2>1. \A y \in S : f[y] \in Nat
    OBVIOUS
  <2> QED
    BY <1>1, <2>1, SumsAreNumbers
<1>7. m = e[x] + n
  BY <1>1, <1>2, <1>4, <1>5
<1> QED
  BY <1>1, <1>6, <1>7

\* The same of the sums that SumFunctionOnSet computes.
LEMMA SumDepends ==
    ASSUME NEW S, IsFiniteSet(S), NEW f, NEW e, \A x \in S : f[x] = e[x]
    PROVE  SumFunctionOnSet(f, S) = SumFunctionOnSet(e, S)
BY SumIsComputed, SameSum

\* A sum is one summand and the sum of the others.
LEMMA SumTaken ==
    ASSUME NEW S, IsFiniteSet(S), NEW f, \A x \in S : f[x] \in Nat, NEW x \in S
    PROVE  /\ IsFiniteSet(S \ {x})
           /\ SumFunctionOnSet(f, S) \in Nat
           /\ SumFunctionOnSet(f, S \ {x}) \in Nat
           /\ SumFunctionOnSet(f, S) = f[x] + SumFunctionOnSet(f, S \ {x})
<1> DEFINE R == S \ {x}
<1>1. IsFiniteSet(R) /\ x \notin R /\ S = R \cup {x}
  BY FS_Subset
<1> HIDE DEF R
<1>2. SumFunctionOnSet(f, S) = SumFunctionOnSet(f, R) + f[x]
  BY <1>1, SumIsComputed, SumGrows
<1>3. SumFunctionOnSet(f, R) \in Nat /\ SumFunctionOnSet(f, S) \in Nat
  BY <1>1, SumIsComputed, SumIsNumber
<1> QED
  BY <1>1, <1>2, <1>3 DEF R

----------------------------------------------------------------------------
(* Totals of ledger entries.                                               *)

Of(entries, operations) ==
    {i \in DOMAIN entries : entries[i].operation \in operations}

\* Amounts can be added up over any part of the ledger.
LEMMA AmountsAreNumbers ==
    ASSUME NEW entries \in Seq(LedgerEntry), NEW S, S \subseteq DOMAIN entries
    PROVE  /\ IsFiniteSet(S)
           /\ \A i \in S : AmountsIn(entries)[i] \in Nat
<1>1. DOMAIN entries = 1..Len(entries) /\ IsFiniteSet(1..Len(entries))
  BY FS_Interval
<1>2. IsFiniteSet(S)
  BY <1>1, FS_Subset
<1>3. \A i \in S : i \in DOMAIN entries /\ entries[i] \in LedgerEntry
  OBVIOUS
<1>4. \A i \in S : entries[i].amount \in Nat
  BY <1>3 DEF LedgerEntry
<1> QED
  BY <1>2, <1>3, <1>4 DEF AmountsIn

\* What Total computes is a sum.
LEMMA TotalIsSum ==
    ASSUME NEW entries \in Seq(LedgerEntry), NEW operations
    PROVE  /\ IsFiniteSet(Of(entries, operations))
           /\ \A i \in Of(entries, operations) : AmountsIn(entries)[i] \in Nat
           /\ HasSum(AmountsIn(entries), Of(entries, operations),
                     Total(entries, operations))
<1>1. Of(entries, operations) \subseteq DOMAIN entries
  BY DEF Of
<1>2. /\ IsFiniteSet(Of(entries, operations))
      /\ \A i \in Of(entries, operations) : AmountsIn(entries)[i] \in Nat
  BY <1>1, AmountsAreNumbers
<1>3. Total(entries, operations) =
        SumFunctionOnSet(AmountsIn(entries), Of(entries, operations))
  BY DEF Total, Of
<1> QED
  BY <1>2, <1>3, SumIsComputed

\* An entry more counts once, in the totals of its operation.
LEMMA TotalGrows ==
    ASSUME NEW entries \in Seq(LedgerEntry), NEW entry \in LedgerEntry,
           NEW operations
    PROVE  /\ Total(entries, operations) \in Nat
           /\ Total(entries \o <<entry>>, operations) =
                Total(entries, operations)
                + IF entry.operation \in operations THEN entry.amount ELSE 0
<1> DEFINE more == entries \o <<entry>>
           last == Len(entries) + 1
           S == Of(entries, operations)
           T == Of(more, operations)
           n == Total(entries, operations)
           m == Total(more, operations)
<1>1. /\ more \in Seq(LedgerEntry)
      /\ DOMAIN entries = 1..Len(entries) /\ DOMAIN more = 1..last
      /\ last \notin 1..Len(entries) /\ last \in DOMAIN more
      /\ DOMAIN more = DOMAIN entries \cup {last}
      /\ \A i \in DOMAIN entries : more[i] = entries[i]
      /\ more[last] = entry
  OBVIOUS
<1>2. /\ IsFiniteSet(S) /\ HasSum(AmountsIn(entries), S, n)
      /\ \A i \in S : AmountsIn(entries)[i] \in Nat
  BY TotalIsSum
<1>3. /\ IsFiniteSet(T) /\ HasSum(AmountsIn(more), T, m)
      /\ \A i \in T : AmountsIn(more)[i] \in Nat
  BY <1>1, TotalIsSum
<1> HIDE DEF more
<1>4. \A i \in S : AmountsIn(entries)[i] = AmountsIn(more)[i]
  BY <1>1 DEF Of, AmountsIn
<1>5. n \in Nat
  BY <1>2, SumIsNumber
<1>6. AmountsIn(more)[last] = entry.amount /\ entry.amount \in Nat
  BY <1>1 DEF AmountsIn, LedgerEntry
<1>7. CASE entry.operation \in operations
  <2>1. T = S \cup {last} /\ last \notin S
    BY <1>1, <1>7 DEF Of
  <2> HIDE DEF S, T, n, m, last
  <2>2. m = n + AmountsIn(more)[last]
    BY <1>2, <1>3, <1>4, <2>1, SumGrows
  <2>3. m = n + entry.amount
    BY <1>6, <2>2
  <2> QED
    BY <1>5, <1>7, <2>3 DEF n, m, more
<1>8. CASE entry.operation \notin operations
  <2>1. T = S
    BY <1>1, <1>8 DEF Of
  <2> HIDE DEF S, T, n, m
  <2>2. m = n
    BY <1>2, <1>3, <1>4, <2>1, SameSum
  <2> QED
    BY <1>5, <1>8, <2>2 DEF n, m, more
<1> QED
  BY <1>7, <1>8

\* No entries, no total.
LEMMA TotalOfNone == ASSUME NEW operations PROVE Total(<<>>, operations) = 0
<1>1. Of(<<>>, operations) = {}
  BY DEF Of
<1>2. <<>> \in Seq(LedgerEntry)
  OBVIOUS
<1> QED
  BY <1>1, <1>2, TotalIsSum, SumOfNone
----------------------------------------------------------------------------
(* The balances.                                                           *)

\* The three balances, and what was cancelled, as the entries tell them.
Explains(entries, row) ==
    /\ Balances(row, Total(entries, {"AUTHORIZATION", "CONFIRMATION_CAPTURE"}),
                Total(entries, {"CAPTURE", "CONFIRMATION_CAPTURE"}),
                Total(entries, {"REFUND"}))
    /\ Total(entries, {"CANCEL"}) = IF row.status = "CANCELLED"
                                      THEN row.authorized_amount ELSE 0

\* A payment that is opened holds what its entry says.
LEMMA OpeningExplained ==
    ASSUME NEW row, NEW type, NEW entries, Opening(row, type, entries)
    PROVE  Explains(entries, row) /\ entries \in Seq(LedgerEntry)
<1>1. /\ row \in Payment /\ MoneyFitsStatus(row) /\ row.amount \in Nat \ {0}
  BY AmountsAssumption DEF Opening, Payment
<1>2. CASE row.status = "AUTHORIZED" /\ entries = <<Entry("AUTHORIZATION", row.amount)>>
  <2> DEFINE entry == Entry("AUTHORIZATION", row.amount)
             none == <<>>
  <2>1. entry \in LedgerEntry /\ entry.operation = "AUTHORIZATION"
        /\ entry.amount = row.amount
    BY <1>1 DEF Entry, LedgerEntry, LedgerOperations
  <2>2. none \in Seq(LedgerEntry) /\ entries = none \o <<entry>>
    BY <1>2, <2>1
  <2>3. \A operations : Total(none, operations) = 0
    BY TotalOfNone
  <2> HIDE DEF entry, none
  <2>4. \A operations : Total(entries, operations) =
           IF "AUTHORIZATION" \in operations THEN row.amount ELSE 0
    BY <1>1, <2>1, <2>2, <2>3, TotalGrows
  <2>5. Balances(row, row.amount, 0, 0)
    BY <1>1, <1>2 DEF MoneyFitsStatus
  <2> QED
    BY <1>2, <2>1, <2>2, <2>4, <2>5 DEF Explains, Balances
<1>3. CASE row.status \in {"DECLINED", "AWAITING_PAYMENT"} /\ entries = <<>>
  <2>1. Balances(row, 0, 0, 0)
    BY <1>1, <1>3 DEF MoneyFitsStatus
  <2>2. \A operations : Total(entries, operations) = 0
    BY <1>3, TotalOfNone
  <2> QED
    BY <1>3, <2>1, <2>2 DEF Explains, Balances
<1> QED
  BY <1>2, <1>3 DEF Opening

\* A move's entry accounts for the change of the balances.
LEMMA MoveExplained ==
    ASSUME NEW s \in Payment, MoneyFitsStatus(s), NEW t, NEW more, Move(s, t, more),
           NEW entries \in Seq(LedgerEntry), Explains(entries, s)
    PROVE  Explains(entries \o more, t)
<1> DEFINE all == entries \o more
<1>0. /\ s.amount \in Nat \ {0} /\ s.amount \in Nat
      /\ s.authorized_amount \in Nat /\ s.captured_amount \in Nat
      /\ s.refunded_amount \in Nat
  BY AmountsAssumption DEF Payment
<1>1. ASSUME NEW entry \in LedgerEntry, more = <<entry>>
      PROVE  \A operations :
               Total(all, operations) = Total(entries, operations)
                 + IF entry.operation \in operations THEN entry.amount ELSE 0
  BY <1>1, TotalGrows
<1>2. ASSUME NEW operation \in LedgerOperations, NEW amount \in Nat \ {0}
      PROVE  /\ Entry(operation, amount) \in LedgerEntry
             /\ Entry(operation, amount).operation = operation
             /\ Entry(operation, amount).amount = amount
  BY DEF Entry, LedgerEntry
<1>3. more = <<>> => all = entries
  OBVIOUS
<1>4. CASE CanCapture(s) /\ t = Bumped(capture(s))
           /\ more = <<Entry("CAPTURE", capture(s).captured_amount - s.captured_amount)>>
  <2> DEFINE entry == Entry("CAPTURE", s.amount)
  <2>1. Balances(s, s.amount, 0, 0) /\ s.status = "AUTHORIZED"
    BY <1>4 DEF MoneyFitsStatus, CanCapture
  <2>2. /\ t.status = "CAPTURED" /\ Balances(t, s.amount, s.amount, 0)
        /\ capture(s).captured_amount = s.amount
    BY <1>4, <2>1, CaptureRow, BumpedRow DEF Balances
  <2>3. more = <<entry>>
    BY <1>0, <1>4, <2>1, <2>2 DEF Balances
  <2>4. entry \in LedgerEntry /\ entry.operation = "CAPTURE" /\ entry.amount = s.amount
    BY <1>0, <1>2 DEF LedgerOperations
  <2> HIDE DEF all, entry
  <2>5. \A operations :
          Total(all, operations) = Total(entries, operations)
            + IF "CAPTURE" \in operations THEN s.amount ELSE 0
    BY <1>1, <2>3, <2>4
  <2>6. Explains(all, t)
    BY <1>0, <2>1, <2>2, <2>5 DEF Explains, Balances
  <2> QED
    BY <2>6 DEF all
<1>5. CASE CanCancel(s) /\ t = Bumped(cancel(s)) /\ s.status = "AWAITING_PAYMENT"
           /\ more = <<>>
  <2>1. Balances(s, 0, 0, 0)
    BY <1>5 DEF MoneyFitsStatus
  <2>2. t.status = "CANCELLED" /\ Balances(t, 0, 0, 0)
    BY <1>5, <2>1, CancelRow, BumpedRow DEF Balances
  <2> QED
    BY <1>3, <1>5, <2>1, <2>2 DEF Explains, Balances
<1>6. CASE CanCancel(s) /\ t = Bumped(cancel(s)) /\ s.status = "AUTHORIZED"
           /\ more = <<Entry("CANCEL", s.authorized_amount)>>
  <2> DEFINE entry == Entry("CANCEL", s.amount)
  <2>1. Balances(s, s.amount, 0, 0)
    BY <1>6 DEF MoneyFitsStatus
  <2>2. t.status = "CANCELLED" /\ Balances(t, s.amount, 0, 0)
    BY <1>6, <2>1, CancelRow, BumpedRow DEF Balances
  <2>3. more = <<entry>>
    BY <1>6, <2>1 DEF Balances
  <2>4. entry \in LedgerEntry /\ entry.operation = "CANCEL" /\ entry.amount = s.amount
    BY <1>0, <1>2 DEF LedgerOperations
  <2> HIDE DEF all, entry
  <2>5. \A operations :
          Total(all, operations) = Total(entries, operations)
            + IF "CANCEL" \in operations THEN s.amount ELSE 0
    BY <1>1, <2>3, <2>4
  <2>6. Explains(all, t)
    BY <1>0, <1>6, <2>1, <2>2, <2>5 DEF Explains, Balances
  <2> QED
    BY <2>6 DEF all
<1>7. ASSUME NEW amount \in Amounts, CanRefund(s, amount),
             t = Bumped(refund(s, amount)), more = <<Entry("REFUND", amount)>>
      PROVE  Explains(all, t)
  <2> DEFINE entry == Entry("REFUND", amount)
             u == refund(s, amount)
  <2>0. amount \in Nat \ {0} /\ amount \in Nat
    BY AmountsAssumption
  <2>1. s.status \in {"CAPTURED", "PARTIALLY_REFUNDED"}
    BY <1>7 DEF CanRefund
  <2>2. /\ u \in Payment /\ u.status \in {"REFUNDED", "PARTIALLY_REFUNDED"}
        /\ Balances(u, s.authorized_amount, s.captured_amount,
                    s.refunded_amount + amount)
    BY <1>7, <2>0, RefundRow
  <2>3. t = Bumped(u)
    BY <1>7
  <2>4. entry \in LedgerEntry /\ entry.operation = "REFUND" /\ entry.amount = amount
    BY <1>2, <2>0 DEF LedgerOperations
  <2>5. more = <<entry>>
    BY <1>7
  <2> HIDE DEF all, entry, u
  <2>6. /\ t.status \in {"REFUNDED", "PARTIALLY_REFUNDED"}
        /\ Balances(t, s.authorized_amount, s.captured_amount,
                    s.refunded_amount + amount)
    BY <2>2, <2>3, BumpedRow DEF Balances
  <2>7. \A operations :
          Total(all, operations) = Total(entries, operations)
            + IF "REFUND" \in operations THEN amount ELSE 0
    BY <1>1, <2>4, <2>5
  <2> QED
    BY <1>0, <2>0, <2>1, <2>6, <2>7 DEF Explains, Balances
<1>8. CASE CanCaptureConfirmation(s, s.amount) /\ t = Bumped(capture_confirmation(s, s.amount))
           /\ more = <<Entry("CONFIRMATION_CAPTURE", s.amount)>>
  <2> DEFINE entry == Entry("CONFIRMATION_CAPTURE", s.amount)
             u == capture_confirmation(s, s.amount)
  <2>1. Balances(s, 0, 0, 0) /\ s.status = "AWAITING_PAYMENT"
    BY <1>8 DEF MoneyFitsStatus, CanCaptureConfirmation
  <2>2. /\ u \in Payment /\ u.status = "CAPTURED"
        /\ Balances(u, s.amount, s.amount, 0)
    BY <1>0, CaptureConfirmationRow
  <2>3. t = Bumped(u) /\ more = <<entry>>
    BY <1>8
  <2>4. /\ entry \in LedgerEntry /\ entry.operation = "CONFIRMATION_CAPTURE"
        /\ entry.amount = s.amount
    BY <1>0, <1>2 DEF LedgerOperations
  <2> HIDE DEF all, entry, u
  <2>5. t.status = "CAPTURED" /\ Balances(t, s.amount, s.amount, 0)
    BY <2>2, <2>3, BumpedRow DEF Balances
  <2>6. \A operations :
          Total(all, operations) = Total(entries, operations)
            + IF "CONFIRMATION_CAPTURE" \in operations THEN s.amount ELSE 0
    BY <1>1, <2>3, <2>4
  <2>7. Explains(all, t)
    BY <1>0, <2>1, <2>5, <2>6 DEF Explains, Balances
  <2> QED
    BY <2>7 DEF all
<1>9. CASE CanExpire(s) /\ t = Bumped(expire(s)) /\ more = <<>>
  <2>1. Balances(s, 0, 0, 0) /\ s.status = "AWAITING_PAYMENT"
    BY <1>9 DEF MoneyFitsStatus, CanExpire
  <2>2. t.status = "EXPIRED" /\ Balances(t, 0, 0, 0)
    BY <1>9, <2>1, ExpireRow, BumpedRow DEF Balances
  <2> QED
    BY <1>3, <1>9, <2>1, <2>2 DEF Explains, Balances
<1> HIDE DEF all
<1>10. Explains(all, t)
  <2>1. CASE CanCancel(s) /\ t = Bumped(cancel(s))
             /\ more = IF s.status = "AWAITING_PAYMENT" THEN <<>>
                       ELSE <<Entry("CANCEL", s.authorized_amount)>>
    BY <1>5, <1>6, <2>1 DEF CanCancel, all
  <2> QED
    BY <1>4, <1>7, <1>8, <1>9, <2>1 DEF Move, all
<1> QED
  BY <1>10 DEF all

\* A payment that a step leaves, opens or moves stays explained.
LEMMA ExplainedStep ==
    ASSUME Core, [Next]_vars, LedgerExplainsBalances
    PROVE  LedgerExplainsBalances'
<1>1. ASSUME NEW p \in DOMAIN payments'
      PROVE  Explains(ledger'[p], payments'[p])
  <2>1. p \in PaymentIds
    <3>1. Core'
      BY NextCore
    <3> QED
      BY <3>1 DEF Core, TablesOK, IsTable
  <2>2. p \in DOMAIN payments => Explains(ledger[p], payments[p])
    BY DEF LedgerExplainsBalances, Explains
  <2>3. ledger[p] \in Seq(LedgerEntry) /\ (p \notin DOMAIN payments => ledger[p] = <<>>)
    BY <2>1 DEF Core, TablesOK, RowsArePublished
  <2>4. CASE SameAt(p)
    BY <2>2, <2>4 DEF SameAt
  <2>5. CASE OpenedAt(p)
    <3>1. PICK row, entries : \E type \in EventTypes :
            Opening(row, type, entries) /\ WrittenAt(p, row, type, entries)
      BY <2>5 DEF OpenedAt
    <3>2. entries \in Seq(LedgerEntry)
      BY <3>1, OpeningExplained
    <3>3. ledger'[p] = entries /\ payments'[p] = row
      BY <2>3, <2>5, <3>1, <3>2 DEF WrittenAt, OpenedAt
    <3> QED
      BY <3>1, <3>3, OpeningExplained
  <2>6. CASE MovedAt(p)
    <3>1. PICK row, entries : \E type \in EventTypes :
            Move(payments[p], row, entries) /\ WrittenAt(p, row, type, entries)
      BY <2>6 DEF MovedAt
    <3>2. payments[p] \in Payment /\ MoneyFitsStatus(payments[p])
      BY <2>6, RowFacts DEF MovedAt
    <3>3. Explains(ledger[p] \o entries, row)
      BY <2>2, <2>3, <2>6, <3>1, <3>2, MoveExplained DEF MovedAt
    <3> QED
      BY <3>1, <3>3 DEF WrittenAt
  <2> QED
    BY <2>1, <2>4, <2>5, <2>6, Changes
<1> QED
  BY <1>1 DEF LedgerExplainsBalances, Explains

\* The balances of every payment are the sums of its ledger entries, however
\* requests, confirmations and expiry runs interleave: the fact on which
\* reconciliation compares the two.
THEOREM LedgerAlwaysExplains == Spec => []LedgerExplainsBalances
<1>1. Init => LedgerExplainsBalances
  BY DEF Init, StoreInit, LedgerExplainsBalances
<1>2. Core /\ LedgerExplainsBalances /\ [Next]_vars => LedgerExplainsBalances'
  BY ExplainedStep
<1> QED
  BY <1>1, <1>2, CoreInvariant, PTL DEF Spec
=============================================================================
