--------------------------- MODULE BillingProofs ---------------------------
(***************************************************************************)
(* Proofs about what clients are billed and pay: SplitAllocation, the      *)
(* bills of WorkBilling (with the property that its instance adds),        *)
(* Collections and DebtFollowUp. They hold for any finite set of work, any *)
(* prices, discounts and shares, and any invoices, payments, keys,         *)
(* reminders and concurrent requests.                                      *)
(***************************************************************************)
EXTENDS MCWorkBilling, Collections, DebtFollowUp, FiniteSums

-----------------------------------------------------------------------------
(* Division of a bill among its payers: SplitAllocation.                   *)

\* Rounding moves a ratio by no more than a half.
LEMMA RoundedRatioError ==
  ASSUME NEW a \in Int, NEW b \in Nat \ {0}
  PROVE  /\ RoundedRatio(a, b) \in Int
         /\ -b <= 2 * (RoundedRatio(a, b) * b - a)
         /\ 2 * (RoundedRatio(a, b) * b - a) <= b
  <1> DEFINE x == 2 * a + b
             y == 2 * b
             q == x \div y
             m == x % y
  <1>1. x \in Int /\ y \in Nat \ {0}
    OBVIOUS
  <1>2. q \in Int /\ m \in Int /\ x = y * q + m /\ 0 <= m /\ m < y
    <2> HIDE DEF x, y
    <2> QED BY <1>1
  <1> HIDE DEF q, m
  <1>3. y * q = 2 * (q * b) /\ q * b \in Int
    BY <1>2
  <1>4. -b <= 2 * (q * b - a) /\ 2 * (q * b - a) <= b
    BY <1>2, <1>3
  <1> QED BY <1>2, <1>4 DEF RoundedRatio, q

\* Nothing is rounded to nothing, and what is not negative stays so.
LEMMA Round2NotNegative ==
  ASSUME NEW bill \in Int
  PROVE  /\ Round2(bill) \in Int
         /\ bill >= 0 => Round2(bill) >= 0
         /\ Round2(0) = 0
  <1> DEFINE u == UnitsPerSatang
  <1>1. u \in Nat \ {0}
    BY UnitsAssumption
  <1> HIDE DEF u
  <1>2. (2 * bill + u) \div (2 * u) \in Int
    BY <1>1
  <1>3. ASSUME bill >= 0 PROVE (2 * bill + u) \div (2 * u) >= 0
    BY <1>1, <1>3
  <1>4. (2 * 0 + u) \div (2 * u) = 0
    BY <1>1
  <1> QED BY <1>2, <1>3, <1>4 DEF Round2, RoundedRatio, u

\* What shares, or amounts, add up to.
LEMMA TotalIs ==
  ASSUME NEW N, N = Nat \/ N = Int, NEW s \in Seq(N)
  PROVE  /\ Total(s) = SumFunctionOnSet(s, 1 .. Len(s))
         /\ Total(s) \in N
         /\ IsFiniteSet(1 .. Len(s)) /\ Cardinality(1 .. Len(s)) = Len(s)
  <1>1. Total(s) = SumFunctionOnSet(s, 1 .. Len(s))
    <2>1. DOMAIN s = 1 .. Len(s)
      OBVIOUS
    <2> QED BY <2>1 DEF Total, SumFunction
  <1>2. IsFiniteSet(1 .. Len(s)) /\ Cardinality(1 .. Len(s)) = Len(s)
    <2>1. Len(s) \in Nat
      OBVIOUS
    <2> QED BY <2>1, FS_Interval
  <1>3. SumFunctionOnSet(s, 1 .. Len(s)) \in N
    BY <1>2, SumType
  <1> QED BY <1>1, <1>2, <1>3

\* A sequence that changes at one place changes its bill by as much.
LEMMA TotalChange ==
  ASSUME NEW s \in Seq(Int), NEW t \in Seq(Int), Len(t) = Len(s), NEW n \in 1 .. Len(s),
         \A i \in (1 .. Len(s)) \ {n} : t[i] = s[i]
  PROVE  Total(t) = Total(s) + t[n] - s[n]
  <1> DEFINE S == 1 .. Len(s)
  <1>1. /\ Total(s) = SumFunctionOnSet(s, S) /\ Total(t) = SumFunctionOnSet(t, S)
        /\ IsFiniteSet(S)
    BY TotalIs
  <1>2. \A i \in S : s[i] \in Int /\ t[i] \in Int
    OBVIOUS
  <1>3. n \in S /\ \A i \in S \ {n} : t[i] = s[i]
    OBVIOUS
  <1> HIDE DEF S
  <1>4. SumFunctionOnSet(t, S) = SumFunctionOnSet(s, S) + t[n] - s[n]
    BY <1>1, <1>2, <1>3, SumChange
  <1> QED BY <1>1, <1>4

\* The payers of a split: what each is billed, and what they are billed together.
LEMMA Allocated ==
  ASSUME NEW bill \in Int, NEW shares \in Seq(Nat), Total(shares) > 0,
         NEW rounded, rounded = [i \in 1 .. Len(shares) |->
                                   RoundedRatio(bill * shares[i], Total(shares) * UnitsPerSatang)]
  PROVE  /\ Len(shares) \in 1 .. Len(shares)
         /\ rounded \in Seq(Int) /\ Len(rounded) = Len(shares)
         /\ Allocate(bill, shares) \in Seq(Int) /\ Len(Allocate(bill, shares)) = Len(shares)
         /\ \A i \in 1 .. Len(shares) :
              Allocate(bill, shares)[i] =
                IF i = Len(shares) THEN rounded[i] + Round2(bill) - Total(rounded) ELSE rounded[i]
         /\ Total(Allocate(bill, shares)) = Round2(bill)
  <1> DEFINE n == Len(shares)
             amounts == Allocate(bill, shares)
  <1>1. n \in 1 .. n
    <2>1. ASSUME n = 0 PROVE FALSE
      <3>1. 1 .. n = {}
        BY <2>1
      <3> QED BY <3>1, TotalIs, SumOfNone
    <2> QED BY <2>1
  <1>2. Total(shares) * UnitsPerSatang \in Nat \ {0}
    BY TotalIs, UnitsAssumption
  <1>3. \A i \in 1 .. n : rounded[i] \in Int
    <2>1. ASSUME NEW i \in 1 .. n PROVE bill * shares[i] \in Int
      OBVIOUS
    <2> QED BY <1>2, <2>1, RoundedRatioError
  <1>4. rounded \in Seq(Int) /\ Len(rounded) = n
    BY <1>3
  <1>5. Total(rounded) \in Int /\ Round2(bill) \in Int
    BY <1>4, TotalIs, Round2NotNegative
  <1>6. amounts = [rounded EXCEPT ![n] = rounded[n] + Round2(bill) - Total(rounded)]
    <2>1. DOMAIN shares = 1 .. n
      OBVIOUS
    <2> QED BY <2>1, Zenon DEF Allocate
  <1>7. /\ amounts \in Seq(Int) /\ Len(amounts) = n
        /\ \A i \in 1 .. n :
             amounts[i] = IF i = n THEN rounded[i] + Round2(bill) - Total(rounded) ELSE rounded[i]
    <2> HIDE DEF amounts
    <2> QED BY <1>1, <1>4, <1>5, <1>6
  <1>8. Total(amounts) = Round2(bill)
    <2> HIDE DEF amounts
    <2>1. Total(amounts) = Total(rounded) + amounts[n] - rounded[n]
      <3>1. /\ Len(amounts) = Len(rounded) /\ n \in 1 .. Len(rounded)
            /\ \A i \in (1 .. Len(rounded)) \ {n} : amounts[i] = rounded[i]
        BY <1>1, <1>4, <1>7
      <3> HIDE DEF n
      <3> QED BY <1>4, <1>7, <3>1, TotalChange
    <2>2. amounts[n] = rounded[n] + Round2(bill) - Total(rounded) /\ rounded[n] \in Int
      BY <1>1, <1>3, <1>7
    <2> QED BY <1>5, <2>1, <2>2
  <1> QED BY <1>1, <1>4, <1>7, <1>8

\* Together they are billed the whole, rounded to the satang.
LEMMA AllocatedTotal ==
  ASSUME NEW bill \in Int, NEW shares \in Seq(Nat), Total(shares) > 0
  PROVE  Allocate(bill, shares) \in Seq(Int) /\ Total(Allocate(bill, shares)) = Round2(bill)
  <1> DEFINE rounded == [i \in 1 .. Len(shares) |->
                           RoundedRatio(bill * shares[i], Total(shares) * UnitsPerSatang)]
  <1> QED BY Allocated

\* How much more an amount is than the exact share: twice that, in 1 / d of a satang.
Excess(amount, d, bill, share) == 2 * (amount * d - bill * share)

\* An excess is an integer.
LEMMA ExcessIsInt ==
  ASSUME NEW amount \in Int, NEW d \in Int, NEW bill \in Int, NEW share \in Int
  PROVE  Excess(amount, d, bill, share) \in Int
  BY DEF Excess

\* x is no farther from 0 than b.
Within(x, b) == -b <= x /\ x <= b

\* By how much an amount misses the exact share, from either side.
LEMMA TwiceErrorWithin ==
  ASSUME NEW amount \in Int, NEW bill \in Int, NEW shares \in Seq(Nat), NEW i \in 1 .. Len(shares),
         NEW d \in Int, d = Total(shares) * UnitsPerSatang, NEW b \in Int,
         Within(Excess(amount, d, bill, shares[i]), b)
  PROVE  TwiceError(amount, bill, shares, i) <= b
  <1> DEFINE x == amount * d
             y == bill * shares[i]
  <1>1. x \in Int /\ y \in Int /\ -b <= 2 * (x - y) /\ 2 * (x - y) <= b
    BY DEF Excess, Within
  <1>2. 2 * Distance(x, y) <= b
    <2> HIDE DEF x, y
    <2> QED BY <1>1 DEF Distance
  <1> QED BY <1>2 DEF TwiceError

\* The excesses of the payers come to the excess of what they are billed together.
LEMMA ExcessesAddUp ==
  ASSUME NEW S, IsFiniteSet(S), NEW r, NEW s, \A i \in S : r[i] \in Int /\ s[i] \in Int,
         NEW d \in Int, NEW bill \in Int, NEW e, \A i \in S : e[i] = Excess(r[i], d, bill, s[i])
  PROVE  /\ \A i \in S : e[i] \in Int
         /\ SumFunctionOnSet(r, S) \in Int /\ SumFunctionOnSet(s, S) \in Int
         /\ SumFunctionOnSet(e, S) = Excess(SumFunctionOnSet(r, S), d, bill, SumFunctionOnSet(s, S))
  <1> DEFINE a == 2 * d
             b == -(2 * bill)
  <1>1. a \in Int /\ b \in Int
    OBVIOUS
  <1>2. ASSUME NEW x \in Int, NEW y \in Int
        PROVE  Excess(x, d, bill, y) \in Int /\ Excess(x, d, bill, y) = a * x + b * y
    BY DEF Excess
  <1> HIDE DEF a, b
  <1>3. \A i \in S : e[i] \in Int /\ e[i] = a * r[i] + b * s[i]
    BY <1>2
  <1>4. SumFunctionOnSet(e, S) = a * SumFunctionOnSet(r, S) + b * SumFunctionOnSet(s, S)
    <2>1. \A i \in S : r[i] \in Int /\ s[i] \in Int /\ e[i] = a * r[i] + b * s[i]
      BY <1>3
    <2> QED BY <1>1, <2>1, SumCombined
  <1>5. SumFunctionOnSet(r, S) \in Int /\ SumFunctionOnSet(s, S) \in Int
    BY SumType
  <1> QED BY <1>2, <1>3, <1>4, <1>5

\* What the payers but one are billed too much, or too little, for rounded shares r of
\* the exact shares s.
LEMMA OthersExcess ==
  ASSUME NEW S, IsFiniteSet(S), NEW j \in S, NEW r, NEW s, \A i \in S : r[i] \in Int /\ s[i] \in Int,
         NEW d \in Nat, NEW bill \in Int, \A i \in S : Within(Excess(r[i], d, bill, s[i]), d)
  PROVE  \E y \in Int :
           /\ Within(y, (Cardinality(S) - 1) * d)
           /\ Excess(r[j], d, bill, s[j]) + y
                = Excess(SumFunctionOnSet(r, S), d, bill, SumFunctionOnSet(s, S))
  <1> DEFINE e == [i \in S |-> Excess(r[i], d, bill, s[i])]
             y == SumFunctionOnSet(e, S \ {j})
             n == Cardinality(S)
  <1>1. IsFiniteSet(S \ {j}) /\ Cardinality(S \ {j}) = n - 1 /\ n \in Nat
    BY FS_RemoveElement, FS_CardinalityType
  <1>2. \A i \in S : e[i] = Excess(r[i], d, bill, s[i])
    OBVIOUS
  <1>3. \A i \in S : -d <= e[i] /\ e[i] <= d
    BY <1>2 DEF Within
  <1> HIDE DEF e
  <1>4. SumFunctionOnSet(e, S) = Excess(SumFunctionOnSet(r, S), d, bill, SumFunctionOnSet(s, S))
    BY <1>2, ExcessesAddUp
  <1>5. ASSUME NEW i \in S PROVE e[i] \in Int
    <2>1. r[i] \in Int /\ s[i] \in Int /\ d \in Int /\ bill \in Int
      OBVIOUS
    <2>2. Excess(r[i], d, bill, s[i]) \in Int
      BY <2>1, ExcessIsInt, Zenon
    <2> QED BY <1>2, <2>2, Zenon
  <1>6. SumFunctionOnSet(e, S) = e[j] + y
    BY <1>5, SumRemove
  <1>7. Within(y, (n - 1) * d) /\ y \in Int
    <2>1. \A i \in S \ {j} : e[i] \in Int /\ -d <= e[i] /\ e[i] <= d
      BY <1>3, <1>5
    <2> QED BY <1>1, <2>1, SumBounded, SumType DEF Within
  <1> QED BY <1>2, <1>4, <1>6, <1>7

\* The last of n payers takes what is left of the whole bill when q was billed. The
\* rounding of the others, y, and that of the bill leave it within half a satang for
\* each payer of its share.
LEMMA LastExcess ==
  ASSUME NEW n \in Nat, NEW t \in Nat, NEW u \in Nat, NEW d \in Nat, d = t * u, NEW bill \in Int,
         NEW whole \in Int, NEW q \in Int, NEW last \in Int, NEW share \in Int, NEW y \in Int,
         Within(y, (n - 1) * d), Within(Excess(whole, u, bill, 1), u),
         Excess(last, d, bill, share) + y = Excess(q, d, bill, t),
         NEW amount, amount = last + whole - q
  PROVE  Within(Excess(amount, d, bill, share), n * d)
  <1> DEFINE k == Excess(whole, u, bill, 1)
  <1>1. k \in Int
    BY DEF Excess
  <1>2. Excess(amount, d, bill, share) = t * k - y
    BY DEF Excess
  <1> HIDE DEF k
  <1>3. -u <= k /\ k <= u /\ -((n - 1) * d) <= y /\ y <= (n - 1) * d
    BY DEF k, Within
  <1>4. t * k <= t * u /\ -(t * u) <= t * k
    BY <1>1, <1>3
  <1>5. (n - 1) * d = n * d - d
    OBVIOUS
  <1>6. t * k \in Int /\ n * d \in Int
    BY <1>1
  <1>7. -(n * d) <= t * k - y /\ t * k - y <= n * d
    BY <1>3, <1>4, <1>5, <1>6
  <1> QED BY <1>2, <1>7 DEF Within

\* The bounds on the last payer's excess, for rounded shares r of the exact shares s.
LEMMA LastPayer ==
  ASSUME NEW S, IsFiniteSet(S), NEW j \in S, NEW r, NEW s, \A i \in S : r[i] \in Int /\ s[i] \in Int,
         NEW d \in Nat, NEW bill \in Int, \A i \in S : Within(Excess(r[i], d, bill, s[i]), d),
         NEW t \in Nat, t = SumFunctionOnSet(s, S), NEW u \in Nat, d = t * u,
         NEW whole \in Int, Within(Excess(whole, u, bill, 1), u)
  PROVE  \A amount : amount = r[j] + whole - SumFunctionOnSet(r, S)
                       => Within(Excess(amount, d, bill, s[j]), Cardinality(S) * d)
  <1>1. PICK y \in Int :
          /\ Within(y, (Cardinality(S) - 1) * d)
          /\ Excess(r[j], d, bill, s[j]) + y
               = Excess(SumFunctionOnSet(r, S), d, bill, SumFunctionOnSet(s, S))
    BY OthersExcess
  <1>2. PICK n \in Nat : n = Cardinality(S)
    BY FS_CardinalityType
  <1>3. PICK q \in Int : q = SumFunctionOnSet(r, S)
    BY SumType
  <1>4. PICK last \in Int : last = r[j]
    OBVIOUS
  <1>5. PICK share \in Int : share = s[j]
    OBVIOUS
  <1>6. Within(y, (n - 1) * d) /\ Excess(last, d, bill, share) + y = Excess(q, d, bill, t)
    BY <1>1, <1>2, <1>3, <1>4, <1>5
  <1>7. ASSUME NEW amount, amount = last + whole - q
        PROVE  Within(Excess(amount, d, bill, share), n * d)
    BY <1>6, <1>7, LastExcess
  <1> QED BY <1>2, <1>3, <1>4, <1>5, <1>7

\* Whatever the bill and the shares, nothing is lost or billed twice, and every payer is
\* billed what is fair.
THEOREM SplitIsExactAndFair ==
  ASSUME NEW bill \in Int, NEW shares \in Seq(Nat), Total(shares) > 0
  PROVE  Divided(bill, shares)
  <1> DEFINE n == Len(shares)
             u == UnitsPerSatang
             t == Total(shares)
             d == t * u
             rounded == [i \in 1 .. n |-> RoundedRatio(bill * shares[i], t * u)]
             amounts == Allocate(bill, shares)
  <1>1. t = SumFunctionOnSet(shares, 1 .. n) /\ t \in Nat \ {0} /\ u \in Nat \ {0} /\ d \in Nat \ {0}
    BY TotalIs, UnitsAssumption
  <1>2. /\ n \in 1 .. n
        /\ rounded \in Seq(Int) /\ Len(rounded) = n
        /\ amounts \in Seq(Int) /\ Len(amounts) = n
        /\ \A i \in 1 .. n :
             amounts[i] = IF i = n THEN rounded[i] + Round2(bill) - Total(rounded) ELSE rounded[i]
        /\ Total(amounts) = Round2(bill)
    BY Allocated
  <1>3. \A i \in 1 .. n : shares[i] \in Int /\ bill * shares[i] \in Int
    OBVIOUS
  <1>4. \A i \in 1 .. n : rounded[i] = RoundedRatio(bill * shares[i], d)
    OBVIOUS
  <1>5. Total(rounded) = SumFunctionOnSet(rounded, 1 .. n)
    BY <1>2, TotalIs
  <1> HIDE DEF rounded, amounts, d, t
  <1>6. \A i \in 1 .. n : rounded[i] \in Int /\ Within(Excess(rounded[i], d, bill, shares[i]), d)
    BY <1>1, <1>3, <1>4, RoundedRatioError DEF Excess, Within
  <1>7. Round2(bill) \in Int /\ Within(Excess(Round2(bill), u, bill, 1), u)
    <2> DEFINE R == Round2(bill)
    <2>1. R \in Int /\ -u <= 2 * (R * u - bill) /\ 2 * (R * u - bill) <= u
      BY <1>1, RoundedRatioError DEF Round2
    <2>2. bill * 1 = bill
      OBVIOUS
    <2> HIDE DEF R
    <2> QED BY <2>1, <2>2 DEF Excess, Within, R
  <1>8. Within(Excess(amounts[n], d, bill, shares[n]), n * d)
    <2> DEFINE S == 1 .. n
    <2>1. IsFiniteSet(S) /\ Cardinality(S) = n /\ n \in S
      <3>1. n \in Nat
        OBVIOUS
      <3> HIDE DEF n
      <3> QED BY <1>2, <3>1, FS_Interval
    <2>2. \A i \in S : rounded[i] \in Int /\ shares[i] \in Int
      BY <1>3, <1>6
    <2>3. \A i \in S : Within(Excess(rounded[i], d, bill, shares[i]), d)
      BY <1>6
    <2>4. t = SumFunctionOnSet(shares, S) /\ t \in Nat /\ d \in Nat /\ u \in Nat /\ d = t * u
      BY <1>1 DEF d
    <2>5. amounts[n] = rounded[n] + Round2(bill) - SumFunctionOnSet(rounded, S)
      BY <1>2, <1>5
    <2> HIDE DEF S, n, u
    <2>6. \A amount : amount = rounded[n] + Round2(bill) - SumFunctionOnSet(rounded, S)
                        => Within(Excess(amount, d, bill, shares[n]), Cardinality(S) * d)
      BY <1>7, <2>1, <2>2, <2>3, <2>4, LastPayer
    <2> QED BY <2>1, <2>5, <2>6
  <1>9. ASSUME NEW i \in 1 .. n
        PROVE  TwiceError(amounts[i], bill, shares, i) <= (IF i = n THEN n * d ELSE d)
    <2>1. amounts[i] \in Int /\ d \in Int /\ n * d \in Int
      <3>1. amounts[i] \in Int
        BY <1>2
      <3>2. \A a \in Nat, b \in Nat : a * b \in Int
        OBVIOUS
      <3> QED BY <1>1, <3>1, <3>2
    <2>2. CASE i = n
      BY <1>8, <2>1, <2>2, TwiceErrorWithin DEF d, t
    <2>3. CASE i # n
      BY <1>2, <1>6, <2>1, <2>3, TwiceErrorWithin DEF d, t
    <2> QED BY <2>2, <2>3
  <1>10. DOMAIN shares = 1 .. n
    OBVIOUS
  <1> QED BY <1>2, <1>9, <1>10 DEF Divided, amounts, d, t
-----------------------------------------------------------------------------
(* Recorded work and its invoices: WorkBilling.                            *)

\* Work that exists has a price.
WorkIsPriced == \A w \in Work : row[w] # "new" => price[w] \in Prices

\* What createInvoice read before it writes: a discount is at most what the rows come
\* to, and is for a single payer.
DiscountsAreChecked ==
  \A r \in Requests : req[r].op = "invoice" =>
    /\ req[r] \in InvoiceReq
    /\ req[r].discount <= Subtotal(req[r].lines)
    /\ req[r].discount > 0 => Len(req[r].shares) = 1

IInv ==
  /\ TypeOK
  /\ WorkIsPriced
  /\ DiscountsAreChecked
  /\ WorkIsBilledOnce
  /\ BilledWorkIsNotWaived
  /\ PayersOweTheLines

-----------------------------------------------------------------------------
\* An invoice that does not exist has no lines.
LEMMA NoInvoiceHasNoLines == DOMAIN NoInvoice.lines = {}
  BY DEF NoInvoice

\* The lines of an invoice are rows of the tables, with their prices.
LEMMA LinesArePriced ==
  ASSUME NEW lines \in Lines
  PROVE  /\ DOMAIN lines \subseteq Work /\ IsFiniteSet(DOMAIN lines)
         /\ \A w \in DOMAIN lines : lines[w] \in Nat
         /\ Subtotal(lines) \in Nat
  <1>1. PICK work \in SUBSET Work : lines \in [work -> Prices]
    BY DEF Lines
  <1>2. DOMAIN lines = work /\ \A w \in work : lines[w] \in Nat
    BY <1>1, PricesAssumption
  <1>3. IsFiniteSet(work)
    BY FS_Subset, WorkAssumption
  <1>4. SumFunctionOnSet(lines, work) \in Nat
    BY <1>2, <1>3, SumType
  <1> QED BY <1>2, <1>3, <1>4 DEF Subtotal, SumFunction

\* Nobody owes anything for an invoice that does not exist.
LEMMA NothingIsOwed ==
  /\ Total(<<>>) = 0 /\ Subtotal(<<>>) = 0 /\ Round2(0 - 0) = 0
  /\ NoInvoice \in InvoiceRows
  <1>1. DOMAIN <<>> = {}
    OBVIOUS
  <1>2. Total(<<>>) = 0 /\ Subtotal(<<>>) = 0
    BY <1>1, SumOfNone DEF Total, Subtotal, SumFunction
  <1>3. Round2(0) = 0
    BY Round2NotNegative
  <1> QED BY <1>2, <1>3 DEF InvoiceRows

\* The total of a single amount is that amount.
LEMMA TotalOfOne == ASSUME NEW x \in Int PROVE <<x>> \in Seq(Int) /\ Total(<<x>>) = x
  <1> DEFINE s == <<x>>
  <1>1. s \in Seq(Int) /\ Len(s) = 1 /\ s[1] = x
    OBVIOUS
  <1>2. 1 .. 1 = {1} /\ {1} \ {1} = {}
    OBVIOUS
  <1> HIDE DEF s
  <1>3. Total(s) = SumFunctionOnSet(s, {1})
    BY <1>1, <1>2, TotalIs
  <1>4. IsFiniteSet({1}) /\ 1 \in {1} /\ \A i \in {1} : s[i] \in Int
    BY <1>1, FS_Singleton
  <1>5. SumFunctionOnSet(s, {1}) = s[1] + SumFunctionOnSet(s, {1} \ {1})
    BY <1>4, SumRemove
  <1>6. SumFunctionOnSet(s, {1} \ {1}) = 0
    BY <1>2, SumOfNone
  <1>7. Total(s) = x
    BY <1>1, <1>3, <1>5, <1>6
  <1> QED BY <1>1, <1>7 DEF s

\* What a request that createInvoice checked asks of the payers.
LEMMA PayersOwe ==
  ASSUME NEW q \in InvoiceReq, q.discount <= Subtotal(q.lines), q.discount > 0 => Len(q.shares) = 1
  PROVE  /\ Amounts(q) \in Seq(Int)
         /\ Total(Amounts(q)) = Round2(Subtotal(q.lines) - q.discount)
         /\ Total(Amounts(q)) >= 0
  <1> DEFINE x == Subtotal(q.lines)
  <1>1. x \in Nat /\ q.discount \in Nat /\ q.shares \in Splits /\ q.shares \in Seq(Nat)
    BY LinesArePriced, PricesAssumption DEF InvoiceReq
  <1>2. x - q.discount \in Nat
    BY <1>1
  <1>3. Round2(x - q.discount) \in Int /\ Round2(x - q.discount) >= 0
    BY <1>2, Round2NotNegative
  <1> HIDE DEF x
  <1>4. CASE Len(q.shares) = 1
    <2>1. Amounts(q) = <<Round2(x - q.discount)>>
      BY <1>4 DEF Amounts, x
    <2> QED BY <1>3, <2>1, TotalOfOne DEF x
  <1>5. CASE Len(q.shares) # 1
    <2>1. Total(q.shares) > 0 /\ x - q.discount = x
      BY <1>1, <1>5, PricesAssumption
    <2>2. Amounts(q) = Allocate(x, q.shares)
      BY <1>5 DEF Amounts, x
    <2>3. Allocate(x, q.shares) \in Seq(Int) /\ Total(Allocate(x, q.shares)) = Round2(x)
      BY <1>1, <2>1, AllocatedTotal
    <2> QED BY <1>3, <2>1, <2>2, <2>3 DEF x
  <1> QED BY <1>4, <1>5

\* The initial state satisfies the invariant.
LEMMA InitIInv == Init => IInv
  <1> SUFFICES ASSUME Init PROVE IInv
    OBVIOUS
  <1>1. TypeOK
    <2>1. \A i \in InvoiceIds : invoice[i] = NoInvoice /\ invoice[i].amounts = <<>>
      BY DEF Init, NoInvoice
    <2>2. \A i \in InvoiceIds : Total(invoice[i].amounts) >= 0
      BY <2>1, NothingIsOwed
    <2>3. invoice \in [InvoiceIds -> InvoiceRows]
      BY NothingIsOwed DEF Init
    <2> QED BY <2>2, <2>3 DEF Init, TypeOK
  <1>2. WorkIsPriced /\ DiscountsAreChecked
    BY DEF Init, WorkIsPriced, DiscountsAreChecked, Idle
  <1>3. WorkIsBilledOnce
    BY NoInvoiceHasNoLines, WorkAssumption DEF Init, WorkIsBilledOnce
  <1>4. BilledWorkIsNotWaived
    BY DEF Init, BilledWorkIsNotWaived
  <1>5. PayersOweTheLines
    <2>1. \A i \in InvoiceIds : /\ invoice[i].amounts = <<>> /\ invoice[i].lines = <<>>
                               /\ invoice[i].discount = 0
      BY DEF Init, NoInvoice
    <2> QED BY <2>1, NothingIsOwed DEF PayersOweTheLines
  <1> QED BY <1>1, <1>2, <1>3, <1>4, <1>5 DEF IInv

\* A step that writes neither the links nor the invoices bills nothing.
LEMMA NothingIsBilled ==
  ASSUME WorkIsBilledOnce, UNCHANGED <<invoiceOf, invoice>>
  PROVE  WorkIsBilledOnce'
  BY DEF WorkIsBilledOnce

\* The transaction of createInvoice links exactly the rows it charges for, all of
\* which were unbilled, to an invoice that nothing was linked to.
LEMMA CommitLinksItsLines ==
  ASSUME IInv, NEW r \in Requests, NEW i \in InvoiceIds, CommitInvoice(r, i)
  PROVE  /\ DOMAIN req[r].lines \subseteq Work
         /\ \A w \in DOMAIN req[r].lines : Unbilled(w)
         /\ \A w \in Work : invoiceOf[w] # i
         /\ \A w \in Work : invoiceOf'[w] = IF w \in DOMAIN req[r].lines THEN i ELSE invoiceOf[w]
         /\ invoice'[i].lines = req[r].lines
         /\ \A j \in InvoiceIds \ {i} : invoice'[j] = invoice[j]
  <1>1. DOMAIN req[r].lines \subseteq Work
    <2>1. req[r].lines \in Lines
      BY DEF IInv, DiscountsAreChecked, CommitInvoice, InvoiceReq
    <2> QED BY <2>1, LinesArePriced
  <1>2. \A w \in DOMAIN req[r].lines : Unbilled(w)
    BY DEF CommitInvoice, InvoiceGuard
  <1>3. \A w \in Work : invoiceOf[w] # i
    BY NoInvoiceHasNoLines DEF IInv, WorkIsBilledOnce, CommitInvoice
  <1>4. \A w \in Work : invoiceOf'[w] = IF w \in DOMAIN req[r].lines THEN i ELSE invoiceOf[w]
    BY DEF CommitInvoice
  <1>5. /\ invoice'[i].lines = req[r].lines
        /\ \A j \in InvoiceIds \ {i} : invoice'[j] = invoice[j]
    <2> DEFINE new == [lines |-> req[r].lines, discount |-> req[r].discount, amounts |-> Amounts(req[r])]
    <2>1. invoice' = [invoice EXCEPT ![i] = new]
      BY DEF CommitInvoice
    <2>2. invoice = [j \in InvoiceIds |-> invoice[j]]
      BY DEF IInv, TypeOK
    <2>3. new.lines = req[r].lines
      OBVIOUS
    <2> HIDE DEF new
    <2> QED BY <2>1, <2>2, <2>3
  <1> QED BY <1>1, <1>2, <1>3, <1>4, <1>5

\* The statements that the handlers of one row make about it.
RowStep(w) ==
  \/ \E x \in Prices : \E b \in BOOLEAN : CreateTimeEntry(w, x, b)
  \/ \E x \in Prices : CreateExpense(w, x) \/ UpdateTimeEntry(w, x)
  \/ DecideExpense(w)
  \/ DeleteTimeEntry(w)
  \/ WriteOff(w)
  \/ UndoWriteOff(w)

\* A handler of one row writes that row, with a price of the list.
LEMMA RowStepType ==
  ASSUME IInv, NEW v \in Work, RowStep(v)
  PROVE  /\ UNCHANGED <<invoiceOf, invoice, req>>
         /\ row' \in [Work -> {"new", "live", "deleted"}]
         /\ price' \in [Work -> Prices \cup {0}]
         /\ billable' \in SUBSET Work /\ approved' \in SUBSET Expenses /\ writtenOff' \in SUBSET Work
         /\ WorkIsPriced'
  <1> DEFINE Goal ==
        /\ UNCHANGED <<invoiceOf, invoice, req>>
        /\ row' \in [Work -> {"new", "live", "deleted"}]
        /\ price' \in [Work -> Prices \cup {0}]
        /\ billable' \in SUBSET Work /\ approved' \in SUBSET Expenses /\ writtenOff' \in SUBSET Work
        /\ WorkIsPriced'
  <1> USE DEF IInv, TypeOK, WorkIsPriced
  <1>1. ASSUME NEW x \in Prices, NEW b \in BOOLEAN, CreateTimeEntry(v, x, b) PROVE Goal
    BY <1>1 DEF CreateTimeEntry
  <1>2. ASSUME NEW x \in Prices, CreateExpense(v, x) PROVE Goal
    BY <1>2 DEF CreateExpense
  <1>3. ASSUME NEW x \in Prices, UpdateTimeEntry(v, x) PROVE Goal
    BY <1>3 DEF UpdateTimeEntry
  <1>4. CASE DecideExpense(v)
    BY <1>4 DEF DecideExpense
  <1>5. CASE DeleteTimeEntry(v)
    BY <1>5 DEF DeleteTimeEntry, Editable
  <1>6. CASE WriteOff(v) \/ UndoWriteOff(v)
    BY <1>6 DEF WriteOff, UndoWriteOff
  <1> QED BY <1>1, <1>2, <1>3, <1>4, <1>5, <1>6 DEF RowStep

\* A request that is answered, or that read for setExpenseBillable, bills nothing; one
\* that read for createInvoice has checked its discount.
LEMMA RequestType ==
  ASSUME IInv, NEW r \in Requests, NEW q, req' = [req EXCEPT ![r] = q],
         \/ q = Idle
         \/ q \in BillableReq
         \/ /\ q \in InvoiceReq /\ q.discount <= Subtotal(q.lines)
            /\ q.discount > 0 => Len(q.shares) = 1
  PROVE  /\ req' \in [Requests -> {Idle} \cup BillableReq \cup InvoiceReq]
         /\ DiscountsAreChecked'
  <1>1. req' \in [Requests -> {Idle} \cup BillableReq \cup InvoiceReq]
    BY DEF IInv, TypeOK
  <1>2. ASSUME NEW s \in Requests, req'[s].op = "invoice"
        PROVE  /\ req'[s] \in InvoiceReq
               /\ req'[s].discount <= Subtotal(req'[s].lines)
               /\ req'[s].discount > 0 => Len(req'[s].shares) = 1
    <2>1. CASE s = r
      <3>1. req'[s] = q
        BY <2>1 DEF IInv, TypeOK
      <3>2. q # Idle /\ q \notin BillableReq
        BY <1>2, <3>1 DEF Idle, BillableReq
      <3> QED BY <3>1, <3>2
    <2>2. CASE s # r
      <3>1. req'[s] = req[s]
        BY <2>2 DEF IInv, TypeOK
      <3> QED BY <1>2, <3>1 DEF IInv, DiscountsAreChecked
    <2> QED BY <2>1, <2>2
  <1> QED BY <1>1, <1>2 DEF DiscountsAreChecked

\* What the transaction of createInvoice writes, and that its payers owe what its rows
\* come to.
LEMMA CommitOwes ==
  ASSUME IInv, NEW r \in Requests, NEW i \in InvoiceIds, CommitInvoice(r, i)
  PROVE  /\ invoice' \in [InvoiceIds -> InvoiceRows]
         /\ PayersOweTheLines'
         /\ \A j \in InvoiceIds : Total(invoice'[j].amounts) >= 0
  <1> DEFINE q == req[r]
             new == [lines |-> q.lines, discount |-> q.discount, amounts |-> Amounts(q)]
  <1>1. q \in InvoiceReq /\ q.discount <= Subtotal(q.lines) /\ (q.discount > 0 => Len(q.shares) = 1)
    BY DEF CommitInvoice, IInv, DiscountsAreChecked
  <1>2. /\ Amounts(q) \in Seq(Int)
        /\ Total(Amounts(q)) = Round2(Subtotal(q.lines) - q.discount)
        /\ Total(Amounts(q)) >= 0
    BY <1>1, PayersOwe
  <1>3. /\ new \in InvoiceRows
        /\ Total(new.amounts) = Round2(Subtotal(new.lines) - new.discount)
        /\ Total(new.amounts) >= 0
    BY <1>1, <1>2 DEF InvoiceRows, InvoiceReq
  <1>4. invoice' = [invoice EXCEPT ![i] = new]
    BY DEF CommitInvoice
  <1> HIDE DEF new
  <1>5. /\ invoice' \in [InvoiceIds -> InvoiceRows]
        /\ invoice'[i] = new /\ \A j \in InvoiceIds \ {i} : invoice'[j] = invoice[j]
    BY <1>3, <1>4 DEF IInv, TypeOK
  <1>6. ASSUME NEW j \in InvoiceIds
        PROVE  /\ Total(invoice'[j].amounts) = Round2(Subtotal(invoice'[j].lines) - invoice'[j].discount)
               /\ Total(invoice'[j].amounts) >= 0
    BY <1>3, <1>5 DEF IInv, TypeOK, PayersOweTheLines
  <1> QED BY <1>5, <1>6 DEF PayersOweTheLines

\* Every step keeps the types, the prices and what was checked, and a bill is owed in full.
LEMMA StepType ==
  IInv /\ [Next]_vars => TypeOK' /\ WorkIsPriced' /\ DiscountsAreChecked' /\ PayersOweTheLines'
  <1> SUFFICES ASSUME IInv, [Next]_vars
               PROVE  TypeOK' /\ WorkIsPriced' /\ DiscountsAreChecked' /\ PayersOweTheLines'
    OBVIOUS
  <1> DEFINE Kept == TypeOK' /\ WorkIsPriced' /\ DiscountsAreChecked' /\ PayersOweTheLines'
  <1>1. ASSUME NEW w \in Work, RowStep(w) PROVE Kept
    BY <1>1, RowStepType DEF IInv, TypeOK, DiscountsAreChecked, PayersOweTheLines
  <1>2. ASSUME UNCHANGED rows, req' \in [Requests -> {Idle} \cup BillableReq \cup InvoiceReq],
               DiscountsAreChecked'
        PROVE  Kept
    BY <1>2 DEF IInv, TypeOK, WorkIsPriced, PayersOweTheLines, rows
  <1>3. ASSUME NEW r \in Requests, NEW w \in Expenses, NEW b \in BOOLEAN, ReadForBillable(r, w, b) PROVE Kept
    <2> DEFINE q == [op |-> "billable", w |-> w, billable |-> b]
    <2>1. req' = [req EXCEPT ![r] = q] /\ q \in BillableReq /\ UNCHANGED rows
      BY <1>3 DEF ReadForBillable, BillableReq
    <2> HIDE DEF q
    <2> QED BY <1>2, <2>1, RequestType
  <1>4. ASSUME NEW r \in Requests, CommitBillable(r) PROVE Kept
    <2>1. /\ req' \in [Requests -> {Idle} \cup BillableReq \cup InvoiceReq]
          /\ DiscountsAreChecked'
      BY <1>4, RequestType DEF CommitBillable
    <2>2. billable' \in SUBSET Work
      <3>1. req[r] \in BillableReq
        BY <1>4 DEF CommitBillable, IInv, TypeOK, Idle, InvoiceReq
      <3>2. req[r].w \in Work
        BY <3>1 DEF BillableReq, Work
      <3> QED BY <1>4, <3>2 DEF CommitBillable, IInv, TypeOK
    <2> QED BY <1>4, <2>1, <2>2 DEF CommitBillable, IInv, TypeOK, WorkIsPriced, PayersOweTheLines
  <1>5. ASSUME NEW r \in Requests, Conflict(r) PROVE Kept
    <2>1. req' = [req EXCEPT ![r] = Idle] /\ UNCHANGED rows
      BY <1>5 DEF Conflict
    <2> QED BY <1>2, <2>1, RequestType
  <1>6. ASSUME NEW r \in Requests, NEW work \in SUBSET Work, NEW shares \in Splits,
               NEW discount \in Discounts, ReadForInvoice(r, work, shares, discount)
        PROVE  Kept
    <2> DEFINE lines == [w \in work |-> price[w]]
               q == [op |-> "invoice", lines |-> lines, shares |-> shares, discount |-> discount]
    <2>1. /\ req' = [req EXCEPT ![r] = q] /\ UNCHANGED rows
          /\ discount <= Subtotal(lines) /\ (discount > 0 => Len(shares) = 1)
      BY <1>6 DEF ReadForInvoice
    <2>2. lines \in Lines
      <3>1. work # {} /\ \A w \in work : price[w] \in Prices
        BY <1>6 DEF ReadForInvoice, Unbilled, IInv, WorkIsPriced
      <3>2. lines \in [work -> Prices]
        BY <3>1
      <3> HIDE DEF lines
      <3> QED BY <3>1, <3>2 DEF Lines
    <2> HIDE DEF lines
    <2>3. q \in InvoiceReq /\ q.discount <= Subtotal(q.lines) /\ (q.discount > 0 => Len(q.shares) = 1)
      BY <2>1, <2>2 DEF InvoiceReq
    <2> HIDE DEF q
    <2> QED BY <1>2, <2>1, <2>3, RequestType
  <1>7. ASSUME NEW r \in Requests, NEW i \in InvoiceIds, CommitInvoice(r, i) PROVE Kept
    <2>1. /\ req' \in [Requests -> {Idle} \cup BillableReq \cup InvoiceReq]
          /\ DiscountsAreChecked'
      BY <1>7, RequestType DEF CommitInvoice
    <2>2. invoiceOf' \in [Work -> InvoiceIds \cup {None}]
      BY <1>7 DEF CommitInvoice, IInv, TypeOK
    <2> QED BY <1>7, <2>1, <2>2, CommitOwes DEF CommitInvoice, IInv, TypeOK, WorkIsPriced
  <1>8. ASSUME UNCHANGED vars PROVE Kept
    <2>1. UNCHANGED rows /\ req' = req
      BY <1>8 DEF vars
    <2> QED BY <1>2, <2>1 DEF IInv, TypeOK, DiscountsAreChecked
  <1> QED BY <1>1, <1>3, <1>4, <1>5, <1>6, <1>7, <1>8 DEF Next, RowStep

\* A handler of one row leaves every billed row alone, and links none.
LEMMA RowStepSparesBilledWork ==
  ASSUME IInv, NEW v \in Work, RowStep(v)
  PROVE  /\ UNCHANGED <<invoiceOf, invoice>>
         /\ \A w \in Work : invoiceOf[w] # None =>
              price'[w] = price[w] /\ row'[w] = row[w] /\ (w \in writtenOff' <=> w \in writtenOff)
  <1> USE DEF IInv
  <1>1. UNCHANGED <<invoiceOf, invoice>>
    BY DEF RowStep, CreateTimeEntry, CreateExpense, UpdateTimeEntry, DecideExpense, DeleteTimeEntry,
           WriteOff, UndoWriteOff
  <1>2. ASSUME NEW w \in Work, invoiceOf[w] # None
        PROVE  price'[w] = price[w] /\ row'[w] = row[w] /\ (w \in writtenOff' <=> w \in writtenOff)
    <2>1. row[w] = "live"
      BY <1>2 DEF BilledWorkIsNotWaived
    <2>2. ASSUME NEW x \in Prices, NEW b \in BOOLEAN, CreateTimeEntry(v, x, b) \/ CreateExpense(v, x)
          PROVE  price'[w] = price[w] /\ row'[w] = row[w] /\ (w \in writtenOff' <=> w \in writtenOff)
      BY <2>1, <2>2 DEF CreateTimeEntry, CreateExpense, TypeOK
    <2>3. ASSUME NEW x \in Prices, UpdateTimeEntry(v, x) \/ DeleteTimeEntry(v)
          PROVE  price'[w] = price[w] /\ row'[w] = row[w] /\ (w \in writtenOff' <=> w \in writtenOff)
      BY <1>2, <2>3 DEF UpdateTimeEntry, DeleteTimeEntry, Editable, TypeOK
    <2>4. CASE DeleteTimeEntry(v)
      BY <1>2, <2>4 DEF DeleteTimeEntry, Editable, TypeOK
    <2>5. CASE DecideExpense(v)
      BY <2>5 DEF DecideExpense
    <2>6. CASE WriteOff(v) \/ UndoWriteOff(v)
      BY <1>2, <2>6 DEF WriteOff, UndoWriteOff, Unbilled
    <2> QED BY <2>2, <2>3, <2>4, <2>5, <2>6 DEF RowStep
  <1> QED BY <1>1, <1>2

\* A request that only reads, or only sets the billable flag, leaves all of that alone.
LEMMA ReadStepSparesWork ==
  ASSUME [Next]_vars, \A w \in Work : ~RowStep(w),
         \A r \in Requests : \A i \in InvoiceIds : ~CommitInvoice(r, i)
  PROVE  UNCHANGED <<row, price, writtenOff, invoiceOf, invoice>>
  BY DEF Next, RowStep, vars, rows, ReadForBillable, CommitBillable, ReadForInvoice, Conflict

\* Billed work keeps its invoice and its price, and is neither deleted nor written off.
LEMMA StepFrozen ==
  ASSUME IInv, [Next]_vars, NEW w \in Work, invoiceOf[w] # None
  PROVE  /\ invoiceOf'[w] = invoiceOf[w] /\ price'[w] = price[w] /\ row'[w] = row[w]
         /\ w \in writtenOff' <=> w \in writtenOff
  <1>1. ASSUME NEW r \in Requests, NEW i \in InvoiceIds, CommitInvoice(r, i)
        PROVE  /\ invoiceOf'[w] = invoiceOf[w] /\ price'[w] = price[w] /\ row'[w] = row[w]
               /\ w \in writtenOff' <=> w \in writtenOff
    <2>1. w \notin DOMAIN req[r].lines
      BY <1>1, CommitLinksItsLines DEF Unbilled
    <2> QED BY <1>1, <2>1, CommitLinksItsLines DEF CommitInvoice
  <1> QED BY <1>1, RowStepSparesBilledWork, ReadStepSparesWork

\* An invoice charges for exactly the rows that are linked to it.
LEMMA StepBilledOnce == IInv /\ [Next]_vars => WorkIsBilledOnce'
  <1> SUFFICES ASSUME IInv, [Next]_vars PROVE WorkIsBilledOnce'
    OBVIOUS
  <1>1. ASSUME NEW r \in Requests, NEW i \in InvoiceIds, CommitInvoice(r, i)
        PROVE  WorkIsBilledOnce'
    <2> SUFFICES ASSUME NEW j \in InvoiceIds
                 PROVE  {w \in Work : invoiceOf'[w] = j} = DOMAIN invoice'[j].lines
      BY DEF WorkIsBilledOnce
    <2> DEFINE Lined == DOMAIN req[r].lines
    <2>1. /\ Lined \subseteq Work
          /\ \A w \in Lined : invoiceOf[w] = None
          /\ \A w \in Work : invoiceOf[w] # i
          /\ \A w \in Work : invoiceOf'[w] = IF w \in Lined THEN i ELSE invoiceOf[w]
          /\ DOMAIN invoice'[i].lines = Lined
          /\ \A k \in InvoiceIds \ {i} : invoice'[k] = invoice[k]
      BY <1>1, CommitLinksItsLines DEF Unbilled
    <2> HIDE DEF Lined
    <2>2. CASE j = i
      BY <2>1, <2>2
    <2>3. CASE j # i
      <3>1. DOMAIN invoice'[j].lines = {w \in Work : invoiceOf[w] = j}
        BY <2>1, <2>3 DEF IInv, WorkIsBilledOnce
      <3>2. j # None
        BY WorkAssumption
      <3>3. \A w \in Work : invoiceOf'[w] = j <=> invoiceOf[w] = j
        BY <2>1, <2>3, <3>2
      <3> QED BY <3>1, <3>3
    <2> QED BY <2>2, <2>3
  <1> QED BY <1>1, NothingIsBilled, RowStepSparesBilledWork, ReadStepSparesWork DEF IInv

\* What is on an invoice is neither written off nor deleted.
LEMMA StepNotWaived == IInv /\ [Next]_vars => BilledWorkIsNotWaived'
  <1> SUFFICES ASSUME IInv, [Next]_vars, NEW w \in Work, invoiceOf'[w] # None
               PROVE  w \notin writtenOff' /\ row'[w] = "live"
    BY DEF BilledWorkIsNotWaived
  <1>1. CASE invoiceOf[w] # None
    BY <1>1, StepFrozen DEF IInv, BilledWorkIsNotWaived
  <1>2. CASE invoiceOf[w] = None
    <2>1. PICK r \in Requests, i \in InvoiceIds : CommitInvoice(r, i)
      BY <1>2, RowStepSparesBilledWork, ReadStepSparesWork
    <2>2. Unbilled(w)
      BY <1>2, <2>1, CommitLinksItsLines
    <2> QED BY <2>1, <2>2 DEF CommitInvoice, Unbilled
  <1> QED BY <1>1, <1>2

-----------------------------------------------------------------------------
\* The invariant is inductive.
LEMMA StepIInv == IInv /\ [Next]_vars => IInv'
  BY StepType, StepBilledOnce, StepNotWaived DEF IInv

\* Every behaviour keeps the invariant.
LEMMA Invariance == Spec => []IInv
  BY InitIInv, StepIInv, PTL DEF Spec

\* Every variable keeps its type, and no bill comes to less than nothing.
THEOREM TypeCorrect == Spec => []TypeOK
  BY Invariance, PTL DEF IInv

\* The payers of an invoice together owe what its lines come to, less the discount.
THEOREM PayersOweLines == Spec => []PayersOweTheLines
  BY Invariance, PTL DEF IInv

\* The shares of several payers are natural numbers that add up to something.
LEMMA AllSharesAre == \A shares \in AllShares : shares \in Seq(Nat) /\ Total(shares) > 0
  <1> SUFFICES ASSUME NEW shares \in AllShares PROVE shares \in Seq(Nat) /\ Total(shares) > 0
    OBVIOUS
  <1>1. PICK n \in 2 .. MaxPayers : shares \in [1 .. n -> 0 .. MaxShare]
    BY DEF AllShares
  <1>2. n \in Nat /\ \A i \in 1 .. n : shares[i] \in Nat
    BY <1>1, InstanceAssumption
  <1>3. shares \in Seq(Nat)
    BY <1>1, <1>2
  <1> QED BY <1>3 DEF AllShares

\* However the shares divide the bill of recorded work, with whatever else comes on it,
\* nothing is lost or billed twice, and every payer is billed what is fair.
THEOREM DivisionFair == Spec => []DivisionIsExactAndFair
  <1>1. ASSUME IInv PROVE DivisionIsExactAndFair
    <2> SUFFICES ASSUME NEW r \in Requests, req[r].op = "invoice"
                 PROVE  Subtotal(req[r].lines) \in WellDivided
      BY DEF DivisionIsExactAndFair
    <2>1. req[r].lines \in Lines
      BY <1>1 DEF IInv, DiscountsAreChecked, InvoiceReq
    <2>2. Subtotal(req[r].lines) \in Nat
      BY <2>1, LinesArePriced
    <2>3. ASSUME NEW rest \in 0 .. MaxRest, NEW shares \in AllShares
          PROVE  Divided(Subtotal(req[r].lines) + rest, shares)
      <3>1. Subtotal(req[r].lines) + rest \in Int
        BY <2>2
      <3> QED BY <3>1, AllSharesAre, SplitIsExactAndFair
    <2> QED BY <2>1, <2>3 DEF WellDivided
  <1> QED BY <1>1, Invariance, PTL

\* Work is billed exactly once, however many createInvoice requests read the same rows
\* before any of them wrote.
THEOREM WorkBilledOnce == Spec => []WorkIsBilledOnce
  BY Invariance, PTL DEF IInv

\* No row is both charged to the client and given up.
THEOREM BilledWorkNotWaived == Spec => []BilledWorkIsNotWaived
  BY Invariance, PTL DEF IInv

\* Once a row is on an invoice it stays on it, at the price it has there.
THEOREM BilledWorkFrozen == Spec => BilledWorkIsFrozen
  <1>1. IInv /\ [Next]_vars =>
          [\A w \in Work : invoiceOf[w] # None =>
             <<invoiceOf[w], price[w], row[w], w \in writtenOff>>'
               = <<invoiceOf[w], price[w], row[w], w \in writtenOff>>]_vars
    BY StepFrozen
  <1> QED BY <1>1, Invariance, PTL DEF Spec, BilledWorkIsFrozen
-----------------------------------------------------------------------------
(* Payments of invoices: Collections.                                      *)

\* There are finitely many payment rows, numbered as they were made; each is of
\* an invoice that was sent, and an invoice that does not exist asks for nothing.
PaymentsFitInvoices ==
  /\ IsFiniteSet(payments) /\ Cardinality(payments) <= MaxPayments
  /\ \A p \in payments : p.id \in 1 .. Cardinality(payments) /\ status[p.invoice] \in {"SENT", "PAID"}
  /\ \A i \in Invoices : status[i] = None => total[i] = 0

PaymentsIInv ==
  /\ PaymentsTypeOK
  /\ PaymentsFitInvoices
  /\ StatusFollowsPayments
  /\ KeyNamesOnePayment
  /\ RetryIsAnswered

\* What was received for an invoice is the sum over its payments.
LEMMA ReceivedIs ==
  ASSUME PaymentsTypeOK, PaymentsFitInvoices, NEW i
  PROVE  /\ IsFiniteSet(PaymentsOf(i))
         /\ \A p \in PaymentsOf(i) : p.amount \in Nat
         /\ Received(i) \in Nat
         /\ PaymentsOf(i) = {} => Received(i) = 0
  <1> DEFINE f == [p \in PaymentsOf(i) |-> p.amount]
  <1>1. IsFiniteSet(PaymentsOf(i))
    BY FS_Subset DEF PaymentsFitInvoices, PaymentsOf
  <1>2. \A p \in PaymentsOf(i) : p.amount \in Nat /\ f[p] = p.amount
    BY CollectionsAssumption DEF PaymentsTypeOK, PaymentsOf
  <1>3. Received(i) = SumFunctionOnSet(f, PaymentsOf(i))
    BY DEF Received, SumFunction
  <1> HIDE DEF f
  <1>4. SumFunctionOnSet(f, PaymentsOf(i)) \in Nat
    BY <1>1, <1>2, SumType
  <1>5. PaymentsOf(i) = {} => Received(i) = 0
    BY <1>3, SumOfNone
  <1> QED BY <1>1, <1>2, <1>3, <1>4, <1>5

\* A step that leaves the payments alone leaves what was received alone.
LEMMA ReceivedStays ==
  ASSUME UNCHANGED payments, NEW i
  PROVE  Received(i)' = Received(i)
  BY DEF Received, PaymentsOf

\* A payment that is recorded is a new row, and only its own invoice has received more.
LEMMA PaymentIsNew ==
  ASSUME PaymentsIInv, NEW i \in Invoices, NEW x \in Sums, NEW k \in Keys \cup {None},
         RecordPayment(i, x, k)
  PROVE  /\ IsFiniteSet(payments') /\ Cardinality(payments') = Cardinality(payments) + 1
         /\ Received(i)' = Received(i) + x
         /\ \A j \in Invoices \ {i} : Received(j)' = Received(j)
  <1> DEFINE new == [id |-> Cardinality(payments) + 1, invoice |-> i, amount |-> x, key |-> k]
  <1> USE DEF PaymentsIInv
  <1>1. payments' = payments \cup {new} /\ new.invoice = i /\ new.amount = x
    BY DEF RecordPayment
  <1>2. new \notin payments
    <2>1. Cardinality(payments) \in Nat
      BY FS_CardinalityType DEF PaymentsFitInvoices
    <2>2. new.id = Cardinality(payments) + 1
      OBVIOUS
    <2> HIDE DEF new
    <2> QED BY <2>1, <2>2 DEF PaymentsFitInvoices
  <1> HIDE DEF new
  <1>3. IsFiniteSet(payments') /\ Cardinality(payments') = Cardinality(payments) + 1
    BY <1>1, <1>2, FS_AddElement DEF PaymentsFitInvoices
  <1>4. Received(i)' = Received(i) + x
    <2> DEFINE T == PaymentsOf(i)
               U == T \cup {new}
               f == [p \in T |-> p.amount]
               g == [p \in U |-> p.amount]
    <2>1. IsFiniteSet(T) /\ \A p \in T : p.amount \in Nat
      BY ReceivedIs
    <2>2. new \notin T
      BY <1>2 DEF PaymentsOf
    <2>3. U = PaymentsOf(i)'
      BY <1>1 DEF PaymentsOf
    <2>4. Received(i) = SumFunctionOnSet(f, T) /\ Received(i)' = SumFunctionOnSet(g, U)
      BY <2>3 DEF Received, SumFunction
    <2>7. \A p \in U : g[p] \in Int
      BY <2>1, <1>1, CollectionsAssumption
    <2>8. SumFunctionOnSet(g, U) = SumFunctionOnSet(g, T) + g[new]
      <3> HIDE DEF g, T
      <3> QED BY <2>1, <2>2, <2>7, SumAdd
    <2>9. SumFunctionOnSet(g, T) = SumFunctionOnSet(f, T)
      <3>1. \A p \in T : g[p] = f[p]
        OBVIOUS
      <3> HIDE DEF f, g, T
      <3> QED BY <2>1, <3>1, SumSame
    <2> QED BY <1>1, <2>4, <2>8, <2>9
  <1>5. ASSUME NEW j \in Invoices \ {i} PROVE Received(j)' = Received(j)
    <2>1. PaymentsOf(j)' = PaymentsOf(j)
      BY <1>1 DEF PaymentsOf
    <2> QED BY <2>1 DEF Received
  <1> QED BY <1>3, <1>4, <1>5

\* The initial state satisfies the invariant.
LEMMA InitPaymentsIInv == PaymentsInit => PaymentsIInv
  <1> SUFFICES ASSUME PaymentsInit PROVE PaymentsIInv
    OBVIOUS
  <1> USE CollectionsAssumption DEF PaymentsInit
  <1>1. PaymentsTypeOK
    BY DEF PaymentsTypeOK
  <1>2. PaymentsFitInvoices
    BY FS_EmptySet DEF PaymentsFitInvoices
  <1>3. \A i \in Invoices : Received(i) = 0
    BY <1>1, <1>2, ReceivedIs DEF PaymentsOf
  <1>4. StatusFollowsPayments
    BY <1>3 DEF StatusFollowsPayments
  <1>5. KeyNamesOnePayment /\ RetryIsAnswered
    BY DEF KeyNamesOnePayment, RetryIsAnswered
  <1> QED BY <1>1, <1>2, <1>4, <1>5 DEF PaymentsIInv

\* A step that records no payment keeps the types and the shape of the tables.
LEMMA InvoiceStep ==
  ASSUME PaymentsIInv, UNCHANGED payments, status' \in [Invoices -> {None, "DRAFT", "SENT", "PAID"}],
         subtotal' \in [Invoices -> Int], total' \in [Invoices -> Int],
         \A i \in Invoices : total'[i] >= 0 \/ total'[i] = subtotal'[i],
         \A i \in Invoices : \/ status'[i] = status[i] /\ total'[i] = total[i]
                             \/ status[i] \in {None, "DRAFT"} /\ status'[i] \in {"DRAFT", "SENT"}
  PROVE  PaymentsTypeOK' /\ PaymentsFitInvoices' /\ StatusFollowsPayments' /\ KeyNamesOnePayment'
  <1> USE CollectionsAssumption DEF PaymentsIInv
  <1>1. PaymentsTypeOK'
    BY DEF PaymentsTypeOK
  <1>2. PaymentsFitInvoices'
    BY DEF PaymentsFitInvoices, PaymentsTypeOK
  <1>3. ASSUME NEW i \in Invoices
        PROVE  /\ Received(i)' <= total'[i] \/ PaymentsOf(i)' = {}
               /\ status'[i] = "PAID" <=> (total'[i] > 0 /\ Received(i)' = total'[i])
               /\ status'[i] = "DRAFT" => Received(i)' = 0
    <2>1. Received(i)' = Received(i) /\ PaymentsOf(i)' = PaymentsOf(i)
      BY ReceivedStays DEF PaymentsOf
    <2>2. CASE status'[i] = status[i] /\ total'[i] = total[i]
      BY <2>1, <2>2 DEF StatusFollowsPayments
    <2>3. CASE status[i] \in {None, "DRAFT"} /\ status'[i] \in {"DRAFT", "SENT"}
      <3>1. PaymentsOf(i) = {}
        BY <2>3 DEF PaymentsFitInvoices, PaymentsOf
      <3>2. Received(i)' = 0
        BY <2>1, <3>1, ReceivedIs
      <3> QED BY <2>1, <2>3, <3>1, <3>2
    <2> QED BY <2>2, <2>3
  <1>4. StatusFollowsPayments'
    BY <1>3 DEF StatusFollowsPayments
  <1>5. KeyNamesOnePayment'
    BY DEF KeyNamesOnePayment
  <1> QED BY <1>1, <1>2, <1>4, <1>5

\* A payment keeps the invariant: it fits into what is outstanding, settles the invoice
\* if it is all of that, and no payment has its key.
LEMMA PaymentStep ==
  ASSUME PaymentsIInv, NEW i \in Invoices, NEW x \in Sums, NEW k \in Keys \cup {None},
         RecordPayment(i, x, k)
  PROVE  PaymentsIInv'
  <1> DEFINE new == [id |-> Cardinality(payments) + 1, invoice |-> i, amount |-> x, key |-> k]
  <1> USE CollectionsAssumption DEF PaymentsIInv
  <1>1. /\ payments' = payments \cup {new} /\ UNCHANGED <<subtotal, total>>
        /\ status[i] = "SENT" /\ x > 0 /\ x <= Outstanding(i) /\ Recorded(i, k) = {}
        /\ Cardinality(payments) < MaxPayments
        /\ status' = IF x = Outstanding(i) THEN [status EXCEPT ![i] = "PAID"] ELSE status
        /\ Answer(i, x, k, "recorded")
    BY DEF RecordPayment, Payable
  <1>2. new.id = Cardinality(payments) + 1 /\ new.invoice = i /\ new.amount = x /\ new.key = k
    OBVIOUS
  <1> HIDE DEF new
  <1>3. /\ IsFiniteSet(payments') /\ Cardinality(payments') = Cardinality(payments) + 1
        /\ Received(i)' = Received(i) + x
        /\ \A j \in Invoices \ {i} : Received(j)' = Received(j)
    BY PaymentIsNew
  <1>4. Cardinality(payments) \in Nat
    BY FS_CardinalityType DEF PaymentsFitInvoices
  <1>5. /\ \A j \in Invoices \ {i} : status'[j] = status[j]
        /\ status'[i] = IF x = Outstanding(i) THEN "PAID" ELSE "SENT"
        /\ status' \in [Invoices -> {None, "DRAFT", "SENT", "PAID"}]
    BY <1>1 DEF PaymentsTypeOK
  <1>6. PaymentsTypeOK'
    BY <1>1, <1>2, <1>4, <1>5 DEF PaymentsTypeOK
  <1>7. PaymentsFitInvoices'
    <2>1. ASSUME NEW p \in payments'
          PROVE  p.id \in 1 .. Cardinality(payments') /\ status'[p.invoice] \in {"SENT", "PAID"}
      <3>1. CASE p = new
        BY <3>1, <1>2, <1>3, <1>4, <1>5
      <3>2. CASE p \in payments
        BY <3>2, <1>3, <1>4, <1>5 DEF PaymentsFitInvoices, PaymentsTypeOK
      <3> QED BY <3>1, <3>2, <1>1
    <2>2. \A j \in Invoices : status'[j] = None => total'[j] = 0
      BY <1>1, <1>5 DEF PaymentsFitInvoices
    <2>3. Cardinality(payments') <= MaxPayments
      BY <1>1, <1>3, <1>4
    <2> QED BY <1>3, <2>1, <2>2, <2>3 DEF PaymentsFitInvoices
  <1>8. StatusFollowsPayments'
    <2> SUFFICES ASSUME NEW j \in Invoices
                 PROVE  /\ Received(j)' <= total'[j] \/ PaymentsOf(j)' = {}
                        /\ status'[j] = "PAID" <=> (total'[j] > 0 /\ Received(j)' = total'[j])
                        /\ status'[j] = "DRAFT" => Received(j)' = 0
      BY DEF StatusFollowsPayments
    <2>1. CASE j # i
      <3>1. PaymentsOf(j)' = PaymentsOf(j)
        BY <2>1, <1>1, <1>2 DEF PaymentsOf
      <3> QED BY <2>1, <3>1, <1>1, <1>3, <1>5 DEF StatusFollowsPayments
    <2>2. CASE j = i
      <3>1. Received(i) \in Nat /\ total[i] \in Int /\ x \in Nat
        BY ReceivedIs DEF PaymentsTypeOK
      <3> QED BY <2>2, <3>1, <1>1, <1>3, <1>5 DEF Outstanding
    <2> QED BY <2>1, <2>2
  <1>9. KeyNamesOnePayment'
    <2>1. k # None => \A p \in payments : p.key # k
      BY <1>1 DEF Recorded
    <2> QED BY <2>1, <1>1, <1>2 DEF KeyNamesOnePayment
  <1>10. RetryIsAnswered'
    BY <1>1, <1>2 DEF RetryIsAnswered, Answer
  <1> QED BY <1>6, <1>7, <1>8, <1>9, <1>10

\* The invariant is inductive.
LEMMA StepPaymentsIInv == PaymentsIInv /\ [PaymentsNext]_paymentVars => PaymentsIInv'
  <1> SUFFICES ASSUME PaymentsIInv, [PaymentsNext]_paymentVars PROVE PaymentsIInv'
    OBVIOUS
  <1> USE CollectionsAssumption DEF PaymentsIInv
  <1>1. ASSUME NEW i \in Invoices, NEW x \in Subtotals, NEW d \in Sums \cup {0}, CreateInvoice(i, x, d)
        PROVE  PaymentsIInv'
    <2>1. x \in Nat /\ x - d \in Nat
      BY <1>1 DEF CreateInvoice
    <2>2. PaymentsTypeOK' /\ PaymentsFitInvoices' /\ StatusFollowsPayments' /\ KeyNamesOnePayment'
      BY <1>1, <2>1, InvoiceStep DEF CreateInvoice, PaymentsTypeOK
    <2>3. RetryIsAnswered'
      BY <1>1 DEF CreateInvoice, RetryIsAnswered
    <2> QED BY <2>2, <2>3
  <1>7. ASSUME NEW i \in Invoices, NEW x \in Shares, CreateSplitInvoice(i, x) PROVE PaymentsIInv'
    <2>1. PaymentsTypeOK' /\ PaymentsFitInvoices' /\ StatusFollowsPayments' /\ KeyNamesOnePayment'
      BY <1>7, InvoiceStep DEF CreateSplitInvoice, PaymentsTypeOK
    <2>2. RetryIsAnswered'
      BY <1>7 DEF CreateSplitInvoice, RetryIsAnswered
    <2> QED BY <2>1, <2>2
  <1>2. ASSUME NEW i \in Invoices, NEW d \in Sums \cup {0}, SetInvoiceDiscount(i, d) PROVE PaymentsIInv'
    <2>1. subtotal[i] - d \in Nat
      BY <1>2 DEF SetInvoiceDiscount, PaymentsTypeOK
    <2>2. PaymentsTypeOK' /\ PaymentsFitInvoices' /\ StatusFollowsPayments' /\ KeyNamesOnePayment'
      BY <1>2, <2>1, InvoiceStep DEF SetInvoiceDiscount, Discountable, PaymentsTypeOK
    <2>3. RetryIsAnswered'
      BY <1>2 DEF SetInvoiceDiscount, RetryIsAnswered
    <2> QED BY <2>2, <2>3
  <1>3. ASSUME NEW i \in Invoices, MarkSent(i) PROVE PaymentsIInv'
    <2>1. PaymentsTypeOK' /\ PaymentsFitInvoices' /\ StatusFollowsPayments' /\ KeyNamesOnePayment'
      BY <1>3, InvoiceStep DEF MarkSent, PaymentsTypeOK
    <2>2. RetryIsAnswered'
      BY <1>3 DEF MarkSent, RetryIsAnswered
    <2> QED BY <2>1, <2>2
  <1>4. ASSUME NEW i \in Invoices, NEW x \in Sums, NEW k \in Keys \cup {None},
               RepeatPayment(i, x, k) \/ RefusePayment(i, x, k)
        PROVE  PaymentsIInv'
    <2>1. UNCHANGED <<status, subtotal, total, payments>>
      BY <1>4 DEF RepeatPayment, RefusePayment
    <2>2. PaymentsTypeOK' /\ PaymentsFitInvoices' /\ StatusFollowsPayments' /\ KeyNamesOnePayment'
      BY <2>1, InvoiceStep DEF PaymentsTypeOK
    <2>3. RetryIsAnswered'
      BY <1>4 DEF RepeatPayment, RefusePayment, RetryIsAnswered, Answer, IsRetry, Recorded
    <2> QED BY <2>2, <2>3
  <1>5. ASSUME NEW i \in Invoices, NEW x \in Sums, NEW k \in Keys \cup {None}, RecordPayment(i, x, k)
        PROVE  PaymentsIInv'
    BY <1>5, PaymentStep
  <1>6. CASE UNCHANGED paymentVars
    <2>1. PaymentsTypeOK' /\ PaymentsFitInvoices' /\ StatusFollowsPayments' /\ KeyNamesOnePayment'
      BY <1>6, InvoiceStep DEF paymentVars, PaymentsTypeOK
    <2>2. RetryIsAnswered'
      BY <1>6 DEF paymentVars, RetryIsAnswered
    <2> QED BY <2>1, <2>2
  <1> QED BY <1>1, <1>2, <1>3, <1>4, <1>5, <1>6, <1>7 DEF PaymentsNext

\* Every behaviour keeps the invariant.
LEMMA PaymentsInvariance == PaymentsSpec => []PaymentsIInv
  BY InitPaymentsIInv, StepPaymentsIInv, PTL DEF PaymentsSpec

\* Type correctness: whatever the division of a split bill left a payer with, no discount
\* takes an invoice below nothing, and every payment is of an invoice.
THEOREM PaymentsTypeCorrect == PaymentsSpec => []PaymentsTypeOK
  BY PaymentsInvariance, PTL DEF PaymentsIInv

\* An invoice is PAID exactly when its payments add up to what it asks for, they never add
\* up to more, and neither a draft nor an invoice that asks for nothing, or less, has any.
THEOREM StatusFollows == PaymentsSpec => []StatusFollowsPayments
  BY PaymentsInvariance, PTL DEF PaymentsIInv

\* A createRequestId names one payment in the firm.
THEOREM KeysAreUnique == PaymentsSpec => []KeyNamesOnePayment
  BY PaymentsInvariance, PTL DEF PaymentsIInv

\* A request that was carried out is answered with its payment each time it is retried.
THEOREM RetriesAreAnswered == PaymentsSpec => []RetryIsAnswered
  BY PaymentsInvariance, PTL DEF PaymentsIInv

\* What a client was asked to pay does not change after the invoice was sent.
THEOREM SentTotalFrozen == PaymentsSpec => SentTotalIsFrozen
  <1>1. ASSUME PaymentsIInv, [PaymentsNext]_paymentVars, NEW i \in Invoices, status[i] \in {"SENT", "PAID"}
        PROVE  total'[i] = total[i]
    BY <1>1, CollectionsAssumption
       DEF PaymentsIInv, PaymentsTypeOK, PaymentsNext, paymentVars, CreateInvoice, CreateSplitInvoice,
           SetInvoiceDiscount, Discountable, MarkSent, RepeatPayment, RefusePayment, RecordPayment
  <1>2. PaymentsIInv /\ [PaymentsNext]_paymentVars =>
          [\A i \in Invoices : status[i] \in {"SENT", "PAID"} => total'[i] = total[i]]_paymentVars
    BY <1>1
  <1> QED BY <1>2, PaymentsInvariance, PTL DEF PaymentsSpec, SentTotalIsFrozen
-----------------------------------------------------------------------------
(* Chasing a sent invoice: DebtFollowUp.                                   *)

\* What a reminder in flight counts as delivered was delivered, at its time.
RemindersAreTold ==
  \A r \in Reminders : reminder[r].op = "remind" =>
    /\ reminder[r].now <= clock
    /\ reminder[r].sent => \E p \in pushed : p.at = reminder[r].now

\* A form shows the row or an older state of it; every update of the row moves
\* updatedAt on, so a form with the row's updatedAt shows the row's follow-up.
FormsAreOld ==
  \A o \in Owners : form[o].updatedAt <= updatedAt /\ (form[o].updatedAt = updatedAt => form[o].note = note)

ChaseIInv ==
  /\ ChaseTypeOK
  /\ RecordedReminderWasDelivered
  /\ RemindersAreTold
  /\ FormsAreOld

\* The initial state satisfies the invariant.
LEMMA InitChaseIInv == ChaseInit => ChaseIInv
  <1> SUFFICES ASSUME ChaseInit PROVE ChaseIInv
    OBVIOUS
  <1> USE ChaseAssumption DEF ChaseInit
  <1>1. ChaseTypeOK
    BY DEF ChaseTypeOK
  <1>2. RecordedReminderWasDelivered /\ RemindersAreTold /\ FormsAreOld
    BY DEF RecordedReminderWasDelivered, RemindersAreTold, FormsAreOld, NoReminder
  <1> QED BY <1>1, <1>2 DEF ChaseIInv

\* The fields of a reminder in flight.
LEMMA ReminderTypes ==
  ASSUME ChaseTypeOK, NEW r \in Reminders, reminder[r].op = "remind"
  PROVE  reminder[r] \in Reminding
  BY DEF ChaseTypeOK, NoReminder

\* A step that sends or ends nothing leaves what the reminders are about alone, while time
\* may pass.
LEMMA RemindersKeep ==
  ASSUME ChaseIInv, UNCHANGED <<lastReminderAt, reminder, pushed>>, clock' \in 0 .. MaxClock, clock <= clock'
  PROVE  RecordedReminderWasDelivered' /\ RemindersAreTold'
  <1>1. RecordedReminderWasDelivered'
    BY DEF ChaseIInv, RecordedReminderWasDelivered
  <1>2. \A r \in Reminders : reminder[r].op = "remind" => reminder[r].now \in Nat
    BY ReminderTypes DEF ChaseIInv, Reminding
  <1>3. RemindersAreTold'
    BY <1>2 DEF ChaseIInv, RemindersAreTold, ChaseTypeOK
  <1> QED BY <1>1, <1>3

\* A step that moves updatedAt on makes every form old; one that leaves the row alone
\* leaves the forms what they are.
LEMMA FormsKeep ==
  ASSUME ChaseIInv, UNCHANGED form, Update \/ UNCHANGED <<updatedAt, note>>
  PROVE  FormsAreOld' /\ updatedAt' \in 0 .. MaxUpdates
  BY ChaseAssumption DEF ChaseIInv, FormsAreOld, ChaseTypeOK, Update

\* A push that LINE delivers is a message at the time of its reminder.
LEMMA PushStep ==
  ASSUME ChaseIInv, NEW r \in Reminders, NEW c \in Contacts, NEW delivered \in BOOLEAN, Push(r, c, delivered)
  PROVE  ChaseIInv'
  <1> DEFINE q == reminder[r]
             new == [q EXCEPT !.todo = @ \ {c}, !.sent = @ \/ delivered]
  <1> USE DEF ChaseIInv
  <1>1. q \in Reminding /\ q.now <= clock
    BY ReminderTypes DEF Push, RemindersAreTold
  <1>2. new \in Reminding /\ new.op = "remind" /\ new.now = q.now /\ (new.sent => q.sent \/ delivered)
    BY <1>1 DEF Reminding
  <1>3. reminder' = [reminder EXCEPT ![r] = new]
    BY DEF Push, ChaseTypeOK
  <1>4. /\ pushed \subseteq pushed' /\ (delivered => \E p \in pushed' : p.at = q.now)
        /\ \A p \in pushed' : p \in pushed \/ (p.to = c /\ p.at = q.now)
    <2> DEFINE message == [to |-> c, at |-> q.now, by |-> r]
    <2>1. pushed' = IF delivered THEN pushed \cup {message} ELSE pushed
      BY DEF Push
    <2>2. message.to = c /\ message.at = q.now
      OBVIOUS
    <2> HIDE DEF message, q
    <2> QED BY <2>1, <2>2
  <1>5. UNCHANGED <<open, lastReminderAt, note, updatedAt, clock, crashes, form>>
    BY DEF Push
  <1> HIDE DEF new
  <1>6. ChaseTypeOK'
    <2>1. q.now \in 0 .. clock
      BY <1>1 DEF Reminding, ChaseTypeOK
    <2> QED BY <1>2, <1>3, <1>4, <1>5, <2>1 DEF ChaseTypeOK
  <1>7. RecordedReminderWasDelivered'
    BY <1>4, <1>5 DEF RecordedReminderWasDelivered
  <1>8. RemindersAreTold'
    <2> SUFFICES ASSUME NEW s \in Reminders, reminder'[s].op = "remind"
                 PROVE  /\ reminder'[s].now <= clock'
                        /\ reminder'[s].sent => \E p \in pushed' : p.at = reminder'[s].now
      BY DEF RemindersAreTold
    <2>1. CASE s = r
      <3>1. reminder'[s] = new
        BY <1>3, <2>1 DEF ChaseTypeOK
      <3>2. q.sent => \E p \in pushed : p.at = q.now
        BY DEF RemindersAreTold, Push
      <3> QED BY <1>1, <1>2, <1>4, <1>5, <3>1, <3>2
    <2>2. CASE s # r
      <3>1. reminder'[s] = reminder[s]
        BY <1>3, <2>2 DEF ChaseTypeOK
      <3> QED BY <1>4, <1>5, <3>1 DEF RemindersAreTold
    <2> QED BY <2>1, <2>2
  <1>9. FormsAreOld'
    BY <1>5, FormsKeep
  <1> QED BY <1>6, <1>7, <1>8, <1>9

\* A reminder is recorded only if it was delivered.
LEMMA EndReminderStep ==
  ASSUME ChaseIInv, NEW r \in Reminders, EndReminder(r)
  PROVE  ChaseIInv'
  <1> USE DEF ChaseIInv
  <1>1. reminder[r] \in Reminding /\ reminder[r].now <= clock
    BY ReminderTypes DEF EndReminder, RemindersAreTold
  <1>2. reminder' = [reminder EXCEPT ![r] = NoReminder] /\ UNCHANGED <<open, note, clock, crashes, form, pushed>>
    BY DEF EndReminder
  <1>3. \/ /\ lastReminderAt' = reminder[r].now /\ reminder[r].sent /\ Update
        \/ UNCHANGED <<lastReminderAt, updatedAt>>
    BY DEF EndReminder, WorthRecording
  <1>4. FormsAreOld' /\ updatedAt' \in 0 .. MaxUpdates
    BY <1>2, <1>3, FormsKeep
  <1>5. ChaseTypeOK'
    <2>1. lastReminderAt' \in 0 .. clock \cup {None}
      BY <1>1, <1>3 DEF Reminding, ChaseTypeOK
    <2> QED BY <1>2, <1>4, <2>1 DEF ChaseTypeOK
  <1>6. RecordedReminderWasDelivered'
    BY <1>2, <1>3 DEF RecordedReminderWasDelivered, RemindersAreTold, EndReminder
  <1>7. RemindersAreTold'
    BY <1>2 DEF RemindersAreTold, ChaseTypeOK, NoReminder
  <1> QED BY <1>4, <1>5, <1>6, <1>7

\* The invariant is inductive.
LEMMA StepChaseIInv == ChaseIInv /\ [ChaseNext]_chaseVars => ChaseIInv'
  <1> SUFFICES ASSUME ChaseIInv, [ChaseNext]_chaseVars PROVE ChaseIInv'
    OBVIOUS
  <1> USE ChaseAssumption DEF ChaseIInv
  <1>0. clock \in 0 .. MaxClock
    BY DEF ChaseTypeOK
  <1>1. CASE Tick
    <2>1. clock' \in 0 .. MaxClock /\ clock <= clock' /\ \A n \in 0 .. clock : n \in 0 .. clock'
      BY <1>0, <1>1 DEF Tick
    <2>2. ChaseTypeOK'
      BY <1>1, <2>1 DEF Tick, ChaseTypeOK
    <2> QED BY <1>1, <2>1, <2>2, RemindersKeep, FormsKeep DEF Tick
  <1>2. CASE Settle
    <2>1. updatedAt' \in 0 .. MaxUpdates /\ FormsAreOld'
      BY <1>2, FormsKeep DEF Settle
    <2>2. ChaseTypeOK'
      BY <1>2, <2>1 DEF Settle, ChaseTypeOK
    <2> QED BY <1>0, <1>2, <2>1, <2>2, RemindersKeep DEF Settle
  <1>3. CASE Crash
    <2>1. ChaseTypeOK'
      BY <1>3 DEF Crash, ChaseTypeOK
    <2>2. RecordedReminderWasDelivered' /\ RemindersAreTold'
      BY <1>3 DEF Crash, RecordedReminderWasDelivered, RemindersAreTold, NoReminder
    <2> QED BY <1>3, <2>1, <2>2, FormsKeep DEF Crash
  <1>4. ASSUME NEW r \in Reminders, ReadForReminder(r) PROVE ChaseIInv'
    <2> DEFINE q == [op |-> "remind", now |-> clock, todo |-> Contacts, sent |-> FALSE]
    <2>1. q \in Reminding /\ q.now = clock /\ ~q.sent
      BY <1>0 DEF Reminding
    <2>2. reminder' = [reminder EXCEPT ![r] = q]
      BY <1>4 DEF ReadForReminder
    <2>3. UNCHANGED <<open, lastReminderAt, note, updatedAt, clock, crashes, form, pushed>>
      BY <1>4 DEF ReadForReminder
    <2> HIDE DEF q
    <2>4. ChaseTypeOK'
      BY <2>1, <2>2, <2>3 DEF ChaseTypeOK
    <2>5. RecordedReminderWasDelivered' /\ RemindersAreTold'
      BY <1>0, <2>1, <2>2, <2>3 DEF RecordedReminderWasDelivered, RemindersAreTold, ChaseTypeOK
    <2> QED BY <2>3, <2>4, <2>5, FormsKeep
  <1>5. ASSUME NEW r \in Reminders, NEW c \in Contacts, NEW delivered \in BOOLEAN, Push(r, c, delivered)
        PROVE  ChaseIInv'
    BY <1>5, PushStep
  <1>6. ASSUME NEW r \in Reminders, EndReminder(r) PROVE ChaseIInv'
    BY <1>6, EndReminderStep
  <1>7. ASSUME NEW o \in Owners, LoadForm(o) PROVE ChaseIInv'
    <2>1. ChaseTypeOK'
      BY <1>7 DEF LoadForm, ChaseTypeOK
    <2>2. FormsAreOld'
      BY <1>7 DEF LoadForm, ChaseTypeOK, FormsAreOld
    <2> QED BY <1>0, <1>7, <2>1, <2>2, RemindersKeep DEF LoadForm
  <1>8. ASSUME NEW o \in Owners, NEW n \in Notes, SetFollowUp(o, n) PROVE ChaseIInv'
    <2>1. updatedAt' \in 0 .. MaxUpdates /\ FormsAreOld'
      BY <1>8, FormsKeep DEF SetFollowUp
    <2>2. note' \in FollowUps
      BY <1>8 DEF SetFollowUp, FollowUps
    <2>3. ChaseTypeOK'
      BY <1>8, <2>1, <2>2 DEF SetFollowUp, ChaseTypeOK
    <2> QED BY <1>0, <1>8, <2>1, <2>3, RemindersKeep DEF SetFollowUp
  <1>9. CASE UNCHANGED chaseVars
    <2>1. ChaseTypeOK'
      BY <1>9 DEF chaseVars, ChaseTypeOK
    <2> QED BY <1>0, <1>9, <2>1, RemindersKeep, FormsKeep DEF chaseVars
  <1> QED BY <1>1, <1>2, <1>3, <1>4, <1>5, <1>6, <1>7, <1>8, <1>9 DEF ChaseNext

\* Every behaviour keeps the invariant.
LEMMA ChaseInvariance == ChaseSpec => []ChaseIInv
  BY InitChaseIInv, StepChaseIInv, PTL DEF ChaseSpec

\* Type correctness: no reminder is recorded at a time still to come.
THEOREM ChaseTypeCorrect == ChaseSpec => []ChaseTypeOK
  BY ChaseInvariance, PTL DEF ChaseIInv

\* The invoice says that it was reminded only if somebody got that reminder.
THEOREM RecordedWasDelivered == ChaseSpec => []RecordedReminderWasDelivered
  BY ChaseInvariance, PTL DEF ChaseIInv

\* No owner's follow-up overwrites one that its form did not show.
THEOREM NoFollowUpLost == ChaseSpec => NoFollowUpIsLost
  <1>1. ASSUME ChaseIInv, [ChaseNext]_chaseVars, note' # note PROVE form[note'.by].note = note
    <2>1. PICK o \in Owners, n \in Notes : SetFollowUp(o, n)
      BY <1>1 DEF ChaseNext, chaseVars, Tick, Settle, Crash, ReadForReminder, Push, EndReminder, LoadForm
    <2>2. note'.by = o
      BY <2>1 DEF SetFollowUp
    <2> QED BY <1>1, <2>1, <2>2 DEF SetFollowUp, FormIsCurrent, ChaseIInv, FormsAreOld
  <1>2. ChaseIInv /\ [ChaseNext]_chaseVars => [note' # note => form[note'.by].note = note]_chaseVars
    BY <1>1
  <1> QED BY <1>2, ChaseInvariance, PTL DEF ChaseSpec, NoFollowUpIsLost

=============================================================================
