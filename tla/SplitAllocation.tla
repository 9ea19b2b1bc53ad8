-------------------------- MODULE SplitAllocation --------------------------
(***************************************************************************)
(* How createInvoice divides a total among the customers who pay           *)
(* (BillingService.allocate). Amounts that are printed on invoices are     *)
(* whole satang. The total is not: it is a sum of hours times rate, each   *)
(* with two decimals, so it is counted in units of which UnitsPerSatang    *)
(* make a satang. The floating-point error of the code is left out.        *)
(***************************************************************************)
EXTENDS Integers, Sequences, Functions

CONSTANT UnitsPerSatang

ASSUME UnitsAssumption == UnitsPerSatang \in Nat \ {0}

Total(s) == SumFunction(s)

\* Fault: the fraction of a satang is cut off.
RoundedRatio_Cut(a, b) == a \div b

\* Math.round(a / b): the nearest integer, a half rounded up.
RoundedRatio(a, b) == (2 * a + b) \div (2 * b)

\* round2 of an amount, in satang
Round2(total) == RoundedRatio(total, UnitsPerSatang)

\* Fault: the satang that rounding loses are dropped.
Allocate_RemainderDropped(total, shares) ==
  [i \in DOMAIN shares |-> RoundedRatio(total * shares[i], Total(shares) * UnitsPerSatang)]

\* Every payer gets the rounded share, and what the rounding loses or gains goes
\* to the last one.
Allocate(total, shares) ==
  LET rounded == [i \in DOMAIN shares |->
                    RoundedRatio(total * shares[i], Total(shares) * UnitsPerSatang)]
  IN  [rounded EXCEPT ![Len(shares)] = @ + Round2(total) - Total(rounded)]

-----------------------------------------------------------------------------
Distance(a, b) == IF a > b THEN a - b ELSE b - a

\* How far an amount is from the exact share, times 2 * Total(shares) * UnitsPerSatang.
TwiceError(amount, total, shares, i) ==
  2 * Distance(amount * (Total(shares) * UnitsPerSatang), total * shares[i])

\* The amounts of a split add up to the total rounded to satang. Every payer but the
\* last is billed within half a satang of the exact share, the last one, who absorbs
\* what the others' rounding left, within half a satang for each payer.
Divided(total, shares) ==
  LET amounts == Allocate(total, shares)
      bound   == Total(shares) * UnitsPerSatang
  IN  /\ Total(amounts) = Round2(total)
      /\ \A i \in DOMAIN shares :
           TwiceError(amounts[i], total, shares, i)
             <= (IF i = Len(shares) THEN Len(shares) * bound ELSE bound)

=============================================================================
