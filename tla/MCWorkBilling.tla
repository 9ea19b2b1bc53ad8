--------------------------- MODULE MCWorkBilling ---------------------------
(***************************************************************************)
(* Instance of WorkBilling for TLC, and SplitAllocation compared with the  *)
(* exact shares.                                                           *)
(***************************************************************************)
EXTENDS WorkBilling, TLC

CONSTANTS MaxRest,    \* the most, in units, that a bill adds to its recorded work
          MaxPayers,  \* the most payers
          MaxShare    \* the largest share

ASSUME InstanceAssumption == MaxRest \in Nat /\ MaxPayers \in Nat /\ MaxShare \in Nat

\* One payer, and two that share equally with a third whose share is nothing: an odd
\* total does not divide.
MCSplits == {<<100>>, <<50, 50, 0>>}

\* Requests, invoice ids and time entries are interchangeable.
MCSymmetry ==
  Permutations(Requests) \cup Permutations(InvoiceIds) \cup Permutations(TimeEntries)

-----------------------------------------------------------------------------
\* allocate is called for two payers or more, and refuses shares that add up to nothing.
AllShares ==
  {s \in UNION {[1 .. n -> 0 .. MaxShare] : n \in 2 .. MaxPayers} : Total(s) > 0}

\* The totals of recorded work that are divided well by any shares, whatever typed lines
\* add to them; TLC evaluates this once.
WellDivided ==
  {total \in {Subtotal(lines) : lines \in Lines} :
     \A rest \in 0 .. MaxRest, shares \in AllShares : Divided(total + rest, shares)}

\* However the shares divide a bill, nothing is lost or billed twice, and every payer is
\* billed what is fair (Divided, allocate). The bill is that of the work a request is
\* about to bill, with what else comes on it.
DivisionIsExactAndFair ==
  \A r \in Requests : req[r].op = "invoice" => Subtotal(req[r].lines) \in WellDivided

=============================================================================
