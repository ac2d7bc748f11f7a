------------------------------ MODULE LineMoney ------------------------------
(***************************************************************************)
(* The money of the lines of a document: what the database stores, and     *)
(* what Factus is told, which it adds up by itself.  Prices and discounts  *)
(* are in cents, rates in percent and quantities in thousandths, so that   *)
(* the value of a line is in thousandths of a cent and a tax in hundredths *)
(* of those.  The columns keep two digits of a quantity: the third stands  *)
(* for all that a request may have and they drop.                          *)
(*   Totals are computed in decimals, payloads in binary floats.  Below    *)
(* ten million pesos a float is nearer to its amount than the amount is to *)
(* half a cent, unless it is half a cent: only then may it be rounded      *)
(* either way (42.50 at 19 % is 8.075, and declared as 8.07), and this is  *)
(* a choice here, made when the line is written.                           *)
(***************************************************************************)
EXTENDS Integers, Functions, Sequences

CONSTANTS Quantities, Prices, Discounts, TaxRates,  \* what a line may have
          MaxLines                                  \* bound: lines

ASSUME LinesAssumption ==
  /\ MaxLines \in Nat /\ Quantities \subseteq Nat \ {0}
  /\ Prices \subseteq Nat /\ Discounts \subseteq Nat /\ TaxRates \subseteq Nat

VARIABLE lines   \* of the document that is being written

Cent == 1000      \* in the unit of the values of lines
TaxCent == 100000 \* in that of their taxes

Items == [quantity : Quantities, price : Prices, discount : Discounts, rate : TaxRates]

Magnitude(n) == IF n < 0 THEN -n ELSE n

\* A numeric column: to the nearest unit, half upwards.
HalfUp(n, unit) == (n + unit \div 2) \div unit

\* round2, of a float that is not exact: half a unit goes either way.
Nearest(n, unit) ==
  {m \in {n \div unit, n \div unit + 1} : 2 * Magnitude(m * unit - n) <= unit}

-----------------------------------------------------------------------------
\* calculateLineTotal, of invoices, services and notes.
Gross(line) == line.quantity * line.price
Discount(line) == Cent * line.discount
AtLeastNothing(n) == IF n < 0 THEN 0 ELSE n
LineSubtotal(line) == AtLeastNothing(Gross(line) - Discount(line))
LineTax(line) == LineSubtotal(line) * line.rate

\* computeItems, of quotes and purchase orders.
QuotedSubtotal(line) == Gross(line) - Discount(line)
QuotedTax(line) == QuotedSubtotal(line) * line.rate

SumOf(amount(_), basket) ==
  SumFunction([k \in DOMAIN basket |-> amount(basket[k])])

\* computeInvoiceTotals and the column that keeps its total; the totals of the
\* lines of a quote are added up as floats.
StoredTotal(basket) ==
  HalfUp(100 * SumOf(LineSubtotal, basket) + SumOf(LineTax, basket), TaxCent)
QuotedTotals(basket) ==
  Nearest(100 * SumOf(QuotedSubtotal, basket) + SumOf(QuotedTax, basket), TaxCent)

\* The payloads are made from the columns of the line.
KeptQuantity(line) == 10 * HalfUp(line.quantity, 10)
KeptGross(line) == KeptQuantity(line) * line.price

\* buildItemsPayload: the tax is that of the net amount; also, of the gross.
GrossBase(line) == KeptGross(line)
TaxBase(line) == AtLeastNothing(KeptGross(line) - Discount(line))
DeclaredTaxes(line) == Nearest(TaxBase(line) * line.rate, TaxCent)

\* discountRateFor: the discount of a line of a note, in hundredths of a
\* percent of its gross value.
DiscountRates(line) ==
  IF KeptGross(line) = 0 THEN {0}
  ELSE IF Discount(line) >= KeptGross(line) THEN {10000}
  ELSE Nearest(10000 * Discount(line), KeptGross(line))

\* What Factus makes of a line of a bill.
DeclaredLine(line) == KeptGross(line) - Discount(line) + Cent * line.tax

-----------------------------------------------------------------------------
\* A line with what its tax and its discount are declared as.
Line(item, tax, discountRate) ==
  [quantity |-> item.quantity, price |-> item.price, discount |-> item.discount,
   rate |-> item.rate, tax |-> tax, discountRate |-> discountRate]

LinesInit == lines = <<>>

AddLine(item, tax, discountRate) ==
  /\ Len(lines) < MaxLines
  /\ lines' = Append(lines, Line(item, tax, discountRate))

LinesNext ==
  \E item \in Items :
    \E tax \in DeclaredTaxes(item), discountRate \in DiscountRates(item) :
      AddLine(item, tax, discountRate)
LinesSpec == LinesInit /\ [][LinesNext]_lines

-----------------------------------------------------------------------------
Lines ==
  {line \in [quantity : Quantities, price : Prices, discount : Discounts,
             rate : TaxRates, tax : Int, discountRate : Int] :
     line.tax \in DeclaredTaxes(line) /\ line.discountRate \in DiscountRates(line)}

\* Type of the lines.
LinesTypeOK == lines \in Seq(Lines)

Discountable(line) == Discount(line) <= Gross(line)

\* A line that the columns keep as it was asked for.
InScale(line) == KeptQuantity(line) = line.quantity

\* When no discount is above the value of its line, an invoice costs what
\* was quoted, to the cent.  If its quantities have two digits, moreover, what
\* Factus adds up is the stored total, which goes as the payment, but for
\* half a cent per line and half a cent; and the rate that a note declares
\* is off by half a hundredth of a percent at most (buildItemsPayload,
\* discountRateFor and the four computations of a line).
DeclaredAsStored ==
  (\A k \in DOMAIN lines : Discountable(lines[k])) =>
    /\ \A total \in QuotedTotals(lines) : Magnitude(total - StoredTotal(lines)) <= 1
    /\ (\A k \in DOMAIN lines : InScale(lines[k])) =>
         /\ 2 * Magnitude(SumOf(DeclaredLine, lines) - Cent * StoredTotal(lines))
              <= Cent * (Len(lines) + 1)
         /\ \A k \in DOMAIN lines :
              2 * Magnitude(lines[k].discountRate * KeptGross(lines[k])
                              - 10000 * Discount(lines[k]))
                <= KeptGross(lines[k])
=============================================================================
