------------------------------- MODULE Margin -------------------------------
(***************************************************************************)
(* The margin engine (jikgugom/margin): what a product costs once it has   *)
(* arrived, the price it is sold at, and what a sale at a given price      *)
(* earns.  The code computes in Decimal and rounds in three places; here   *)
(* every amount is a whole number of a fraction of a won small enough to   *)
(* hold each intermediate result exactly, so that only those three         *)
(* roundings remain.  (Decimal carries 28 digits: a quotient that is not   *)
(* exact is off by less than any two different quotients are apart.)       *)
(***************************************************************************)
EXTENDS Integers

CONSTANTS
  D,                 \* a rate is a number of D-ths: 58 stands for 0.058 when D = 1000
  Scale,             \* an exchange rate is a number of Scale-ths of a won per price unit
  FxBuffer,          \* fx_buffer, a rate of at least 1
  IntlShipping,      \* intl_shipping_krw
  DomesticShipping,  \* domestic_shipping_krw
  ReturnReserve,     \* return_reserve_rate
  TargetMargin,      \* target_margin_rate
  ImportVat,         \* import_vat_rate
  DefaultDuty,       \* default_duty_rate
  DutyRates,         \* duty_rates: a rate for some HS codes
  PriceRounding,     \* price_rounding_krw
  ChannelFees        \* channels: [sales, payment] for each channel priced

\* A margin rate is kept with four digits, in hundredths of a percent.
Basis == 10000

\* What the sale of a product leaves of its price, in D-ths.
Fee(channel) == ChannelFees[channel].sales + ChannelFees[channel].payment
Kept(channel) == D - Fee(channel)
Denominator(channel) == Kept(channel) - TargetMargin

\* The start-up check of the configuration.
Valid ==
  /\ FxBuffer >= D
  /\ 0 <= TargetMargin /\ TargetMargin < D
  /\ PriceRounding > 0
  /\ \A channel \in DOMAIN ChannelFees : Denominator(channel) > 0

\* The amounts and rates are numbers, none of them negative; what else the
\* engine relies on is what the configuration loader checks.
ASSUME MarginAssumption ==
  /\ D \in Nat \ {0} /\ Scale \in Nat \ {0}
  /\ FxBuffer \in Nat /\ TargetMargin \in Nat /\ PriceRounding \in Nat
  /\ IntlShipping \in Nat /\ DomesticShipping \in Nat
  /\ ReturnReserve \in Nat /\ ImportVat \in Nat /\ DefaultDuty \in Nat
  /\ \A hs \in DOMAIN DutyRates : DutyRates[hs] \in Nat
  /\ \A channel \in DOMAIN ChannelFees :
       /\ ChannelFees[channel].sales \in Nat
       /\ ChannelFees[channel].payment \in Nat
  /\ Valid

\* A cost is a number of Won-ths of a won; a fee on a won is a number of
\* RateOfWon-ths for each D-th of its rate.
RateOfWon == Scale * D * D * D
Won == D * RateOfWon

\* Mutant: rounds down.
FloorDiv(a, b) == a \div b

CeilDiv(a, b) == (a + b - 1) \div b

\* ROUND_HALF_UP: ties away from zero.
HalfUp(a, b) ==
  IF a >= 0 THEN (2 * a + b) \div (2 * b) ELSE -((b - 2 * a) \div (2 * b))

Duty(hs) == IF hs \in DOMAIN DutyRates THEN DutyRates[hs] ELSE DefaultDuty

\* What one unit costs until it is at the customer's, returns included.  The
\* denominators of the parts are Scale * D, then one D more for each rate.
FinalCost(price, customs, hs, fx) ==
  LET dutiable == price * fx * FxBuffer + Scale * D * IntlShipping
      duty     == IF customs = "list" THEN 0 ELSE dutiable * Duty(hs)
      vat      == IF customs = "list" THEN 0 ELSE (D * dutiable + duty) * ImportVat
      landed   == D * D * dutiable + D * duty + vat
  IN  D * landed + Won * DomesticShipping + landed * ReturnReserve

\* What a sale at a price earns: exactly, in whole won, and as a margin rate.
Earning(sale, cost, channel) == sale * Kept(channel) * RateOfWon - cost
Profit(sale, cost, channel) == HalfUp(Earning(sale, cost, channel), Won)
MarginRate(sale, cost, channel) ==
  IF sale > 0 THEN HalfUp(Profit(sale, cost, channel) * Basis, sale) ELSE 0

\* The price whose target margin is still there after the fees, raised to the
\* price unit.
SalePrice(cost, channel) ==
  PriceRounding * CeilDiv(cost, Denominator(channel) * RateOfWon * PriceRounding)

QuoteRaises(price, currency, customs, channel) ==
  \/ customs = "prohibited"
  \/ currency # "USD"
  \/ price <= 0
  \/ channel \notin DOMAIN ChannelFees

Quote(price, customs, hs, channel, fx) ==
  LET cost == FinalCost(price, customs, hs, fx)
      sale == SalePrice(cost, channel)
  IN  [sale |-> sale, profit |-> Profit(sale, cost, channel),
       margin |-> MarginRate(sale, cost, channel)]

ProfitAt(sale, price, customs, hs, channel, fx) ==
  LET cost == FinalCost(price, customs, hs, fx)
  IN  [profit |-> Profit(sale, cost, channel), margin |-> MarginRate(sale, cost, channel)]

-----------------------------------------------------------------------------
\* A sale at this price earns the target margin at least.
MeetsTarget(sale, cost, channel) ==
  Earning(sale, cost, channel) >= TargetMargin * sale * RateOfWon

\* The price meets the target and no price one unit lower does: the rounding
\* of the code neither eats the margin nor adds a step.
LeastPrice(sale, cost, channel) ==
  /\ sale % PriceRounding = 0
  /\ MeetsTarget(sale, cost, channel)
  /\ ~MeetsTarget(sale - PriceRounding, cost, channel)
=============================================================================
