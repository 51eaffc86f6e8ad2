---------------------------- MODULE MarginProofs ----------------------------
(***************************************************************************)
(* What the margin engine computes, for every configuration the loader     *)
(* accepts and every amount: the price is the least that earns the target, *)
(* it grows with what the product costs, and the roundings keep their      *)
(* promises.  The SMT solver decides products of few unknowns only, so the *)
(* amounts are taken apart by lemmas on plain numbers.                     *)
(***************************************************************************)
EXTENDS Margin, TLAPS

LEMMA TimesMonotone ==
  ASSUME NEW a \in Int, NEW b \in Int, NEW c \in Nat, a <= b
  PROVE  a * c <= b * c
OBVIOUS

LEMMA TimesNat == ASSUME NEW a \in Nat, NEW b \in Nat PROVE a * b \in Nat
OBVIOUS

LEMMA TimesPositive ==
  ASSUME NEW a \in Nat \ {0}, NEW b \in Nat \ {0}
  PROVE  a * b \in Nat \ {0}
OBVIOUS

\* What a price times a rate keeps of the rate: the products below are linear
\* in one of their factors.
LEMMA TimesCancel ==
  ASSUME NEW a \in Int, NEW b \in Int, NEW c \in Nat \ {0}, a * c < b * c
  PROVE  a < b
OBVIOUS

LEMMA CeilDivLeast ==
  ASSUME NEW a \in Nat, NEW b \in Nat \ {0}
  PROVE  /\ CeilDiv(a, b) \in Nat
         /\ CeilDiv(a, b) * b >= a
         /\ (CeilDiv(a, b) - 1) * b < a
BY DEF CeilDiv

\* Half a unit is the most that rounding adds or takes.
LEMMA HalfUpBounds ==
  ASSUME NEW a \in Int, NEW b \in Nat \ {0}
  PROVE  /\ HalfUp(a, b) \in Int
         /\ 2 * b * HalfUp(a, b) >= 2 * a - b
         /\ 2 * b * HalfUp(a, b) <= 2 * a + b
BY DEF HalfUp

LEMMA HalfUpPositive ==
  ASSUME NEW a \in Int, NEW b \in Nat \ {0}, HalfUp(a, b) > 0
  PROVE  a > 0
BY DEF HalfUp
-----------------------------------------------------------------------------
LEMMA UnitFacts ==
  /\ D \in Nat \ {0} /\ Scale \in Nat \ {0} /\ PriceRounding \in Nat \ {0}
  /\ RateOfWon \in Nat \ {0} /\ Won \in Nat \ {0} /\ Won = D * RateOfWon
<1>1. D \in Nat \ {0} /\ Scale \in Nat \ {0} /\ PriceRounding \in Nat \ {0}
  BY MarginAssumption DEF Valid
<1>2. Scale * D \in Nat \ {0}
  BY <1>1, TimesPositive
<1>3. Scale * D * D \in Nat \ {0}
  BY <1>1, <1>2, TimesPositive
<1>4. RateOfWon \in Nat \ {0}
  BY <1>1, <1>3, TimesPositive DEF RateOfWon
<1>5. Won \in Nat \ {0}
  BY <1>1, <1>4, TimesPositive DEF Won
<1>6. QED
  BY <1>1, <1>4, <1>5 DEF Won

LEMMA ChannelFacts ==
  ASSUME NEW channel \in DOMAIN ChannelFees
  PROVE  /\ Kept(channel) \in Nat \ {0}
         /\ Denominator(channel) \in Nat \ {0}
         /\ Kept(channel) = Denominator(channel) + TargetMargin
         /\ TargetMargin \in Nat
<1>1. Fee(channel) \in Nat /\ D \in Nat /\ TargetMargin \in Nat
  BY MarginAssumption DEF Fee
<1>2. Denominator(channel) > 0
  BY MarginAssumption DEF Valid
<1>3. QED
  BY <1>1, <1>2 DEF Denominator, Kept

\* What the divisor of a price is, in the unit of the costs.
Divisor(channel) == Denominator(channel) * RateOfWon * PriceRounding

LEMMA DivisorPositive ==
  ASSUME NEW channel \in DOMAIN ChannelFees
  PROVE  /\ Divisor(channel) \in Nat \ {0}
         /\ Denominator(channel) * RateOfWon \in Nat \ {0}
<1>1. Denominator(channel) * RateOfWon \in Nat \ {0}
  BY ChannelFacts, UnitFacts, TimesPositive
<1>2. QED
  BY <1>1, UnitFacts, TimesPositive DEF Divisor

LEMMA SalePriceType ==
  ASSUME NEW cost \in Nat, NEW channel \in DOMAIN ChannelFees
  PROVE  SalePrice(cost, channel) \in Nat
<1>1. CeilDiv(cost, Divisor(channel)) \in Nat
  BY DivisorPositive, CeilDivLeast
<1>2. QED
  BY <1>1, UnitFacts, TimesNat DEF SalePrice, Divisor

\* A price meets the target exactly if what the fees and the target leave of
\* it pays the cost.
LEMMA MeetsTargetIff ==
  ASSUME NEW sale \in Int, NEW cost \in Nat, NEW channel \in DOMAIN ChannelFees
  PROVE  MeetsTarget(sale, cost, channel) <=> sale * (Denominator(channel) * RateOfWon) >= cost
<1> DEFINE R == RateOfWon
           K == Denominator(channel)
           T == TargetMargin
<1>1. R \in Nat /\ K \in Nat /\ T \in Nat /\ Kept(channel) = K + T
  BY UnitFacts, ChannelFacts
<1>2. sale * (K + T) * R = sale * (K * R) + T * sale * R
  <2> HIDE DEF R, K, T
  <2> QED BY <1>1
<1>3. MeetsTarget(sale, cost, channel) <=> sale * (K + T) * R - cost >= T * sale * R
  BY <1>1 DEF MeetsTarget, Earning
<1>4. sale * (K * R) \in Int /\ T * sale * R \in Int
  <2> HIDE DEF R, K, T
  <2> QED BY <1>1
<1>5. QED
  <2> DEFINE x == sale * (K * R)
             y == T * sale * R
  <2>1. sale * (K + T) * R = x + y /\ x \in Int /\ y \in Int
    BY <1>2, <1>4
  <2>2. MeetsTarget(sale, cost, channel) <=> (x + y) - cost >= y
    BY <1>3, <2>1
  <2> HIDE DEF x, y
  <2>3. MeetsTarget(sale, cost, channel) <=> x >= cost
    BY <2>1, <2>2
  <2>4. QED
    BY <2>3 DEF x

\* The price of the engine is the least in price units that earns the target
\* margin, whatever the cost and the channel (margin/engine.py: quote).
THEOREM SalePriceIsLeast ==
  ASSUME NEW cost \in Nat, NEW channel \in DOMAIN ChannelFees
  PROVE  LeastPrice(SalePrice(cost, channel), cost, channel)
<1> DEFINE P == PriceRounding
           KR == Denominator(channel) * RateOfWon
           q == CeilDiv(cost, KR * P)
<1>1. P \in Nat \ {0} /\ KR \in Nat \ {0} /\ KR * P \in Nat \ {0}
  BY UnitFacts, DivisorPositive DEF Divisor
<1>2. q \in Nat /\ q * (KR * P) >= cost /\ (q - 1) * (KR * P) < cost
  BY <1>1, CeilDivLeast
<1>3. SalePrice(cost, channel) = P * q
  BY DEF SalePrice
<1>4. P * q \in Nat /\ (P * q) % P = 0
  <2> HIDE DEF P, q
  <2> QED BY <1>1, <1>2
<1>5. (P * q) * KR >= cost /\ ~((P * q - P) * KR >= cost)
  <2> HIDE DEF P, q, KR
  <2>1. (P * q) * KR = q * (KR * P) /\ (P * q - P) * KR = (q - 1) * (KR * P)
    BY <1>1, <1>2
  <2>2. (q - 1) * (KR * P) \in Int
    BY <1>1, <1>2
  <2>3. QED
    BY <2>1, <2>2, <1>2
<1>6. MeetsTarget(P * q, cost, channel) /\ ~MeetsTarget(P * q - P, cost, channel)
  BY <1>1, <1>4, <1>5, MeetsTargetIff
<1>7. QED
  BY <1>3, <1>4, <1>6 DEF LeastPrice
-----------------------------------------------------------------------------
\* What a product costs grows with its price and with the rate.
LEMMA TimesGrows ==
  ASSUME NEW a \in Nat, NEW b \in Nat, NEW c \in Nat, NEW d \in Nat, a <= b, c <= d
  PROVE  a * c <= b * d
<1>1. a * c <= b * c /\ b * c <= b * d
  BY TimesMonotone
<1>2. QED
  BY <1>1

LEMMA DutyType == ASSUME NEW hs PROVE Duty(hs) \in Nat
BY MarginAssumption DEF Duty

LEMMA CostType ==
  ASSUME NEW price \in Nat, NEW customs, NEW hs, NEW fx \in Nat
  PROVE  FinalCost(price, customs, hs, fx) \in Nat
<1> DEFINE dutiable == price * fx * FxBuffer + Scale * D * IntlShipping
           duty     == IF customs = "list" THEN 0 ELSE dutiable * Duty(hs)
           vat      == IF customs = "list" THEN 0 ELSE (D * dutiable + duty) * ImportVat
           landed   == D * D * dutiable + D * duty + vat
<1>1. /\ D \in Nat /\ Scale \in Nat /\ FxBuffer \in Nat /\ IntlShipping \in Nat
      /\ ImportVat \in Nat /\ DomesticShipping \in Nat /\ ReturnReserve \in Nat /\ Won \in Nat
  BY MarginAssumption, UnitFacts
<1>2. dutiable \in Nat
  BY <1>1, TimesNat
<1>3. duty \in Nat
  <2> HIDE DEF dutiable
  <2> QED BY <1>2, DutyType, TimesNat
<1>4. vat \in Nat
  <2> HIDE DEF dutiable, duty
  <2> QED BY <1>1, <1>2, <1>3, TimesNat
<1>5. landed \in Nat
  <2> HIDE DEF dutiable, duty, vat
  <2> QED BY <1>1, <1>2, <1>3, <1>4, TimesNat
<1>6. D * landed + Won * DomesticShipping + landed * ReturnReserve \in Nat
  <2> HIDE DEF landed
  <2> QED BY <1>1, <1>5, TimesNat
<1>7. QED
  BY <1>6 DEF FinalCost

\* Without duty and tax the code for the customs plays no part.
LEMMA ListCostGrows ==
  ASSUME NEW p \in Nat, NEW q \in Nat, NEW f \in Nat, NEW g \in Nat, NEW h, NEW k,
         p <= q, f <= g
  PROVE  FinalCost(p, "list", h, f) <= FinalCost(q, "list", k, g)
<1> DEFINE Goods(a, b) == a * b * FxBuffer + Scale * D * IntlShipping
           Whole(x) == D * (D * D * x + D * 0 + 0) + Won * DomesticShipping
                         + (D * D * x + D * 0 + 0) * ReturnReserve
           x == Goods(p, f)
           y == Goods(q, g)
<1>1. /\ D \in Nat /\ Scale \in Nat /\ FxBuffer \in Nat /\ IntlShipping \in Nat
      /\ DomesticShipping \in Nat /\ ReturnReserve \in Nat /\ Won \in Nat
  BY MarginAssumption, UnitFacts
<1>2. p * f \in Nat /\ q * g \in Nat /\ p * f <= q * g
  BY TimesNat, TimesGrows
<1>3. x \in Nat /\ y \in Nat /\ x <= y
  <2>1. p * f * FxBuffer \in Nat /\ q * g * FxBuffer \in Nat /\ p * f * FxBuffer <= q * g * FxBuffer
    BY <1>1, <1>2, TimesNat, TimesGrows
  <2>2. Scale * D * IntlShipping \in Nat
    BY <1>1, TimesNat
  <2>3. QED
    BY <2>1, <2>2
<1>4. Whole(x) <= Whole(y)
  <2> HIDE DEF x, y
  <2>1. D * D \in Nat /\ Won * DomesticShipping \in Nat
    BY <1>1, TimesNat
  <2> DEFINE u == D * D * x
             v == D * D * y
  <2>2. u \in Nat /\ v \in Nat /\ u <= v
    BY <1>3, <2>1, TimesNat, TimesGrows
  <2> HIDE DEF u, v
  <2>3. /\ D * u \in Nat /\ D * v \in Nat /\ D * u <= D * v
        /\ u * ReturnReserve \in Nat /\ v * ReturnReserve \in Nat
        /\ u * ReturnReserve <= v * ReturnReserve
    BY <1>1, <2>2, TimesNat, TimesGrows
  <2>4. /\ Whole(x) = D * u + Won * DomesticShipping + u * ReturnReserve
        /\ Whole(y) = D * v + Won * DomesticShipping + v * ReturnReserve
    BY <1>1, <2>2 DEF u, v
  <2> HIDE DEF Whole
  <2>5. QED
    BY <2>1, <2>3, <2>4
<1>5. FinalCost(p, "list", h, f) = Whole(x) /\ FinalCost(q, "list", k, g) = Whole(y)
  BY DEF FinalCost
<1>6. QED
  <2> HIDE DEF Whole, x, y
  <2> QED BY <1>4, <1>5
-----------------------------------------------------------------------------
\* At one sale price, who pays less for the product earns no less, and the
\* roundings do not turn that around.
LEMMA DivGrows ==
  ASSUME NEW a \in Int, NEW b \in Int, NEW c \in Nat \ {0}, a <= b
  PROVE  a \div c \in Int /\ a \div c <= b \div c
<1> DEFINE p == a \div c
           q == b \div c
<1>1. p \in Int /\ q \in Int /\ p * c <= a /\ b < (q + 1) * c
  OBVIOUS
<1> HIDE DEF p, q
<1>2. p * c < (q + 1) * c
  <2>1. p * c \in Int /\ (q + 1) * c \in Int
    BY <1>1
  <2>2. QED
    BY <1>1, <2>1
<1>3. p < q + 1
  BY <1>1, <1>2, TimesCancel
<1>4. p \in Int /\ p <= q
  BY <1>1, <1>3
<1>5. QED
  BY <1>4 DEF p, q

LEMMA HalfUpGrows ==
  ASSUME NEW a \in Int, NEW b \in Int, NEW c \in Nat \ {0}, a <= b
  PROVE  HalfUp(a, c) <= HalfUp(b, c)
<1>1. CASE a >= 0
  <2>1. (2 * a + c) \div (2 * c) <= (2 * b + c) \div (2 * c)
    BY <1>1, DivGrows
  <2>2. QED
    BY <1>1, <2>1 DEF HalfUp
<1>2. CASE b < 0
  <2>1. (c - 2 * b) \div (2 * c) <= (c - 2 * a) \div (2 * c)
    BY <1>2, DivGrows
  <2>2. (c - 2 * b) \div (2 * c) \in Int /\ (c - 2 * a) \div (2 * c) \in Int
    BY <1>2, DivGrows
  <2>3. QED
    BY <1>2, <2>1, <2>2 DEF HalfUp
<1>3. CASE a < 0 /\ b >= 0
  <2>1. HalfUp(a, c) \in Int /\ HalfUp(b, c) \in Int /\ HalfUp(a, c) <= 0 /\ 0 <= HalfUp(b, c)
    <3>1. 0 \div (2 * c) = 0 /\ 2 * c \in Nat \ {0}
      OBVIOUS
    <3>2. 0 <= (c - 2 * a) \div (2 * c) /\ (c - 2 * a) \div (2 * c) \in Int
      BY <1>3, <3>1, DivGrows
    <3>3. 0 <= (2 * b + c) \div (2 * c) /\ (2 * b + c) \div (2 * c) \in Int
      BY <1>3, <3>1, DivGrows
    <3>4. QED
      BY <1>3, <3>2, <3>3 DEF HalfUp
  <2>2. QED
    BY <2>1
<1>4. QED
  BY <1>1, <1>2, <1>3

LEMMA EarningType ==
  ASSUME NEW sale \in Nat, NEW cost \in Nat, NEW channel \in DOMAIN ChannelFees
  PROVE  Earning(sale, cost, channel) \in Int /\ Profit(sale, cost, channel) \in Int
<1>1. sale * Kept(channel) * RateOfWon \in Nat
  BY ChannelFacts, UnitFacts, TimesNat
<1>2. Earning(sale, cost, channel) \in Int
  BY <1>1 DEF Earning
<1>3. QED
  BY <1>2, UnitFacts, HalfUpBounds DEF Profit

LEMMA RatesType ==
  ASSUME NEW sale \in Nat, NEW cost \in Nat, NEW channel \in DOMAIN ChannelFees
  PROVE  Profit(sale, cost, channel) \in Int /\ MarginRate(sale, cost, channel) \in Int
<1> DEFINE p == Profit(sale, cost, channel)
<1>1. p \in Int
  BY EarningType
<1> HIDE DEF p
<1>2. CASE sale > 0
  <2>1. p * Basis \in Int
    BY <1>1 DEF Basis
  <2>2. HalfUp(p * Basis, sale) \in Int
    BY <1>2, <2>1, HalfUpBounds
  <2>3. QED
    BY <1>1, <1>2, <2>2 DEF MarginRate, p
<1>3. CASE ~(sale > 0)
  BY <1>1, <1>3 DEF MarginRate, p
<1>4. QED
  BY <1>2, <1>3

LEMMA CheaperEarnsMore ==
  ASSUME NEW sale \in Nat, NEW cost \in Nat, NEW dear \in Nat, cost <= dear,
         NEW channel \in DOMAIN ChannelFees
  PROVE  /\ Profit(sale, dear, channel) <= Profit(sale, cost, channel)
         /\ MarginRate(sale, dear, channel) <= MarginRate(sale, cost, channel)
<1> DEFINE p == Profit(sale, dear, channel)
           q == Profit(sale, cost, channel)
<1>1. Earning(sale, dear, channel) <= Earning(sale, cost, channel)
  <2>1. sale * Kept(channel) * RateOfWon \in Nat
    BY ChannelFacts, UnitFacts, TimesNat
  <2>2. QED
    BY <2>1 DEF Earning
<1>2. p \in Int /\ q \in Int /\ p <= q
  BY <1>1, EarningType, UnitFacts, HalfUpGrows DEF Profit
<1> HIDE DEF p, q
<1>3. CASE sale > 0
  <2>1. p * Basis \in Int /\ q * Basis \in Int /\ p * Basis <= q * Basis
    BY <1>2 DEF Basis
  <2>2. HalfUp(p * Basis, sale) <= HalfUp(q * Basis, sale)
    BY <1>3, <2>1, HalfUpGrows
  <2>3. QED
    BY <1>2, <1>3, <2>2 DEF MarginRate, p, q
<1>4. CASE ~(sale > 0)
  <2>1. MarginRate(sale, dear, channel) = 0 /\ MarginRate(sale, cost, channel) = 0
    BY <1>4 DEF MarginRate
  <2>2. QED
    BY <1>2, <2>1 DEF p, q
<1>5. QED
  BY <1>3, <1>4

\* A profit that rounds to a positive amount is one.
LEMMA ProfitIsEarned ==
  ASSUME NEW sale \in Nat, NEW cost \in Nat, NEW channel \in DOMAIN ChannelFees,
         Profit(sale, cost, channel) > 0
  PROVE  Earning(sale, cost, channel) > 0
BY EarningType, UnitFacts, HalfUpPositive DEF Profit
-----------------------------------------------------------------------------
\* What arrives has cost something.
LEMMA CostPositive ==
  ASSUME NEW price \in Nat \ {0}, NEW customs, NEW hs, NEW fx \in Nat \ {0}
  PROVE  FinalCost(price, customs, hs, fx) > 0
<1> DEFINE dutiable == price * fx * FxBuffer + Scale * D * IntlShipping
           duty     == IF customs = "list" THEN 0 ELSE dutiable * Duty(hs)
           vat      == IF customs = "list" THEN 0 ELSE (D * dutiable + duty) * ImportVat
           landed   == D * D * dutiable + D * duty + vat
<1>1. /\ D \in Nat \ {0} /\ Scale \in Nat /\ FxBuffer \in Nat \ {0} /\ IntlShipping \in Nat
      /\ ImportVat \in Nat /\ DomesticShipping \in Nat /\ ReturnReserve \in Nat /\ Won \in Nat
  BY MarginAssumption, UnitFacts DEF Valid
<1>2. dutiable \in Nat \ {0}
  <2>1. price * fx \in Nat \ {0}
    BY TimesPositive
  <2>2. price * fx * FxBuffer \in Nat \ {0}
    BY <1>1, <2>1, TimesPositive
  <2>3. Scale * D * IntlShipping \in Nat
    BY <1>1, TimesNat
  <2>4. QED
    BY <2>2, <2>3
<1>3. duty \in Nat
  <2> HIDE DEF dutiable
  <2> QED BY <1>2, DutyType, TimesNat
<1>4. vat \in Nat
  <2> HIDE DEF dutiable, duty
  <2> QED BY <1>1, <1>2, <1>3, TimesNat
<1>5. landed \in Nat \ {0}
  <2> HIDE DEF dutiable, duty, vat
  <2>1. D * D * dutiable \in Nat \ {0} /\ D * duty \in Nat
    BY <1>1, <1>2, <1>3, TimesPositive, TimesNat
  <2>2. QED
    BY <1>4, <2>1
<1>6. D * landed + Won * DomesticShipping + landed * ReturnReserve > 0
  <2> HIDE DEF landed
  <2>1. D * landed \in Nat \ {0} /\ Won * DomesticShipping \in Nat /\ landed * ReturnReserve \in Nat
    BY <1>1, <1>5, TimesPositive, TimesNat
  <2>2. QED
    BY <2>1
<1>7. QED
  BY <1>6 DEF FinalCost

\* How much room the target leaves above a floor, against the two roundings,
\* of the profit to a won and of the rate to a hundredth of a percent, at the
\* lowest price there is.
RoomAbove(floor) ==
  PriceRounding * (2 * TargetMargin * Basis - D - 2 * floor * D) >= D * Basis

\* A price of the engine passes every floor the target leaves room above, so
\* that with the rates and floors shipped neither the margin gate of the
\* pipeline nor the floor of the sweep can stop what the engine has priced
\* (pipeline/runner.py: the margin gate; monitor/worker.py: the margin floor).
THEOREM TargetClearsFloor ==
  ASSUME NEW cost \in Nat \ {0}, NEW channel \in DOMAIN ChannelFees,
         NEW floor \in Nat, RoomAbove(floor)
  PROVE  LET sale == SalePrice(cost, channel)
         IN  Profit(sale, cost, channel) > 0 /\ MarginRate(sale, cost, channel) >= floor
<1> DEFINE S == SalePrice(cost, channel)
           P == PriceRounding
           T == TargetMargin
           B == Basis
           E == Earning(S, cost, channel)
           R == RateOfWon
           p == Profit(S, cost, channel)
           m == HalfUp(p * B, S)
<1>1. /\ P \in Nat \ {0} /\ T \in Nat /\ B \in Nat \ {0} /\ D \in Nat \ {0} /\ R \in Nat \ {0}
      /\ Won = D * R /\ Won \in Nat \ {0}
  BY UnitFacts, ChannelFacts DEF Basis
<1>2. S \in Nat /\ S >= P
  <2>1. S \in Nat /\ S % P = 0 /\ MeetsTarget(S, cost, channel)
    BY SalePriceIsLeast, SalePriceType DEF LeastPrice
  <2>2. S * (Denominator(channel) * RateOfWon) >= cost
    BY <2>1, MeetsTargetIff
  <2>3. S # 0
    BY <2>2, DivisorPositive
  <2>4. QED
    <3> HIDE DEF S, P
    <3> QED BY <1>1, <2>1, <2>3
<1>3. E \in Int /\ E >= T * S * R /\ p \in Int
  BY <1>2, SalePriceIsLeast, EarningType DEF LeastPrice, MeetsTarget
<1>4. 2 * D * p >= 2 * T * S - D
  <2>1. 2 * Won * p >= 2 * E - Won
    BY <1>1, <1>3, HalfUpBounds DEF Profit
  <2> HIDE DEF S, P, T, B, E, R, p
  <2>2. T * S * R \in Int /\ 2 * (T * S * R) = (2 * T * S) * R
    BY <1>1, <1>2
  <2>3. 2 * Won * p = (2 * D * p) * R /\ 2 * Won * p \in Int
    BY <1>1, <1>3
  <2>4. (2 * D * p) * R >= (2 * T * S) * R - D * R
    BY <1>1, <1>3, <2>1, <2>2, <2>3
  <2>5. (2 * T * S) * R - D * R = (2 * T * S - D) * R /\ 2 * T * S - D \in Int /\ 2 * D * p \in Int
    BY <1>1, <1>2, <1>3
  <2>6. ~(2 * D * p < 2 * T * S - D)
    <3> SUFFICES ASSUME 2 * D * p < 2 * T * S - D PROVE FALSE
      OBVIOUS
    <3> DEFINE a == 2 * D * p
               b == 2 * T * S - D
    <3>1. a \in Int /\ b \in Int /\ a < b /\ a * R >= b * R
      BY <2>4, <2>5
    <3> HIDE DEF a, b
    <3>2. a * R < b * R
      BY <1>1, <3>1
    <3>3. a * R \in Int /\ b * R \in Int
      BY <1>1, <3>1
    <3>4. QED
      BY <3>1, <3>2, <3>3
  <2>7. QED
    BY <2>5, <2>6
<1> DEFINE room == 2 * T * B - D - 2 * floor * D
<1>5. room \in Int /\ P * room >= D * B /\ S * room >= D * B /\ room > 0
  <2>1. room \in Int /\ P * room >= D * B
    BY <1>1 DEF RoomAbove
  <2> HIDE DEF room, P, S, B
  <2>2. D * B \in Nat \ {0}
    BY <1>1, TimesPositive
  <2>3. room > 0
    BY <1>1, <2>1, <2>2
  <2>4. S * room >= P * room
    BY <1>2, <1>1, <2>1, <2>3, TimesMonotone
  <2>5. S * room \in Int /\ P * room \in Int
    BY <1>1, <1>2, <2>1
  <2>6. QED
    BY <2>1, <2>2, <2>3, <2>4, <2>5
<1>6. S * room = 2 * (T * S * B) - S * D - 2 * (S * D * floor)
  <2> HIDE DEF S, T, B
  <2> QED BY <1>1, <1>2 DEF room
<1>7. p > 0
  <2> HIDE DEF S, T, B, p, room
  <2>1. S * D \in Nat \ {0} /\ S * D * floor \in Nat /\ T * S * B \in Nat /\ D * B \in Nat
    BY <1>1, <1>2, TimesPositive, TimesNat
  <2>2. 2 * (T * S * B) > D * B
    BY <1>5, <1>6, <2>1
  <2>3. 2 * (T * S * B) = (2 * T * S) * B /\ 2 * T * S \in Nat
    BY <1>1, <1>2
  <2>4. 2 * T * S > D
    <3> DEFINE a == 2 * T * S
    <3>1. a \in Nat /\ D * B < a * B
      BY <2>2, <2>3
    <3> HIDE DEF a
    <3>2. D < a
      BY <1>1, <3>1, TimesCancel
    <3>3. QED
      BY <3>2 DEF a
  <2>5. 2 * D * p > 0
    BY <1>1, <1>3, <1>4, <2>3, <2>4
  <2>6. QED
    BY <1>1, <1>3, <2>5
<1>8. 2 * S * m >= 2 * (p * B) - S /\ m \in Int
  <2>1. p * B \in Int /\ S \in Nat \ {0}
    BY <1>1, <1>2, <1>3
  <2> HIDE DEF p, B, S
  <2>2. QED
    BY <2>1, HalfUpBounds
<1>9. m >= floor
  <2> HIDE DEF S, T, B, p, room, m
  <2>1. 2 * (S * D * m) >= 2 * (p * B * D) - S * D
    <3> DEFINE a == 2 * S * m
               b == 2 * (p * B) - S
    <3>1. a \in Int /\ b \in Int /\ b <= a
      BY <1>1, <1>2, <1>3, <1>8
    <3>2. b * D <= a * D
      <4> HIDE DEF a, b
      <4> QED BY <1>1, <3>1, TimesMonotone
    <3>3. a * D = 2 * (S * D * m) /\ b * D = 2 * (p * B * D) - S * D
      BY <1>1, <1>2, <1>3, <1>8
    <3>4. QED
      BY <3>2, <3>3
  <2>2. 2 * (p * B * D) >= 2 * (T * S * B) - D * B
    <3> DEFINE a == 2 * D * p
               b == 2 * T * S - D
    <3>1. a \in Int /\ b \in Int /\ b <= a
      BY <1>1, <1>2, <1>3, <1>4
    <3>2. b * B <= a * B
      <4> HIDE DEF a, b
      <4> QED BY <1>1, <3>1, TimesMonotone
    <3>3. a * B = 2 * (p * B * D) /\ b * B = 2 * (T * S * B) - D * B
      BY <1>1, <1>2, <1>3
    <3>4. QED
      BY <3>2, <3>3
  <2>3. /\ S * D * m \in Int /\ p * B * D \in Int /\ T * S * B \in Int /\ S * D \in Nat \ {0}
        /\ S * D * floor \in Int /\ D * B \in Int /\ S * room \in Int
    BY <1>1, <1>2, <1>3, <1>5, <1>8, TimesPositive
  <2>4. S * D * floor <= S * D * m
    BY <1>5, <1>6, <2>1, <2>2, <2>3
  <2>5. QED
    <3> DEFINE c == S * D
    <3>1. c \in Nat \ {0} /\ c * floor <= c * m
      BY <2>3, <2>4
    <3> HIDE DEF c
    <3>2. QED
      BY <1>8, <3>1
<1>10. MarginRate(S, cost, channel) = m
  BY <1>1, <1>2 DEF MarginRate
<1>11. QED
  BY <1>7, <1>9, <1>10
=============================================================================
