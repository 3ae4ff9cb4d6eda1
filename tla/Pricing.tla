------------------------------ MODULE Pricing ------------------------------
(***************************************************************************)
(* Amounts and prices: what the API accepts and charges                    *)
(* (apps/api/src/catalog/product-amount.ts, checkout-pricing.ts and the    *)
(* readers of them), and what the page accepts and shows, written a second *)
(* time in apps/web/src/features/quantity.  One line of a cart is edited;  *)
(* the other ones are a sum.  The arithmetic is BigInt's, so it is exact.  *)
(***************************************************************************)
EXTENDS Integers

CONSTANTS
  WeightStep,  \* WEIGHT_ORDER_STEP_MG
  MaxWeight,   \* MAX_WEIGHT_AMOUNT_MG
  MaxAmount,   \* MAX_COMMERCE_AMOUNT
  MaxSafe,     \* Number.MAX_SAFE_INTEGER, the page's bound for a count without a maximum
  MaxMoney,    \* MAX_MONEY_MINOR
  MaxPrice,    \* bound: prices in minor units
  MaxBasis,    \* bound: amounts a price is for, and limits of a product
  Shipping,    \* CHECKOUT_SHIPPING_MINOR
  Rate, Whole  \* the first-purchase discount, 600 of 10000

VARIABLES
  rules,   \* the Product row: how it is sold and for how much
  amount,  \* CartItem.amount, 0 without a row
  others,  \* the total of the cart's other lines
  page     \* the cart as the page last received it, and the edit it sent

vars == <<rules, amount, others, page>>

-----------------------------------------------------------------------------
(* The database                                                            *)

Null == 0  \* maximumOrderAmount is null
Least(m, n) == IF m < n THEN m ELSE n
Most(m, n) == IF m < n THEN n ELSE m

\* Product_sale_amounts_check and Product_weight_order_lattice_check.
Legal(r) ==
  /\ r.max # Null => r.max \in r.min..MaxAmount /\ (r.max - r.min) % r.step = 0
  /\ r.kind = "WEIGHT" => r.min = WeightStep /\ r.step = WeightStep /\ r.max <= MaxWeight

\* PACKAGE and KIT are counted alike.
Rules == {r \in [kind : {"WEIGHT", "COUNT"}, min : 1..MaxBasis, step : 1..MaxBasis,
                 max : {Null} \cup 1..MaxBasis, price : 0..MaxPrice, basis : 1..MaxBasis] :
            Legal(r)}

\* What an administrator's save makes of the row.
Saved(kind, price) ==
  LET n == IF kind = "WEIGHT" THEN WeightStep ELSE 1 IN
  [kind |-> kind, min |-> n, step |-> n, max |-> IF kind = "WEIGHT" THEN MaxWeight ELSE Null,
   price |-> price, basis |-> n]

-----------------------------------------------------------------------------
(* The API                                                                 *)

IsValidOrderAmount(n, r) ==
  LET maximum == IF r.kind = "WEIGHT"
                 THEN Least(IF r.max = Null THEN MaxWeight ELSE r.max, MaxWeight)
                 ELSE IF r.max = Null THEN MaxAmount ELSE r.max
  IN
  /\ n >= r.min /\ n <= maximum
  /\ r.kind = "WEIGHT" => r.min = WeightStep /\ r.step = WeightStep
  /\ (n - r.min) % r.step = 0

\* calculateLineTotalMinor: the nearest minor unit, a half upwards.
LineTotal(price, n, basis) == (2 * price * n + basis) \div (2 * basis)

LineTotalOf(r, n) == IF n = 0 THEN 0 ELSE LineTotal(r.price, n, r.basis)

\* toCartDto: a line that has no price adds nothing, and a sum that is no money is
\* shown as nothing.
CartSubtotal(r, n) ==
  LET sum == others + (IF LineTotalOf(r, n) > MaxMoney THEN 0 ELSE LineTotalOf(r, n)) IN
  IF sum > MaxMoney THEN 0 ELSE sum

Discount(items) == (items * Rate + Whole \div 2) \div Whole

\* calculateCheckoutPricing: the discount is rounded once and spares the shipping.
Total(items, discounted) ==
  items - (IF discounted THEN Discount(items) ELSE 0) + Shipping

\* buildCheckoutQuote has a price for the cart: the amount is one, and every sum is
\* money.
Quotable(r, n, discounted) ==
  /\ n <= MaxAmount
  /\ LineTotalOf(r, n) <= MaxMoney
  /\ others + LineTotalOf(r, n) <= MaxMoney
  /\ Total(others + LineTotalOf(r, n), discounted) <= MaxMoney

QuotedItems(r, n) == others + LineTotalOf(r, n)

-----------------------------------------------------------------------------
(* The page                                                                *)

\* validateOrderAmount.  A count without a maximum is any safe integer.
PageAccepts(n, r) ==
  /\ n <= MaxSafe
  /\ IF r.kind = "WEIGHT"
     THEN /\ n >= WeightStep
          /\ n <= Least(IF r.max = Null THEN MaxWeight ELSE r.max, MaxWeight)
          /\ n % WeightStep = 0
     ELSE /\ n >= r.min
          /\ r.max # Null => n <= r.max
          /\ (n - r.min) % r.step = 0

\* Mutant: a proportional price is cut off.
EstimateDown(price, n, basis) == (price * n) \div basis

\* estimateLineTotalMinor.
Estimate(price, n, basis) == (2 * price * n + basis) \div (2 * basis)

\* What the buttons of the form lead to, from the amount it shows; the validation
\* stops what is no safe integer.
Pressed(n, r) ==
  LET step == IF r.kind = "WEIGHT" THEN WeightStep ELSE r.step
      min  == IF r.kind = "WEIGHT" THEN WeightStep ELSE r.min
      max  == IF r.kind = "WEIGHT" THEN Least(IF r.max = Null THEN MaxWeight ELSE r.max, MaxWeight)
              ELSE IF r.max = Null THEN MaxSafe ELSE r.max
  IN {Most(min, n - step) : m \in {n} \cap (min + 1)..MaxSafe}
       \cup {Least(max, n + step) : m \in {n} \cap 0..(max - step)}

\* What the cart page shows: the subtotal it got, or the sum of the lines with the
\* edit it has sent.
Shown ==
  IF page.edit = 0 THEN page.subtotal
  ELSE others + Estimate(page.rules.price, page.edit, page.rules.basis)

Received(r, n) == [rules |-> r, amount |-> n, subtotal |-> CartSubtotal(r, n), edit |-> 0]

-----------------------------------------------------------------------------
Init ==
  /\ rules \in Rules
  /\ amount = 0
  /\ others \in {0, MaxMoney - Shipping - 1}
  /\ page = Received(rules, 0)

\* add, from the page of the product: the amount in the cart grows by it.
Add(n) ==
  /\ page.edit = 0 /\ PageAccepts(n, page.rules)
  /\ IsValidOrderAmount(amount + n, rules)
  /\ amount' = amount + n
  /\ page' = Received(rules, amount')
  /\ UNCHANGED <<rules, others>>

\* An amount is typed or a button pressed, and passes the page's validation.
Edit(n) ==
  /\ page.edit = 0 /\ page.amount # 0
  /\ PageAccepts(n, page.rules)
  /\ page' = [page EXCEPT !.edit = n]
  /\ UNCHANGED <<rules, amount, others>>

\* updateItem: a refusal (UpdateCartItemDto, requireValidCartAmount) leaves the cart as
\* it was.
Answer ==
  /\ page.edit # 0
  /\ amount' = IF IsValidOrderAmount(page.edit, rules) THEN page.edit ELSE amount
  /\ page' = IF amount' = page.edit THEN Received(rules, amount') ELSE [page EXCEPT !.edit = 0]
  /\ UNCHANGED <<rules, others>>

\* The page loads the cart.
Load ==
  /\ page.edit = 0
  /\ page' = Received(rules, amount)
  /\ UNCHANGED <<rules, amount, others>>

\* An administrator saves the product.
Save(kind, price) ==
  /\ rules' = Saved(kind, price)
  /\ UNCHANGED <<amount, others, page>>

Next ==
  \/ \E n \in 1..MaxSafe : Add(n) \/ Edit(n)
  \/ Answer \/ Load
  \/ \E kind \in {"WEIGHT", "COUNT"}, price \in 1..MaxPrice : Save(kind, price)

Spec == Init /\ [][Next]_vars

-----------------------------------------------------------------------------
(* Properties                                                              *)

\* The two implementations agree up to the one bound that only the API has.  While
\* the product is as the page knows it, the API accepts every edit that the page
\* sends and every amount that a button leads to, unless it is above
\* MAX_COMMERCE_AMOUNT; the subtotal that the page shows, also while the answer is on
\* its way, is the one that the checkout quotes; and to take less of a product never
\* costs more, whatever was rounded on the way to the total.
QuotedAsShown ==
  page.rules = rules =>
    /\ page.edit # 0 => (IsValidOrderAmount(page.edit, rules) <=> page.edit <= MaxAmount)
    /\ IsValidOrderAmount(page.amount, rules) =>
         \A n \in Pressed(page.amount, rules) :
           IsValidOrderAmount(n, rules) <=> n <= MaxAmount
    /\ LET n == IF page.edit = 0 THEN page.amount ELSE page.edit IN
       \A discounted \in BOOLEAN : Quotable(rules, n, discounted) =>
         /\ Shown = QuotedItems(rules, n)
         /\ \A m \in 0..n : Total(QuotedItems(rules, m), discounted) <= Total(Shown, discounted)

=============================================================================
