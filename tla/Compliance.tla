----------------------------- MODULE Compliance -----------------------------
(***************************************************************************)
(* The compliance engine (jikgugom/compliance): the rule files, the HS     *)
(* classifier and the chain of rules that blocks a product, leaves it to a *)
(* person or lets it pass.  A text is the set of the words in it that some *)
(* rule looks for.                                                         *)
(***************************************************************************)
EXTENDS Integers

CONSTANTS
  NoCode,                \* an HS code or a brand that is not known
  ProhibitedCategories,  \* prohibited.yaml
  ProhibitedWords,
  BannedWords,           \* banned_keywords.yaml: what its patterns match
  RiskyBrands,           \* brands.yaml: counterfeit_risk
  KcBlock, KcReview,     \* kc_required.yaml: categories by verdict
  ListLimit,             \* customs.yaml: list_clearance_limit_usd
  HsMap                  \* customs.yaml: hs_map, from category to HS code

CustomsTypes == {"list", "general", "prohibited"}

Elements(path) == {path[k] : k \in DOMAIN path}

\* The code of the source, or of the first category on the path that has one.
Classify(product) ==
  LET known == {k \in DOMAIN product.path : product.path[k] \in DOMAIN HsMap}
  IN  IF product.hs # NoCode THEN product.hs
      ELSE IF known = {} THEN NoCode
      ELSE HsMap[product.path[CHOOSE k \in known : \A j \in known : k <= j]]

CustomsTypeFor(price, currency) ==
  IF currency = "USD" /\ price <= ListLimit THEN "list" ELSE "general"

\* What each rule asks of a product.
Text(product) == product.title \cup product.body

Prohibited(product) ==
  \/ Elements(product.path) \cap ProhibitedCategories # {}
  \/ Text(product) \cap ProhibitedWords # {}

Banned(product) == Text(product) \cap BannedWords # {}

Counterfeit(product) == (product.title \cup {product.brand}) \cap RiskyBrands # {}

NeedsKc(product, rule) == Elements(product.path) \cap rule # {}

\* The rules that leave a product to a person; all of them are collected.
Doubts(product) ==
  {rule \in {"KC_REQUIRED", "PRICE_OUT_OF_RANGE", "HS_UNDETERMINED"} :
     CASE rule = "KC_REQUIRED" -> NeedsKc(product, KcReview)
       [] rule = "PRICE_OUT_OF_RANGE" ->
            CustomsTypeFor(product.price, product.currency) = "general"
       [] rule = "HS_UNDETERMINED" -> Classify(product) = NoCode}

\* Mutant: a doubt ends the chain as a block does.
RulingDoubtFirst(product) ==
  LET Ruling(verdict, reasons, customs) ==
        [verdict |-> verdict, reasons |-> reasons, customs |-> customs, hs |-> Classify(product)]
      customs == CustomsTypeFor(product.price, product.currency)
  IN  IF Prohibited(product) THEN Ruling("block", {"PROHIBITED_ITEM"}, "prohibited")
      ELSE IF Banned(product) THEN Ruling("block", {"BANNED_KEYWORD"}, customs)
      ELSE IF Doubts(product) # {} THEN Ruling("review", Doubts(product), customs)
      ELSE IF Counterfeit(product) THEN Ruling("block", {"COUNTERFEIT_BRAND"}, customs)
      ELSE IF NeedsKc(product, KcBlock) THEN Ruling("block", {"KC_REQUIRED"}, customs)
      ELSE Ruling("pass", {}, customs)

\* ComplianceEngine.evaluate: the first rule that blocks ends the chain.
Evaluate(product) ==
  LET Ruling(verdict, reasons, customs) ==
        [verdict |-> verdict, reasons |-> reasons, customs |-> customs, hs |-> Classify(product)]
      customs == CustomsTypeFor(product.price, product.currency)
  IN  IF Prohibited(product) THEN Ruling("block", {"PROHIBITED_ITEM"}, "prohibited")
      ELSE IF Banned(product) THEN Ruling("block", {"BANNED_KEYWORD"}, customs)
      ELSE IF Counterfeit(product) THEN Ruling("block", {"COUNTERFEIT_BRAND"}, customs)
      ELSE IF NeedsKc(product, KcBlock) THEN Ruling("block", {"KC_REQUIRED"}, customs)
      ELSE IF Doubts(product) # {} THEN Ruling("review", Doubts(product), customs)
      ELSE Ruling("pass", {}, customs)
=============================================================================
