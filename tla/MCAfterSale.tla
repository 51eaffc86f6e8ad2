----------------------------- MODULE MCAfterSale -----------------------------
(* AfterSale for TLC.  A rate is a number of twentieths and a price unit about *)
(* ten dollars: the shipped costs (a buffer of 5 %, fees of 10 %, a target of  *)
(* 25 %, returns at 5 %), with a list clearance limit of 15.  The goods are    *)
(* those of the sample catalogue and one that needs a review for its KC mark.  *)
EXTENDS AfterSale, TLC

CONSTANTS i1

Kind(path, brand, hs, rating, count, crowd, list) ==
  [title |-> IF brand = "Nike" THEN {"Nike"} ELSE {}, body |-> {}, path |-> path,
   brand |-> brand, hs |-> hs, currency |-> "USD",
   rating |-> rating, count |-> count, crowd |-> crowd, list |-> list]

SampleGoods ==
  { Kind(<<"Best", "Headphones">>, "Acme", "8518.30", 47, 900, 63, 3),
    Kind(<<"Best", "Chargers">>, NoCode, NoCode, 45, 500, 64, 3),
    Kind(<<"Best", "Shoes">>, "Nike", "6404.11", 46, 1500, 66, 14),
    Kind(<<"Best", "Accessories">>, NoCode, "3926.90", 21, 8, 67, 3),
    Kind(<<"Power Banks">>, NoCode, NoCode, 45, 500, 10, 3),
    Kind(<<"Toys">>, NoCode, NoCode, 45, 500, 10, 16),
    [Kind(<<"Toys">>, NoCode, NoCode, 45, 500, 10, 14) EXCEPT !.body = {"fda"}],
    [Kind(<<"Toys">>, NoCode, NoCode, 45, 500, 10, 14) EXCEPT !.title = {"taser"}],
    [Kind(<<"Toys">>, NoCode, NoCode, 45, 500, 10, 14) EXCEPT !.currency = "EUR"] }

SamplePrices == {3, 14, 16}
SampleHsMap == "Chargers" :> "8504.40" @@ "Power Banks" :> "8507.60" @@
               "Headphones" :> "8518.30" @@ "Toys" :> "9503.00"
SampleDuty == "8518.30" :> 2 @@ "9503.00" :> 0
SampleFees == "naver" :> [sales |-> 1, payment |-> 1]
SampleDemand == 0 :> 0 @@ 8 :> 3181 @@ 500 :> 8999 @@ 900 :> 9849 @@ 1500 :> 10000
SampleScores == {-5, 44, 70, 130}
SampleFx == {NULL, Junk, 0, 12, 16}
SampleChannels == {NULL, <<>>, <<"coupang">>, <<"gmarket">>}
=============================================================================
