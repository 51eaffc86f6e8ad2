---------------------------- MODULE MCMonitorSweep ----------------------------
(* MonitorSweep for TLC, with the sale prices (in hundreds of won) that the   *)
(* shipped cost configuration gives the sample product of 29 USD: a drop, the *)
(* baseline, a rise the monitor absorbs and one it treats as a spike.         *)
EXTENDS MonitorSweep, TLC

SampleQuote == 20 :> 625 @@ 29 :> 829 @@ 30 :> 852 @@ 38 :> 1033

FourPrices == {20, 29, 30, 38}

ThreePrices == {20, 29, 38}

ThreeQuotes == [p \in ThreePrices |-> SampleQuote[p]]
=============================================================================
