----------------------------- MODULE MCRateCalc -----------------------------
(***************************************************************************)
(* RateCalc for TLC: two short months.                                     *)
(***************************************************************************)
EXTENDS RateCalc

\* No outage, one candlestick missing at either exchange, an outage that a
\* batch bridges and one that it does not.
Outages ==
    {[dcr |-> d, usd |-> u] : d \in {{}, {2}, 1..3}, u \in {{}, {1}}}
=============================================================================
