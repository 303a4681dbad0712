------------------------------ MODULE MCPricing -----------------------------
(* PricedTransfers with one foreign currency and two rates, at which        *)
(* amounts round up, down and from half a quantum.                          *)
EXTENDS PricedTransfers

MCRate == {[num |-> 3, den |-> 2], [num |-> 1, den |-> 4]}
=============================================================================
