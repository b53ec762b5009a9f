------------------------------ MODULE MCDelivery ------------------------------
(* One phone, two publish requests, two prices.                            *)
EXTENDS Delivery

CONSTANT bea

MCBuyers == {bea}
MCPrices == {1, 2}
=============================================================================
