----------------------------- MODULE PriceBand -----------------------------
(***************************************************************************)
(* The fixed band of prices that an array book is constructed with, the    *)
(* arguments min_price and max_price of FlatArrayBook.  Only prices in it  *)
(* may be used: insert asserts it.                                         *)
(***************************************************************************)
EXTENDS Orders

CONSTANTS min_price, max_price   \* inclusive

ASSUME BandAssumption ==
  /\ min_price \in Int
  /\ max_price \in Int
  /\ min_price <= max_price
  /\ Prices \subseteq min_price .. max_price
=============================================================================
