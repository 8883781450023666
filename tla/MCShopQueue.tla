----------------------------- MODULE MCShopQueue -----------------------------
(* An instance of ShopQueue for TLC.                                        *)
EXTENDS ShopQueue, TLC

\* Customers are interchangeable, and so are barbers and nodes.
ShopQueueSymmetry ==
  Permutations(Customers) \cup Permutations(Barbers) \cup Permutations(Nodes)
=============================================================================
