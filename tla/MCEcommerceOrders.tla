------------------------- MODULE MCEcommerceOrders -------------------------
EXTENDS EcommerceOrders, TLC

\* Orders are interchangeable, and so are requests.
Symmetry == Permutations(Orders) \cup Permutations(Requests)
=============================================================================
