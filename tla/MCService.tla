----------------------------- MODULE MCService -----------------------------
EXTENDS DeliveryService

Symmetry == Permutations(DeliveryIDs) \cup Permutations(Consumers)
              \cup Permutations(Calls)
============================================================================
