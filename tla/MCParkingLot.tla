---------------------------- MODULE MCParkingLot ----------------------------
EXTENDS ParkingLotClients, TLC

\* Every address hashes to the same bucket.
OneBucket == [a \in Addresses |-> "bucket"]

Symmetry == Permutations(Threads) \cup Permutations(Addresses)
=============================================================================
