-------------------------- MODULE MCParkingLotTable --------------------------
EXTENDS ParkingLotTable, TLC

CONSTANTS a1, a2, t1, t2, t3

\* They meet in a table of one or three slots, and part in one of two.
HashOfAddresses == [a \in Addresses |-> IF a = a1 THEN 0 ELSE 3]

\* Who does what.  unparkOne() without a callback is left out: it looks for the
\* bucket as unparkAll() does and takes a thread as the other unparkOne() does.
\* A thread that only unparks may have its ThreadData from parking earlier.
Roles == t1 :> {"park", "leave"}
      @@ t2 :> {"park", "destroy"}
      @@ t3 :> {"forEach", "unparkAll", "unparkOneWithCallback"}
=============================================================================
