------------------------------- MODULE Mutex -------------------------------
(***************************************************************************)
(* What WTF's locks promise their clients: at most one thread owns the     *)
(* lock, a thread takes it only while nobody owns it, and only the owner   *)
(* gives it back.  WordLock and Lock are both shown to implement this.     *)
(* There is no order among the waiters: both locks let a newcomer barge.   *)
(***************************************************************************)
CONSTANT Threads

VARIABLE owners     \* the set of threads that own the lock

Init == owners = {}

Acquire(t) ==
  /\ owners = {}
  /\ owners' = {t}

Release(t) ==
  /\ owners = {t}
  /\ owners' = {}

Next == \E t \in Threads : Acquire(t) \/ Release(t)

Spec == Init /\ [][Next]_owners
=============================================================================
