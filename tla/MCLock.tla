------------------------------- MODULE MCLock -------------------------------
EXTENDS Lock

CONSTANT t1

\* Every lock hashes to the same bucket.
OneBucket == [l \in Locks |-> "bucket"]

\* Every thread that parks on a lock is dequeued by some unlock().  The threads
\* are interchangeable: one stands for all.
ParkedAreUnparked == IsUnparked(t1)
=============================================================================
