----------------------------- MODULE MCWordLock -----------------------------
EXTENDS WordLock

CONSTANT t1

\* Every thread that goes to sleep on the lock is woken by some unlock().  The
\* threads are interchangeable: one stands for all.
SleepersWake == IsWoken(t1)
=============================================================================
