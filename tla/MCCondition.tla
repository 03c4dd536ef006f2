----------------------------- MODULE MCCondition -----------------------------
EXTENDS Condition

\* Every condition hashes to the same bucket.
OneBucket == [c \in Conditions |-> "bucket"]
=============================================================================
