----------------------------- MODULE Selection -----------------------------
(***************************************************************************)
(* What a traversal leaves of a sequence: the removal of one element,      *)
(* SelectSeq of Sequences with a set in the place of its operator, as the  *)
(* proofs need it, and the removal of elements from a Vector of WTF.       *)
(***************************************************************************)
EXTENDS Naturals, Sequences

\* s without its i-th element.
RemoveAt(s, i) == [j \in 1..Len(s) - 1 |-> IF j < i THEN s[j] ELSE s[j + 1]]

\* The elements of s that are in S, in their order.
Selected(s, S) ==
  LET upTo[i \in 0..Len(s)] ==
        IF i = 0 THEN <<>>
        ELSE IF s[i] \in S THEN Append(upTo[i - 1], s[i]) ELSE upTo[i - 1]
  IN  upTo[Len(s)]

\* The i-th element is overwritten by the last one, which goes away.
SwapRemove(s, i) == SubSeq([s EXCEPT ![i] = s[Len(s)]], 1, Len(s) - 1)

(***************************************************************************)
(* A loop over the vector s that takes the elements of S out of it, after  *)
(* n iterations.  The last element is moved to the place of the one that   *)
(* is taken, and i advances by skip: with 0 the loop goes on with the      *)
(* element moved, with 1 it leaves that one out.                           *)
(***************************************************************************)
Sweep(s, S, skip) ==
  LET walk[n \in 0..Len(s)] ==
        IF n = 0 THEN [i |-> 1, left |-> s, taken |-> <<>>]
        ELSE LET w == walk[n - 1]
             IN  IF w.i > Len(w.left) THEN w
                 ELSE IF w.left[w.i] \in S
                 THEN [i |-> w.i + skip, left |-> SwapRemove(w.left, w.i),
                       taken |-> Append(w.taken, w.left[w.i])]
                 ELSE [w EXCEPT !.i = @ + 1]
  IN  walk[Len(s)]

\* No element but null is twice in s.
Distinct(s, null) == \A i, j \in DOMAIN s : s[i] = s[j] /\ s[i] # null => i = j
=============================================================================
