------------------------------- MODULE Bucket -------------------------------
(***************************************************************************)
(* The linked list of a bucket of the parking lot (Source/WTF/wtf/         *)
(* ParkingLot.cpp, struct Bucket): enqueue(), and genericDequeue() with    *)
(* its loop.  A list is a record of the bucket's two pointers and of the   *)
(* links of all threads; a functor is a function from threads to answers.  *)
(***************************************************************************)
EXTENDS Naturals, Sequences, FiniteSets

CONSTANTS Threads, Null

EmptyLinks == [t \in Threads |-> Null]

ListEnqueue(list, data) ==
  IF list.queueTail # Null
  THEN [list EXCEPT !.nextInQueue[list.queueTail] = data, !.queueTail = data]
  ELSE [list EXCEPT !.queueHead = data, !.queueTail = data]
-----------------------------------------------------------------------------
(* genericDequeue(): the list and the locals, before and after each round *)

\* currentPtr is this, or the thread whose nextInQueue it points to.
AtHead == "&queueHead"

Start(list) == [list |-> list, currentPtr |-> AtHead, previous |-> Null, shouldContinue |-> TRUE]

\* *currentPtr
Current(s) ==
  IF s.currentPtr = AtHead THEN s.list.queueHead ELSE s.list.nextInQueue[s.currentPtr]

Ignore(s) == [s EXCEPT !.previous = Current(s), !.currentPtr = Current(s)]

\* Mutant of NewTail: the queue is taken to be empty.
NoTail(s) == IF Current(s) = s.list.queueTail THEN Null ELSE s.list.queueTail

NewTail(s) == IF Current(s) = s.list.queueTail THEN s.previous ELSE s.list.queueTail

\* *currentPtr = current->nextInQueue; current->nextInQueue = nullptr
Unlink(s) ==
  LET next == s.list.nextInQueue[Current(s)]
      list == [s.list EXCEPT !.queueTail = NewTail(s), !.nextInQueue[Current(s)] = Null]
  IN  IF s.currentPtr = AtHead
      THEN [list EXCEPT !.queueHead = next]
      ELSE [list EXCEPT !.nextInQueue[s.currentPtr] = next]

RemoveCurrent(s, result) ==
  [s EXCEPT !.list = Unlink(s), !.shouldContinue = result # "RemoveAndStop"]

Round(s, functor) ==
  IF ~s.shouldContinue \/ Current(s) = Null THEN s
  ELSE IF functor[Current(s)] = "Ignore" THEN Ignore(s)
  ELSE RemoveCurrent(s, functor[Current(s)])

\* The list that the traversal leaves, after a round for each thread at most.
GenericDequeue(list, functor) ==
  LET round[n \in 0..Cardinality(Threads)] ==
        IF n = 0 THEN Start(list) ELSE Round(round[n - 1], functor)
  IN  round[Cardinality(Threads)].list
-----------------------------------------------------------------------------
\* The queue as its links give it.  A cycle shows as a thread that is repeated.
Listed(list) ==
  LET link[i \in 1..Cardinality(Threads) + 1] ==
        IF i = 1 THEN list.queueHead
        ELSE IF link[i - 1] = Null THEN Null ELSE list.nextInQueue[link[i - 1]]
      IsThread(t) == t # Null
  IN  SelectSeq(link, IsThread)
=============================================================================
