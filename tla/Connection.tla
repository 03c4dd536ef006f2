----------------------------- MODULE Connection -----------------------------
(***************************************************************************)
(* The IPC connection of two processes (Source/WebKit2/Platform/IPC): each *)
(* has a main thread, on which messages are dispatched to the client and   *)
(* from which they are sent, and a connection queue, which reads what the  *)
(* other sent.  A main thread that waits for the reply to a synchronous    *)
(* message dispatches the messages marked for it, and what dispatches them *)
(* may send synchronous messages again: its stack is a variable.           *)
(*                                                                         *)
(* Handlers are any sequence of sends that ends; a synchronous message is  *)
(* answered when its handler returns.  A handler may find its message      *)
(* invalid.  Either process may die.                                       *)
(***************************************************************************)
EXTENDS Naturals, Sequences, FiniteSets, SequencesExt

CONSTANTS
  Processes,        \* the two processes
  Restricted,       \* those that send marked messages only while processing one
                    \* (setOnlySendMessagesAsDispatchWhenWaitingForSyncReply...)
  Exiting,          \* those that exit when a synchronous message fails
                    \* (setShouldExitOnSyncMessageSendFailure)
  Strict,           \* those that terminate the other process on an invalid
                    \* message; the others let it slide
  Impatient,        \* those whose synchronous messages may time out
  Mortal,           \* those that may die, or invalidate their connection
  MaxSends          \* bound on the messages that each process sends

ASSUME ProcessesAssumption ==
  /\ Cardinality(Processes) = 2
  /\ {Restricted, Exiting, Strict, Impatient, Mortal} \subseteq SUBSET Processes
ASSUME MaxSendsAssumption == MaxSends \in Nat

VARIABLES
  alive,            \* does the process run?
  closed,           \* is its end of the socket closed?
  wire,             \* the messages it has sent that the other has not read
  m_client,         \* has its connection a client?  (isValid())
  invalidating,     \* is platformInvalidate() on its connection queue?
  m_incomingMessages,
  m_messagesToDispatchWhileWaitingForSyncReply,
  m_didScheduleDispatchMessages,    \* is the connection in that work set?
  functions,        \* the functions dispatched to its main run loop
  m_pendingSyncReplies,
  m_shouldWaitForSyncReplies,
  m_isSet,          \* of m_waitForSyncReplySemaphore
  stack,            \* the calls that its main thread is in, the innermost last
  m_syncRequestID   \* how many messages it has sent

queues == <<m_incomingMessages, m_messagesToDispatchWhileWaitingForSyncReply,
            m_didScheduleDispatchMessages, functions>>
replies == <<m_pendingSyncReplies, m_shouldWaitForSyncReplies, m_isSet>>
ends == <<alive, closed, m_client, invalidating>>
vars == <<ends, wire, queues, replies, stack, m_syncRequestID>>

Other == [p \in Processes |-> CHOOSE q \in Processes : q # p]

Message(kind, marked, id) == [kind |-> kind, marked |-> marked, id |-> id]

\* The calls a main thread may be in: the handler of a message, the rest of
\* dispatchMessages(), waitForSyncReply() at one of its steps, and what the
\* client does about an invalid message.
Handler(m) == [call |-> "handler", message |-> m]
Dispatching(ms) == IF ms = <<>> THEN <<>> ELSE <<[call |-> "dispatchMessages", rest |-> ms]>>
Waiting(id, at) == [call |-> "waitForSyncReply", id |-> id, at |-> at]
Terminating == [call |-> "didReceiveInvalidMessage"]

Init ==
  /\ alive = [p \in Processes |-> TRUE]
  /\ closed = [p \in Processes |-> FALSE]
  /\ wire = [p \in Processes |-> <<>>]
  /\ m_client = [p \in Processes |-> TRUE]
  /\ invalidating = [p \in Processes |-> FALSE]
  /\ m_incomingMessages = [p \in Processes |-> <<>>]
  /\ m_messagesToDispatchWhileWaitingForSyncReply = [p \in Processes |-> <<>>]
  /\ m_didScheduleDispatchMessages = [p \in Processes |-> FALSE]
  /\ functions = [p \in Processes |-> <<>>]
  /\ m_pendingSyncReplies = [p \in Processes |-> <<>>]
  /\ m_shouldWaitForSyncReplies = [p \in Processes |-> TRUE]
  /\ m_isSet = [p \in Processes |-> FALSE]
  /\ stack = [p \in Processes |-> <<>>]
  /\ m_syncRequestID = [p \in Processes |-> 0]

Put(f, p, m) == [f EXCEPT ![p] = Append(@, m)]
\* What is written to a socket whose other end is closed goes nowhere.
Write(p, m) == wire' = IF closed[Other[p]] THEN wire ELSE Put(wire, p, m)
Push(p, c) == stack' = Put(stack, p, c)
Pop(p) == stack' = [stack EXCEPT ![p] = Front(@)]
Replace(p, c) == stack' = [stack EXCEPT ![p] = Append(Front(@), c)]

Idle(p) == alive[p] /\ stack[p] = <<>>
In(p, call) == alive[p] /\ stack[p] # <<>> /\ Last(stack[p]).call = call
WaitsAt(p, at) == In(p, "waitForSyncReply") /\ Last(stack[p]).at = at
-----------------------------------------------------------------------------
(* The main thread sends *)

\* It runs code of the client: a handler, or something of its own.
InClient(p) == Idle(p) \/ In(p, "handler")

\* m_inDispatchMessageMarkedDispatchWhenWaitingForSyncReplyCount is not 0.
ProcessingMarked(p) ==
  \E i \in DOMAIN stack[p] : stack[p][i].call = "handler" /\ stack[p][i].message.marked

\* Mutant of MayMark: a restricted process marks nothing.
NeverMark(p) == p \notin Restricted

MayMark(p) == p \notin Restricted \/ ProcessingMarked(p)

NextSend(p) ==
  /\ InClient(p)
  /\ m_syncRequestID[p] < MaxSends
  /\ m_syncRequestID' = [m_syncRequestID EXCEPT ![p] = @ + 1]

\* send(), with DispatchMessageEvenWhenWaitingForSyncReply or without.
Send(p, flag) ==
  /\ NextSend(p)
  /\ m_client[p]
  /\ Write(p, Message("async", flag /\ MayMark(p), m_syncRequestID'[p]))
  /\ UNCHANGED <<ends, queues, replies, stack>>

\* didFailToSendSyncMessage(): some processes exit.
Failing(p) == IF p \in Exiting THEN <<[call |-> "exit"]>> ELSE <<>>

\* sendSyncMessage() up to waitForSyncReply().
SendSync(p) ==
  /\ NextSend(p)
  /\ IF m_client[p] /\ m_shouldWaitForSyncReplies[p]
     THEN /\ m_pendingSyncReplies' =
               Put(m_pendingSyncReplies, p, [syncRequestID |-> m_syncRequestID'[p], didReceiveReply |-> FALSE])
          /\ Write(p, Message("sync", MayMark(p), m_syncRequestID'[p]))
          /\ Push(p, Waiting(m_syncRequestID'[p], "dispatch"))
     ELSE /\ stack' = [stack EXCEPT ![p] = @ \o Failing(p)]
          /\ UNCHANGED <<m_pendingSyncReplies, wire>>
  /\ UNCHANGED <<ends, queues, m_shouldWaitForSyncReplies, m_isSet>>

\* invalidate().
Invalidate(p) ==
  /\ m_client[p]
  /\ m_client' = [m_client EXCEPT ![p] = FALSE]
  /\ invalidating' = [invalidating EXCEPT ![p] = TRUE]
  /\ UNCHANGED <<alive, closed>>

\* The client's code calls it.
InvalidateByClient(p) ==
  /\ p \in Mortal
  /\ InClient(p)
  /\ Invalidate(p)
  /\ UNCHANGED <<wire, queues, replies, stack, m_syncRequestID>>

\* The process is no more; what it had not written to the socket or read from it
\* is lost.
Die(p) ==
  /\ alive' = [alive EXCEPT ![p] = FALSE]
  /\ closed' = [closed EXCEPT ![p] = TRUE]
  /\ \E n \in 0..Len(wire[p]) : wire' = [wire EXCEPT ![p] = SubSeq(@, 1, n), ![Other[p]] = <<>>]
  /\ m_client' = [m_client EXCEPT ![p] = FALSE]
  /\ invalidating' = [invalidating EXCEPT ![p] = FALSE]
  /\ m_incomingMessages' = [m_incomingMessages EXCEPT ![p] = <<>>]
  /\ m_messagesToDispatchWhileWaitingForSyncReply' =
       [m_messagesToDispatchWhileWaitingForSyncReply EXCEPT ![p] = <<>>]
  /\ m_didScheduleDispatchMessages' = [m_didScheduleDispatchMessages EXCEPT ![p] = FALSE]
  /\ functions' = [functions EXCEPT ![p] = <<>>]
  /\ m_pendingSyncReplies' = [m_pendingSyncReplies EXCEPT ![p] = <<>>]
  /\ m_shouldWaitForSyncReplies' = [m_shouldWaitForSyncReplies EXCEPT ![p] = FALSE]
  /\ m_isSet' = [m_isSet EXCEPT ![p] = FALSE]
  /\ stack' = [stack EXCEPT ![p] = <<>>]
  /\ m_syncRequestID' = [m_syncRequestID EXCEPT ![p] = 0]

Exit(p) == In(p, "exit") /\ Die(p)
Crash(p) == p \in Mortal /\ alive[p] /\ Die(p)
-----------------------------------------------------------------------------
(* The main thread dispatches *)

\* dispatchMessage(): nothing without a client.
DispatchOn(p, s, m) ==
  stack' = [stack EXCEPT ![p] = IF m_client[p] THEN Append(s, Handler(m)) ELSE s]

\* sendSyncReply() if the message asks for it, be it invalid or not.
SendSyncReply(p, m) ==
  IF m.kind = "sync" /\ m_client[p] THEN Write(p, Message("reply", FALSE, m.id)) ELSE UNCHANGED wire

\* The handler returns.  It may have found the message invalid, of which a client
\* that is still there hears now.
ReturnFromHandler(p) ==
  /\ In(p, "handler")
  /\ SendSyncReply(p, Last(stack[p]).message)
  /\ Pop(p) \/ (p \in Strict /\ m_client[p] /\ Replace(p, Terminating))
  /\ UNCHANGED <<ends, queues, replies, m_syncRequestID>>

\* The client kills the other process and then invalidates the connection.
Terminate(p) == In(p, "didReceiveInvalidMessage") /\ alive[Other[p]] /\ Die(Other[p])
DidReceiveInvalidMessage(p) ==
  /\ In(p, "didReceiveInvalidMessage")
  /\ ~alive[Other[p]]
  /\ Invalidate(p)
  /\ Pop(p)
  /\ UNCHANGED <<wire, queues, replies, m_syncRequestID>>

\* The run loop takes its next function.
Take(p, f) ==
  /\ Idle(p)
  /\ functions[p] # <<>>
  /\ Head(functions[p]) = f
  /\ functions' = [functions EXCEPT ![p] = Tail(@)]

DispatchOneMessage(p) ==
  /\ Take(p, "dispatchOneMessage")
  /\ IF m_incomingMessages[p] = <<>> THEN UNCHANGED <<m_incomingMessages, stack>>
     ELSE /\ m_incomingMessages' = [m_incomingMessages EXCEPT ![p] = Tail(@)]
          /\ DispatchOn(p, <<>>, Head(m_incomingMessages[p]))
  /\ UNCHANGED <<ends, wire, m_messagesToDispatchWhileWaitingForSyncReply, m_didScheduleDispatchMessages,
                 replies, m_syncRequestID>>

\* Mutant of ResetDidSchedule: the work set is left alone.
ResetNothing(p) == UNCHANGED m_didScheduleDispatchMessages

ResetDidSchedule(p) == m_didScheduleDispatchMessages' = [m_didScheduleDispatchMessages EXCEPT ![p] = FALSE]

\* dispatchMessageAndResetDidScheduleDispatchMessagesForConnection().
DispatchScheduled(p) ==
  /\ Take(p, "dispatchMessages")
  /\ ResetDidSchedule(p)
  /\ Push(p, [call |-> "swap"])
  /\ UNCHANGED <<ends, wire, m_incomingMessages, m_messagesToDispatchWhileWaitingForSyncReply, replies, m_syncRequestID>>

\* dispatchMessages() takes all there are, for the run loop or a wait.
SwapMessages(p) ==
  /\ In(p, "swap") \/ WaitsAt(p, "dispatch")
  /\ LET c == Last(stack[p])
         below == IF c.call = "swap" THEN <<>> ELSE <<Waiting(c.id, "check")>>
     IN  stack' = [stack EXCEPT ![p] =
                     Front(@) \o below \o Dispatching(m_messagesToDispatchWhileWaitingForSyncReply[p])]
  /\ m_messagesToDispatchWhileWaitingForSyncReply' =
       [m_messagesToDispatchWhileWaitingForSyncReply EXCEPT ![p] = <<>>]
  /\ UNCHANGED <<ends, wire, m_incomingMessages, m_didScheduleDispatchMessages, functions, replies, m_syncRequestID>>

DispatchNext(p) ==
  /\ In(p, "dispatchMessages")
  /\ LET rest == Last(stack[p]).rest
     IN  DispatchOn(p, Front(stack[p]) \o Dispatching(Tail(rest)), Head(rest))
  /\ UNCHANGED <<ends, wire, queues, replies, m_syncRequestID>>

\* The function that connectionDidClose() dispatches.
DidClose(p) ==
  /\ Take(p, "didClose")
  /\ m_client' = [m_client EXCEPT ![p] = FALSE]
  /\ UNCHANGED <<alive, closed, invalidating, wire, m_incomingMessages, m_messagesToDispatchWhileWaitingForSyncReply,
                 m_didScheduleDispatchMessages, replies, stack, m_syncRequestID>>
-----------------------------------------------------------------------------
(* The main thread waits for a reply *)

\* sendSyncMessage() after waitForSyncReply(), with a reply or without.
ReturnFromSync(p, hasReply) ==
  /\ m_pendingSyncReplies' = [m_pendingSyncReplies EXCEPT ![p] = Front(@)]
  /\ stack' = [stack EXCEPT ![p] = Front(@) \o (IF hasReply THEN <<>> ELSE Failing(p))]

\* BinarySemaphore::wait(): it blocks unless it has been signalled before.
Wait(p) ==
  /\ m_isSet' = [m_isSet EXCEPT ![p] = FALSE]
  /\ Replace(p, Waiting(Last(stack[p]).id, IF m_isSet[p] THEN "dispatch" ELSE "wait"))

\* Is there a reply on top of the stack, or will there be none?
CheckReply(p) ==
  /\ WaitsAt(p, "check")
  /\ LET reply == Last(m_pendingSyncReplies[p]).didReceiveReply
     IN  IF reply \/ ~m_shouldWaitForSyncReplies[p] \/ ~m_client[p]
         THEN ReturnFromSync(p, reply) /\ UNCHANGED m_isSet
         ELSE Wait(p) /\ UNCHANGED m_pendingSyncReplies
  /\ UNCHANGED <<ends, wire, queues, m_shouldWaitForSyncReplies, m_syncRequestID>>

WakeUp(p) ==
  /\ WaitsAt(p, "wait")
  /\ m_isSet[p]
  /\ m_isSet' = [m_isSet EXCEPT ![p] = FALSE]
  /\ Replace(p, Waiting(Last(stack[p]).id, "dispatch"))
  /\ UNCHANGED <<ends, wire, queues, m_pendingSyncReplies, m_shouldWaitForSyncReplies, m_syncRequestID>>

\* timedWait() reports a timeout.  A signal may have come since the time was up:
\* wait() does not look at m_isSet again, and leaves it set.
TimeOut(p) ==
  /\ p \in Impatient
  /\ WaitsAt(p, "wait")
  /\ ReturnFromSync(p, FALSE)
  /\ UNCHANGED <<ends, wire, queues, m_shouldWaitForSyncReplies, m_isSet, m_syncRequestID>>
-----------------------------------------------------------------------------
(* The connection queue *)

\* Mutant of PendingFor: only the last request is looked at.
LastPendingFor(p, id) == {i \in {Len(m_pendingSyncReplies[p])} \ {0} : m_pendingSyncReplies[p][i].syncRequestID = id}

PendingFor(p, id) == {i \in DOMAIN m_pendingSyncReplies[p] : m_pendingSyncReplies[p][i].syncRequestID = id}

\* processIncomingSyncReply(): a reply that nobody waits for is ignored.
ProcessIncomingSyncReply(p, m) ==
  /\ m.kind = "reply"
  /\ m_pendingSyncReplies' = [m_pendingSyncReplies EXCEPT ![p] =
       [i \in DOMAIN @ |-> IF i \in PendingFor(p, m.id) THEN [@[i] EXCEPT !.didReceiveReply = TRUE] ELSE @[i]]]
  /\ m_isSet' = [m_isSet EXCEPT ![p] = @ \/ Len(m_pendingSyncReplies[p]) \in PendingFor(p, m.id)]
  /\ UNCHANGED <<queues, m_shouldWaitForSyncReplies>>

\* SyncMessageState::processIncomingMessage().
ProcessMarked(p, m) ==
  /\ m.marked
  /\ m_didScheduleDispatchMessages' = [m_didScheduleDispatchMessages EXCEPT ![p] = TRUE]
  /\ functions' = IF m_didScheduleDispatchMessages[p] THEN functions ELSE Put(functions, p, "dispatchMessages")
  /\ m_messagesToDispatchWhileWaitingForSyncReply' = Put(m_messagesToDispatchWhileWaitingForSyncReply, p, m)
  /\ m_isSet' = [m_isSet EXCEPT ![p] = TRUE]
  /\ UNCHANGED <<m_incomingMessages, m_pendingSyncReplies, m_shouldWaitForSyncReplies>>

EnqueueIncomingMessage(p, m) ==
  /\ m.kind # "reply" /\ ~m.marked
  /\ m_incomingMessages' = Put(m_incomingMessages, p, m)
  /\ functions' = Put(functions, p, "dispatchOneMessage")
  /\ UNCHANGED <<m_messagesToDispatchWhileWaitingForSyncReply, m_didScheduleDispatchMessages, replies>>

ProcessIncomingMessage(p) ==
  /\ alive[p] /\ ~closed[p]
  /\ wire[Other[p]] # <<>>
  /\ wire' = [wire EXCEPT ![Other[p]] = Tail(@)]
  /\ LET m == Head(wire[Other[p]])
     IN  ProcessIncomingSyncReply(p, m) \/ ProcessMarked(p, m) \/ EnqueueIncomingMessage(p, m)
  /\ UNCHANGED <<ends, stack, m_syncRequestID>>

\* The other end is closed and all it sent has been read.
ConnectionDidClose(p) ==
  /\ alive[p] /\ ~closed[p]
  /\ closed[Other[p]] /\ wire[Other[p]] = <<>>
  /\ closed' = [closed EXCEPT ![p] = TRUE]
  /\ m_shouldWaitForSyncReplies' = [m_shouldWaitForSyncReplies EXCEPT ![p] = FALSE]
  /\ m_isSet' = [m_isSet EXCEPT ![p] = @ \/ m_pendingSyncReplies[p] # <<>>]
  /\ functions' = Put(functions, p, "didClose")
  /\ UNCHANGED <<alive, m_client, invalidating, wire, m_incomingMessages, m_messagesToDispatchWhileWaitingForSyncReply,
                 m_didScheduleDispatchMessages, m_pendingSyncReplies, stack, m_syncRequestID>>

PlatformInvalidate(p) ==
  /\ alive[p]
  /\ invalidating[p]
  /\ invalidating' = [invalidating EXCEPT ![p] = FALSE]
  /\ closed' = [closed EXCEPT ![p] = TRUE]
  /\ wire' = [wire EXCEPT ![Other[p]] = <<>>]
  /\ UNCHANGED <<alive, m_client, queues, replies, stack, m_syncRequestID>>
-----------------------------------------------------------------------------
ClientCalls(p) == (\E flag \in BOOLEAN : Send(p, flag)) \/ SendSync(p) \/ InvalidateByClient(p)
MainSteps(p) ==
  \/ ReturnFromHandler(p) \/ DispatchOneMessage(p) \/ DispatchScheduled(p) \/ SwapMessages(p)
  \/ DispatchNext(p) \/ DidClose(p) \/ CheckReply(p) \/ WakeUp(p) \/ Exit(p)
  \/ Terminate(p) \/ DidReceiveInvalidMessage(p)
QueueSteps(p) == ProcessIncomingMessage(p) \/ ConnectionDidClose(p) \/ PlatformInvalidate(p)
Next == \E p \in Processes : ClientCalls(p) \/ Crash(p) \/ TimeOut(p) \/ MainSteps(p) \/ QueueSteps(p)

Spec == Init /\ [][Next]_vars

\* Handlers return, and the threads run.
FairSpec == Spec /\ \A p \in Processes : WF_vars(MainSteps(p)) /\ WF_vars(QueueSteps(p))
-----------------------------------------------------------------------------
(* Properties *)

Calls(p, call) == SelectSeq(stack[p], LAMBDA c : c.call = call)
WaitingIds(p) == LET s == Calls(p, "waitForSyncReply") IN [i \in DOMAIN s |-> s[i].id]

\* The messages that q has received and not dispatched, and those it handles.
Held(q) ==
  UNION {Range(m_incomingMessages[q]), Range(m_messagesToDispatchWhileWaitingForSyncReply[q]),
         UNION {Range(c.rest) : c \in Range(Calls(q, "dispatchMessages"))},
         {c.message : c \in Range(Calls(q, "handler"))}}

\* The pending replies are those of the calls that wait for them, in order (the
\* assertions of sendSyncMessage() and waitForSyncReply()).  While both ends stand
\* a request without its reply is on its way, or held by the other process, or its
\* reply is on its way: none is lost in a nested dispatchMessages(), between the
\* two queues, or among nested requests.
NoRequestIsLost ==
  /\ \A p \in Processes :
       [i \in DOMAIN m_pendingSyncReplies[p] |-> m_pendingSyncReplies[p][i].syncRequestID] = WaitingIds(p)
  /\ (\A p \in Processes : m_client[p] /\ ~closed[p]) =>
       \A p \in Processes : \A r \in Range(m_pendingSyncReplies[p]) :
         \/ r.didReceiveReply
         \/ \E m \in Range(wire[p]) \cup Held(Other[p]) : m.kind = "sync" /\ m.id = r.syncRequestID
         \/ Message("reply", FALSE, r.syncRequestID) \in Range(wire[Other[p]])

\* A message that has been received has a function in the run loop that will
\* dispatch it, even if it came while dispatchMessages() was at work.
ReceivedAreScheduled ==
  \A p \in Processes :
    /\ Len(m_incomingMessages[p]) = Len(SelectSeq(functions[p], LAMBDA f : f = "dispatchOneMessage"))
    /\ m_messagesToDispatchWhileWaitingForSyncReply[p] # <<>> =>
         Contains(functions[p], "dispatchMessages") \/ Calls(p, "swap") # <<>>

\* The main threads get back to their run loops: two processes that send each
\* other synchronous messages, nested at will, do not wait for each other for
\* ever, and nobody waits for a process that is gone.
MainThreadsReturn == []<>(\A p \in Processes : stack[p] = <<>>)
=============================================================================
