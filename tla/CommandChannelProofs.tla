------------------------ MODULE CommandChannelProofs ------------------------
(***************************************************************************)
(* Proofs about CommandChannel, for every set of commands and results and  *)
(* every capacity.  The inductive invariant adds to the type invariant and *)
(* to InOrder two facts about the threads: a blocked game thread sends     *)
(* nothing more, so its command stays the last one; and a dead worker      *)
(* leaves no command behind.                                               *)
(***************************************************************************)
EXTENDS CommandChannel, TLAPS

BlockedIsLast == blocked # 0 => blocked = Len(log)

DeadWorkerHoldsNothing == ~alive => queue = <<>> /\ current = 0

ChannelInv ==
  /\ TypeOK
  /\ InOrder
  /\ Len(queue) <= Capacity
  /\ BlockedIsLast
  /\ DeadWorkerHoldsNothing

USE ChannelAssumption

\* Nothing is accepted, queued or answered when the server starts.
LEMMA InitEstablishes == Init => ChannelInv
BY DEF Init, ChannelInv, TypeOK, InOrder, Unanswered, Ids, BlockedIsLast,
       DeadWorkerHoldsNothing

\* A successful try_send puts the new id at the end of the unanswered ones.
LEMMA TrySendPreserves ==
  ASSUME ChannelInv, NEW c \in Command, TrySend(c), blocked = 0,
         current' = current, alive' = alive, blocked' \in {0, Len(log) + 1}
  PROVE  ChannelInv'
<1>1. /\ Len(log) \in Nat /\ Len(queue) \in Nat
      /\ current \in 0..Len(log)
      /\ Unanswered \in Nat
  BY DEF ChannelInv, TypeOK, Unanswered
<1>2. /\ Len(log') = Len(log) + 1
      /\ Len(queue') = Len(queue) + 1
      /\ queue'[Len(queue) + 1] = Len(log) + 1
      /\ \A k \in 1..Len(queue) : queue'[k] = queue[k]
      /\ reply'[Len(log) + 1] = Waiting
      /\ \A i \in 1..Len(log) : reply'[i] = reply[i]
  BY DEF ChannelInv, TypeOK, TrySend
<1>3. TypeOK'
  BY DEF ChannelInv, TypeOK, TrySend
<1>4. InOrder'
  <2>1. Unanswered' = Unanswered + 1
    BY <1>1, <1>2 DEF Unanswered
  <2>2. /\ Unanswered <= Len(log)
        /\ \A k \in 1..Len(queue) : queue[k] = Len(log) - Len(queue) + k
        /\ current # 0 => current = Len(log) - Len(queue)
        /\ \A i \in 1..Len(log) : reply[i] = Waiting <=> i > Len(log) - Unanswered
    BY DEF ChannelInv, InOrder, Ids
  <2>3. \A k \in 1..Len(queue') : queue'[k] = Len(log') - Len(queue') + k
    BY <1>1, <1>2, <2>2
  <2>4. current' # 0 => current' = Len(log') - Len(queue')
    BY <1>1, <1>2, <2>2
  <2>5. \A i \in 1..Len(log') : reply'[i] = Waiting <=> i > Len(log') - Unanswered'
    BY <1>1, <1>2, <2>1, <2>2
  <2>6. QED
    BY <1>1, <1>2, <2>1, <2>2, <2>3, <2>4, <2>5 DEF InOrder, Ids
<1>5. Len(queue') <= Capacity
  BY <1>1, <1>2 DEF ChannelInv, TrySend, QueueFull, ChannelClosed
<1>6. BlockedIsLast' /\ DeadWorkerHoldsNothing'
  BY <1>2 DEF BlockedIsLast, DeadWorkerHoldsNothing, TrySend, ChannelClosed
<1>7. QED
  BY <1>3, <1>4, <1>5, <1>6 DEF ChannelInv

\* The blocked thread resumes; the channel is untouched.
LEMMA ReturnPreserves == ChannelInv /\ DispatchReturn => ChannelInv'
BY DEF ChannelInv, TypeOK, InOrder, Unanswered, Ids, BlockedIsLast,
       DeadWorkerHoldsNothing, DispatchReturn

\* The worker moves the oldest buffered id into its hands.
LEMMA ReceivePreserves == ChannelInv /\ WorkerReceive => ChannelInv'
<1> SUFFICES ASSUME ChannelInv, WorkerReceive PROVE ChannelInv'
  OBVIOUS
<1>1. /\ Len(queue) \in Nat \ {0}
      /\ Len(queue') = Len(queue) - 1
      /\ \A k \in 1..Len(queue') : queue'[k] = queue[k + 1]
      /\ queue' \in Seq(Nat \ {0})
      /\ current' = queue[1]
      /\ queue[1] \in Nat \ {0}
  BY DEF ChannelInv, TypeOK, WorkerReceive
<1>2. /\ current = 0
      /\ log' = log /\ reply' = reply /\ blocked' = blocked /\ alive' = alive
      /\ alive
      /\ Len(log) \in Nat
  BY DEF ChannelInv, TypeOK, WorkerReceive
<1>3. Unanswered' = Unanswered
  BY <1>1, <1>2 DEF Unanswered
<1>4. /\ \A k \in 1..Len(queue) : queue[k] = Len(log) - Len(queue) + k
      /\ Len(queue) <= Len(log)
  BY <1>1, <1>2 DEF ChannelInv, InOrder, Unanswered
<1>5. current' = Len(log') - Len(queue')
  BY <1>1, <1>2, <1>4
<1>6. InOrder'
  <2>1. ASSUME NEW k \in 1..Len(queue')
        PROVE  queue'[k] = Len(log') - Len(queue') + k
    <3>1. k + 1 \in 1..Len(queue) /\ queue'[k] = queue[k + 1]
      BY <1>1
    <3>2. queue[k + 1] = Len(log) - Len(queue) + (k + 1)
      BY <1>4, <3>1
    <3>3. QED
      BY <1>1, <1>2, <3>1, <3>2
  <2>2. QED
    BY <1>2, <1>3, <1>5, <2>1 DEF ChannelInv, InOrder, Ids
<1>7. TypeOK'
  BY <1>1, <1>2, <1>4, <1>5 DEF ChannelInv, TypeOK
<1>8. QED
  BY <1>1, <1>2, <1>6, <1>7 DEF ChannelInv, BlockedIsLast, DeadWorkerHoldsNothing

\* The answered command was the oldest unanswered one.
LEMMA ReplyPreserves ==
  ASSUME ChannelInv, NEW r \in Result, WorkerReply(r)
  PROVE  ChannelInv'
<1>1. TypeOK'
  BY DEF ChannelInv, TypeOK, WorkerReply
<1>2. InOrder'
  BY DEF ChannelInv, TypeOK, Ids, WorkerReply, InOrder, Unanswered
<1>3. QED
  BY <1>1, <1>2 DEF ChannelInv, WorkerReply, BlockedIsLast, DeadWorkerHoldsNothing

\* The dying worker closes every response channel it still owes.
LEMMA ExitPreserves == ChannelInv /\ WorkerExit => ChannelInv'
<1> SUFFICES ASSUME ChannelInv, WorkerExit PROVE ChannelInv'
  OBVIOUS
<1>1. /\ reply' \in Seq(Result \cup {Waiting, Closed})
      /\ Len(reply') = Len(log)
      /\ \A i \in 1..Len(log) : reply'[i] # Waiting
  <2>1. \A i \in 1..Len(log) : reply[i] \in Result \cup {Waiting, Closed}
    BY DEF ChannelInv, TypeOK
  <2>2. Len(log) \in Nat
    BY DEF ChannelInv, TypeOK
  <2>3. QED
    BY <2>1, <2>2 DEF WorkerExit, Ids
<1>2. /\ queue' = <<>> /\ current' = 0 /\ alive' = FALSE
      /\ log' = log /\ blocked' = blocked
      /\ Len(log) \in Nat
  BY DEF ChannelInv, TypeOK, WorkerExit
<1>3. TypeOK'
  <2>1. /\ queue' \in Seq(Nat \ {0})
        /\ current' \in 0..Len(log')
        /\ alive' \in BOOLEAN
    <3>1. alive' \in BOOLEAN
      BY <1>2, Zenon
    <3>2. queue' \in Seq(Nat \ {0})
      BY <1>2, SMT
    <3>3. current' \in 0..Len(log')
      BY <1>2, SMT
    <3>4. QED
      BY <3>1, <3>2, <3>3
  <2>2. log' \in Seq(Command) /\ blocked' \in 0..Len(log')
    BY <1>2 DEF ChannelInv, TypeOK
  <2>3. QED
    BY <1>1, <1>2, <2>1, <2>2 DEF TypeOK
<1>4. InOrder'
  BY <1>1, <1>2 DEF InOrder, Unanswered, Ids
<1>5. QED
  BY <1>2, <1>3, <1>4 DEF ChannelInv, BlockedIsLast, DeadWorkerHoldsNothing

LEMMA StepPreserves == ChannelInv /\ [Next]_channelVars => ChannelInv'
<1> SUFFICES ASSUME ChannelInv, [Next]_channelVars PROVE ChannelInv'
  OBVIOUS
<1>1. ASSUME NEW c \in Command, SendAsync(c) PROVE ChannelInv'
  BY <1>1, TrySendPreserves DEF SendAsync
<1>2. ASSUME NEW c \in Command, Dispatch(c) PROVE ChannelInv'
  BY <1>2, TrySendPreserves DEF Dispatch
<1>3. CASE DispatchReturn
  BY <1>3, ReturnPreserves
<1>4. CASE WorkerReceive
  BY <1>4, ReceivePreserves
<1>5. ASSUME NEW r \in Result, WorkerReply(r) PROVE ChannelInv'
  BY <1>5, ReplyPreserves
<1>6. CASE WorkerExit
  BY <1>6, ExitPreserves
<1>7. CASE UNCHANGED channelVars
  BY <1>7 DEF channelVars, ChannelInv, TypeOK, InOrder, Unanswered, Ids,
              BlockedIsLast, DeadWorkerHoldsNothing
<1>8. QED
  BY <1>1, <1>2, <1>3, <1>4, <1>5, <1>6, <1>7 DEF Next

\* ChannelInv holds in every reachable state.
THEOREM ChannelInvariant == Safety => []ChannelInv
BY InitEstablishes, StepPreserves, PTL DEF Safety

\* Every accepted command keeps a typed response channel, and queue, worker and
\* game thread only ever name accepted commands.
THEOREM TypeCorrect == Safety => []TypeOK
<1>1. ChannelInv => TypeOK
  BY DEF ChannelInv
<1>2. QED
  BY <1>1, ChannelInvariant, PTL

\* Responses are given in the order the commands were accepted.
THEOREM AnswersInOrder == Safety => []InOrder
<1>1. ChannelInv => InOrder
  BY DEF ChannelInv
<1>2. QED
  BY <1>1, ChannelInvariant, PTL

\* The invariant bounds what is unanswered.
LEMMA InvIsBounded == ChannelInv => Bounded
BY DEF ChannelInv, TypeOK, Bounded, Unanswered

\* Buffer and unanswered commands are bounded by the capacity.
THEOREM ChannelBounded == Safety => []Bounded
BY InvIsBounded, ChannelInvariant, PTL

\* The invariant makes a call a barrier.
LEMMA InvIsBarrier == ChannelInv => DispatchIsBarrier
<1> SUFFICES ASSUME ChannelInv, blocked # 0, reply[blocked] # Waiting
             PROVE  Unanswered = 0
  BY DEF DispatchIsBarrier, ChannelInv, BlockedIsLast
<1>1. blocked = Len(log) /\ blocked \in Ids
  BY DEF ChannelInv, TypeOK, BlockedIsLast, Ids
<1>2. ~ (Len(log) > Len(log) - Unanswered)
  BY <1>1 DEF ChannelInv, InOrder
<1>3. QED
  BY <1>2 DEF ChannelInv, TypeOK, Unanswered

\* A blocking call returns only once every earlier command has been answered.
THEOREM Barrier == Safety => []DispatchIsBarrier
BY InvIsBarrier, ChannelInvariant, PTL

-----------------------------------------------------------------------------
(* What DispatchReturns rests on besides the scheduling of the threads.    *)

\* What the worker has left to do: each command is received and then answered.
Work == 2 * Len(queue) + (IF current = 0 THEN 0 ELSE 1)

\* A blocked call has its answer, or there is a worker that has its command.
CallIsServed ==
  blocked # 0 => \/ reply[blocked] # Waiting
                 \/ alive /\ (current = blocked \/ \E k \in 1..Len(queue) : queue[k] = blocked)

\* While a call is blocked nothing is added for the worker to do before it: every step
\* that does not end the call leaves less of it, or is the end of the worker.
BlockedCallsAdvance ==
  [][blocked # 0 /\ blocked' # 0 => blocked' = blocked /\ (Work' < Work \/ ~ alive')]_channelVars

\* The invariant leaves no call without a worker.
LEMMA InvServesCalls == ChannelInv => CallIsServed
<1> SUFFICES ASSUME ChannelInv, blocked # 0, reply[blocked] = Waiting
             PROVE  alive /\ (current = blocked \/ \E k \in 1..Len(queue) : queue[k] = blocked)
  BY DEF CallIsServed
<1>1. /\ Len(queue) \in Nat /\ Len(log) \in Nat /\ blocked \in Ids /\ blocked = Len(log)
      /\ current \in 0..Len(log)
  BY DEF ChannelInv, TypeOK, BlockedIsLast, Ids
<1>2. Len(log) > Len(log) - Unanswered
  BY <1>1 DEF ChannelInv, InOrder
<1>3. alive
  BY <1>1, <1>2 DEF ChannelInv, DeadWorkerHoldsNothing, Unanswered
<1>4. CASE queue = <<>>
  BY <1>1, <1>2, <1>3, <1>4 DEF ChannelInv, InOrder, Unanswered
<1>5. CASE queue # <<>>
  <2>1. Len(queue) \in 1..Len(queue)
    BY <1>1, <1>5 DEF ChannelInv, TypeOK
  <2>2. queue[Len(queue)] = Len(log) - Len(queue) + Len(queue)
    BY <2>1 DEF ChannelInv, InOrder
  <2> QED
    BY <1>1, <1>3, <2>1, <2>2
<1> QED
  BY <1>4, <1>5

\* The game thread and the worker never wait for each other: in no state does dispatch
\* block on a command that nobody will answer, whether it is full, idle or dying.
THEOREM CallsAreServed == Safety => []CallIsServed
BY InvServesCalls, ChannelInvariant, PTL

\* What a module that uses the channel needs of it.
LEMMA InvKeepsPromises == ChannelInv => Bounded /\ DispatchIsBarrier /\ CallIsServed
BY InvIsBounded, InvIsBarrier, InvServesCalls

\* A blocked call is only ever so many steps of the worker from its answer, and no step of
\* the game thread comes between: only an unscheduled thread could keep it from returning.
THEOREM CallsAdvance == Safety => BlockedCallsAdvance
<1>1. ASSUME ChannelInv, Next, blocked # 0, blocked' # 0
      PROVE  blocked' = blocked /\ (Work' < Work \/ ~ alive')
  <2>1. Len(queue) \in Nat /\ queue \in Seq(Nat \ {0}) /\ current \in Nat
    BY <1>1 DEF ChannelInv, TypeOK
  <2>2. CASE WorkerReceive
    <3>1. /\ blocked' = blocked /\ current = 0 /\ queue # <<>> /\ queue' = Tail(queue)
          /\ current' = Head(queue)
      BY <2>2 DEF WorkerReceive
    <3>2. Len(queue') = Len(queue) - 1 /\ current' # 0
      BY <2>1, <3>1
    <3> QED
      BY <2>1, <3>1, <3>2 DEF Work
  <2>3. ASSUME NEW r \in Result, WorkerReply(r)
        PROVE  blocked' = blocked /\ Work' < Work
    BY <2>1, <2>3 DEF WorkerReply, Work
  <2>4. CASE WorkerExit
    BY <2>4 DEF WorkerExit
  <2>5. ~ DispatchReturn /\ \A c \in Command : ~ SendAsync(c) /\ ~ Dispatch(c)
    BY <1>1 DEF DispatchReturn, SendAsync, Dispatch
  <2> QED
    BY <1>1, <2>2, <2>3, <2>4, <2>5 DEF Next
<1>2. ChannelInv /\ [Next]_channelVars =>
        [blocked # 0 /\ blocked' # 0 =>
           blocked' = blocked /\ (Work' < Work \/ ~ alive')]_channelVars
  BY <1>1
<1> QED
  BY <1>2, ChannelInvariant, PTL DEF Safety, BlockedCallsAdvance

-----------------------------------------------------------------------------
(* The safety part of the refinement: every step of the channel is a step  *)
(* of the service or leaves it unchanged.                                  *)

LEMMA InitRefines == Init => Service!ServiceInit
BY DEF Init, Unanswered, Service!ServiceInit

LEMMA TrySendRefines ==
  ASSUME ChannelInv, NEW c \in Command, TrySend(c), current' = current, alive' = alive
  PROVE  Service!Accept
BY DEF ChannelInv, TypeOK, TrySend, QueueFull, ChannelClosed, Unanswered, InOrder,
       Service!Accept, Service!Outstanding

LEMMA ReplyRefines ==
  ASSUME ChannelInv, NEW r \in Result, WorkerReply(r)
  PROVE  Service!Answer
<1>1. Len(log) - Unanswered + 1 = current
  BY DEF ChannelInv, TypeOK, WorkerReply, InOrder, Unanswered
<1>2. Len(log') - Unanswered' + 1 = (Len(log) - Unanswered + 1) + 1
  BY DEF ChannelInv, TypeOK, WorkerReply, Unanswered
<1>3. current <= Len(reply) /\ alive /\ alive' = alive
  BY DEF ChannelInv, TypeOK, WorkerReply
<1>4. reply' = [reply EXCEPT ![current] = r]
  BY DEF WorkerReply
<1>5. QED
  BY <1>1, <1>2, <1>3, <1>4 DEF Service!Answer

LEMMA ExitRefines == ChannelInv /\ WorkerExit => Service!Close
<1> SUFFICES ASSUME ChannelInv, WorkerExit PROVE Service!Close
  OBVIOUS
<1> USE DEF ChannelInv, TypeOK, WorkerExit, Ids
<1>1. Len(log') - Unanswered' + 1 = Len(reply) + 1
  BY DEF Unanswered
<1>2. reply' = [i \in 1..Len(reply) |->
                  IF i < Len(log) - Unanswered + 1 THEN reply[i] ELSE Closed]
  BY DEF InOrder, Unanswered
<1>3. QED
  BY <1>1, <1>2 DEF Service!Close

LEMMA StepRefines ==
  ChannelInv /\ [Next]_channelVars => [Service!ServiceNext]_(Service!serviceVars)
<1> SUFFICES ASSUME ChannelInv, [Next]_channelVars
             PROVE  [Service!ServiceNext]_(Service!serviceVars)
  OBVIOUS
<1> USE DEF Service!ServiceNext
<1>1. ASSUME NEW c \in Command, SendAsync(c) PROVE Service!Accept
  BY <1>1, TrySendRefines DEF SendAsync
<1>2. ASSUME NEW c \in Command, Dispatch(c) PROVE Service!Accept
  BY <1>2, TrySendRefines DEF Dispatch
<1>3. CASE DispatchReturn
  BY <1>3 DEF DispatchReturn, Service!serviceVars, Unanswered
<1>4. CASE WorkerReceive
  <2>1. Unanswered' = Unanswered
    BY <1>4 DEF WorkerReceive, ChannelInv, TypeOK, InOrder, Unanswered
  <2>2. QED
    BY <1>4, <2>1 DEF WorkerReceive, Service!serviceVars
<1>5. ASSUME NEW r \in Result, WorkerReply(r) PROVE Service!Answer
  BY <1>5, ReplyRefines
<1>6. CASE WorkerExit
  BY <1>6, ExitRefines
<1>7. CASE UNCHANGED channelVars
  BY <1>7 DEF channelVars, Service!serviceVars, Unanswered
<1>8. QED
  BY <1>1, <1>2, <1>3, <1>4, <1>5, <1>6, <1>7 DEF Next

\* The channel implements the safety part of the abstract service: in-order,
\* once-only answers and the bound on outstanding commands.
THEOREM ChannelImplementsService == Safety => Service!ServiceSafety
BY InitRefines, StepRefines, ChannelInvariant, PTL DEF Safety, Service!ServiceSafety
=============================================================================
