--------------------------- MODULE CommandChannel ---------------------------
(***************************************************************************)
(* The bounded command channel of game_persistence: PersistenceHandle      *)
(* (handle.rs) on the game thread, the worker loop (worker.rs) on its own  *)
(* thread, and the one-shot response channel every command carries.        *)
(*                                                                         *)
(* The game thread is the only caller: every handle of the server is used  *)
(* from systems that run one at a time.  It either sends and polls later   *)
(* (send_async) or sends and blocks on the response (dispatch).  Commands  *)
(* keep no content here; Persistence says what they do.                    *)
(***************************************************************************)
EXTENDS Naturals, Sequences

CONSTANTS
  Command,      \* what may be sent (CommandKind)
  Result,       \* what the worker may answer (Result<CommandResult, _>)
  Waiting,      \* response channel still empty
  Closed,       \* response channel disconnected: its sender was dropped
  Capacity,     \* buffered commands (DEFAULT_CHANNEL_CAPACITY is 256)
  MaxCommands   \* bound of the model: commands accepted in one process life

ASSUME ChannelAssumption ==
  /\ Capacity \in Nat \ {0}
  /\ MaxCommands \in Nat
  /\ Waiting # Closed
  /\ Waiting \notin Result
  /\ Closed \notin Result

VARIABLES
  log,      \* the accepted commands in order; a command's id is its index
  queue,    \* ids buffered in the channel, oldest first
  current,  \* id the worker is handling, 0 when it is waiting in recv()
  reply,    \* reply[id]: the response channel of each accepted command
  blocked,  \* id whose response the game thread is blocked on, or 0
  alive     \* the worker thread, which owns the receiver, is running

channelVars == <<log, queue, current, reply, blocked, alive>>

Ids == 1..Len(log)

TypeOK ==
  /\ log \in Seq(Command)
  /\ reply \in Seq(Result \cup {Waiting, Closed})
  /\ Len(reply) = Len(log)
  /\ queue \in Seq(Nat \ {0})
  /\ current \in 0..Len(log)
  /\ blocked \in 0..Len(log)
  /\ alive \in BOOLEAN

Init ==
  /\ log = <<>>
  /\ queue = <<>>
  /\ current = 0
  /\ reply = <<>>
  /\ blocked = 0
  /\ alive = TRUE

-----------------------------------------------------------------------------
(* The game thread.                                                        *)

\* try_send: refused when the buffer is full or the receiver is gone.
\* Mutant: one command more than fits.
QueueFullLate == alive /\ Len(queue) > Capacity

QueueFull == alive /\ Len(queue) >= Capacity
ChannelClosed == ~alive

\* Mutant: the id of the command before.
TrySendOldId(c) ==
  /\ ~ QueueFull
  /\ ~ ChannelClosed
  /\ Len(log) < MaxCommands
  /\ log' = Append(log, c)
  /\ queue' = Append(queue, Len(log))
  /\ reply' = Append(reply, Waiting)

TrySend(c) ==
  /\ ~ QueueFull
  /\ ~ ChannelClosed
  /\ Len(log) < MaxCommands
  /\ log' = Append(log, c)
  /\ queue' = Append(queue, Len(log) + 1)
  /\ reply' = Append(reply, Waiting)

\* Mutant: another thread of the server sends while one is blocked.
SendWhileBlocked(c) ==
  /\ TrySend(c)
  /\ UNCHANGED <<current, blocked, alive>>

SendAsync(c) ==
  /\ blocked = 0
  /\ TrySend(c)
  /\ UNCHANGED <<current, blocked, alive>>

Dispatch(c) ==
  /\ blocked = 0
  /\ TrySend(c)
  /\ blocked' = Len(log) + 1
  /\ UNCHANGED <<current, alive>>

\* rx.recv() of dispatch returns: an answer, or Closed.
DispatchReturn ==
  /\ blocked # 0
  /\ reply[blocked] # Waiting
  /\ blocked' = 0
  /\ UNCHANGED <<log, queue, current, reply, alive>>

-----------------------------------------------------------------------------
(* The worker thread.                                                      *)

\* Mutant: the newest command first.
WorkerReceiveNewest ==
  /\ alive
  /\ current = 0
  /\ queue # <<>>
  /\ current' = queue[Len(queue)]
  /\ queue' = SubSeq(queue, 1, Len(queue) - 1)
  /\ UNCHANGED <<log, reply, blocked, alive>>

WorkerReceive ==
  /\ alive
  /\ current = 0
  /\ queue # <<>>
  /\ current' = Head(queue)
  /\ queue' = Tail(queue)
  /\ UNCHANGED <<log, reply, blocked, alive>>

WorkerReply(r) ==
  /\ alive
  /\ current # 0
  /\ reply' = [reply EXCEPT ![current] = r]
  /\ current' = 0
  /\ UNCHANGED <<log, queue, blocked, alive>>

\* Mutant: the response senders outlive the worker.
WorkerExitSilent ==
  /\ alive
  /\ alive' = FALSE
  /\ queue' = <<>>
  /\ current' = 0
  /\ UNCHANGED <<log, reply, blocked>>

\* Mutant: answers that nobody has read yet are lost too.
WorkerExitForgets ==
  /\ alive
  /\ alive' = FALSE
  /\ queue' = <<>>
  /\ current' = 0
  /\ reply' = [i \in Ids |-> Closed]
  /\ UNCHANGED <<log, blocked>>

\* The thread dies (a panic in a handler).  Dropping the receiver drops the
\* buffered commands, and with them every response sender still held.
WorkerExit ==
  /\ alive
  /\ alive' = FALSE
  /\ queue' = <<>>
  /\ current' = 0
  /\ reply' = [i \in Ids |-> IF reply[i] = Waiting THEN Closed ELSE reply[i]]
  /\ UNCHANGED <<log, blocked>>

Next ==
  \/ \E c \in Command : SendAsync(c)
  \/ \E c \in Command : Dispatch(c)
  \/ DispatchReturn
  \/ WorkerReceive
  \/ \E r \in Result : WorkerReply(r)
  \/ WorkerExit

\* Threads are scheduled: the worker loop and a returned recv() go on.
Fairness ==
  /\ WF_channelVars(DispatchReturn)
  /\ WF_channelVars(WorkerReceive)
  /\ WF_channelVars(\E r \in Result : WorkerReply(r))

Safety == Init /\ [][Next]_channelVars

Spec == Safety /\ Fairness

-----------------------------------------------------------------------------
(* Properties.                                                             *)

\* The number of accepted commands without a response: those in the buffer and
\* the one in the worker's hands.
Unanswered == Len(queue) + (IF current = 0 THEN 0 ELSE 1)

\* Responses are given in the order the commands were accepted (try_send in
\* handle.rs, the recv loop of worker.rs): the unanswered commands are exactly
\* the last ones accepted, the worker holds the oldest of them, and the buffer
\* holds the rest in order.
InOrder ==
  /\ Unanswered <= Len(log)
  /\ \A k \in 1..Len(queue) : queue[k] = Len(log) - Len(queue) + k
  /\ current # 0 => current = Len(log) - Len(queue)
  /\ \A i \in Ids : reply[i] = Waiting <=> i > Len(log) - Unanswered

\* The buffer never exceeds its capacity, and only the command being handled
\* can be unanswered besides: the bound behind QueueFull.
Bounded == Len(queue) <= Capacity /\ Unanswered <= Capacity + 1

\* While the game thread is blocked in dispatch its command is the last one
\* accepted, so when the response arrives nothing is left to do: a blocking
\* call is a barrier behind every earlier send_async.  auth.rs relies on it when
\* it loads an inventory whose saves may still be in flight.
DispatchIsBarrier ==
  blocked # 0 =>
    /\ blocked = Len(log)
    /\ reply[blocked] # Waiting => Unanswered = 0

\* Every blocking call returns, even when the worker thread dies under it.
DispatchReturns == blocked # 0 ~> blocked = 0

\* The channel implements the abstract service (accepted commands are answered
\* in order, once, and all of them in the end), counting the command in the
\* worker's hands as outstanding.
Service ==
  INSTANCE CommandService WITH
    MaxOutstanding <- Capacity + 1,
    answers <- reply,
    firstOpen <- Len(log) - Unanswered + 1,
    open <- alive

ImplementsService == Service!ServiceSpec
=============================================================================
