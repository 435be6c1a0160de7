------------------------------- MODULE Movement -------------------------------
(***************************************************************************)
(* A player's input from its client to the physics: the messages on an     *)
(* unreliable, sequenced channel, the time since the last of them, the     *)
(* decoded input, and the jump.  The order of the two systems that write   *)
(* the input is left open; the physics comes after both.  Speeds and       *)
(* places are abstracted; whether a ray finds ground under the player is   *)
(* left open.                                                               *)
(***************************************************************************)
EXTENDS Naturals, Sequences

CONSTANTS
  InputTimeoutTicks,   \* INPUT_TIMEOUT, in ticks
  MaxSilence,          \* bound of the ticks counted
  InFlight,            \* bound of the messages on their way
  MaxPresses           \* bound: times the jump key goes down

ASSUME MovementAssumption ==
  /\ InputTimeoutTicks \in Nat \ {0}
  /\ MaxSilence \in Nat /\ MaxSilence > InputTimeoutTicks
  /\ InFlight \in Nat \ {0} /\ MaxPresses \in Nat

\* "press" is history: which press of the jump key the input is from.
Inputs == [gait : {"still", "walk", "run"}, jump : BOOLEAN, press : 0..MaxPresses]
Idle == [gait |-> "still", jump |-> FALSE, press |-> 0]
Still(i) == i.gait = "still" /\ ~i.jump

VARIABLES
  keys,        \* what the client's keys say
  wire,        \* messages on their way
  movement,    \* PlayerMovement
  replicated,  \* the gait in ReplicatedPlayerInput, which has no jump
  elapsed,     \* InputFreshness.elapsed
  latch,       \* JumpLatch
  toRun,       \* systems of this tick still to come
  jumped,      \* the velocity of the last tick is that of a jump
  silence,     \* history: ticks since a message was applied
  lastJump     \* history: the press that made the last jump, 0 after a timeout

movementVars == <<keys, wire, movement, replicated, elapsed, latch, toRun, jumped,
                  silence, lastJump>>

MovementInit ==
  /\ keys = Idle /\ wire = <<>>
  /\ movement = Idle /\ replicated = "still"
  /\ elapsed = 0 /\ latch = FALSE /\ toRun = {} /\ jumped = FALSE
  /\ silence = 0 /\ lastJump = 0

AtMost(n) == IF n > MaxSilence THEN MaxSilence ELSE n

Walks == \E gait \in {"still", "walk", "run"} :
  /\ gait # keys.gait /\ keys' = [keys EXCEPT !.gait = gait]
  /\ UNCHANGED <<wire, movement, replicated, elapsed, latch, toRun, jumped, silence,
                 lastJump>>

PressesJump ==
  /\ ~keys.jump /\ keys.press < MaxPresses
  /\ keys' = [keys EXCEPT !.jump = TRUE, !.press = @ + 1]
  /\ UNCHANGED <<wire, movement, replicated, elapsed, latch, toRun, jumped, silence,
                 lastJump>>

ReleasesJump ==
  /\ keys.jump /\ keys' = [keys EXCEPT !.jump = FALSE]
  /\ UNCHANGED <<wire, movement, replicated, elapsed, latch, toRun, jumped, silence,
                 lastJump>>

\* The client sends its input every tick, whether it has changed or not.
SendInput ==
  /\ wire' = IF Len(wire) < InFlight THEN Append(wire, keys) ELSE Append(Tail(wire), keys)
  /\ UNCHANGED <<keys, movement, replicated, elapsed, latch, toRun, jumped, silence,
                 lastJump>>

FixedTick ==
  /\ toRun = {} /\ toRun' = {"apply", "stop", "move"}
  /\ silence' = AtMost(silence + 1)
  /\ UNCHANGED <<keys, wire, movement, replicated, elapsed, latch, jumped, lastJump>>

\* Of the messages that have arrived the newest counts; older ones are lost.
ApplyClientInput ==
  /\ "apply" \in toRun /\ toRun' = toRun \ {"apply"}
  /\ \E n \in 0..Len(wire) :
       /\ wire' = SubSeq(wire, n + 1, Len(wire))
       /\ IF n = 0 THEN UNCHANGED <<movement, replicated, elapsed, silence>>
          ELSE /\ movement' = wire[n]
               /\ replicated' = wire[n].gait
               /\ elapsed' = 0 /\ silence' = 0
  /\ UNCHANGED <<keys, latch, jumped, lastJump>>

\* Mutant: the replicated input is not cleared.
StopOneInput ==
  /\ "stop" \in toRun /\ toRun' = toRun \ {"stop"}
  /\ elapsed' = AtMost(elapsed + 1)
  /\ IF elapsed' < InputTimeoutTicks THEN UNCHANGED <<movement, replicated, lastJump>>
     ELSE movement' = Idle /\ lastJump' = 0 /\ UNCHANGED replicated
  /\ UNCHANGED <<keys, wire, latch, jumped, silence>>
\* advance_input_silence: the input is cleared on every tick from the timeout on.
StopStalePlayerInput ==
  /\ "stop" \in toRun /\ toRun' = toRun \ {"stop"}
  /\ elapsed' = AtMost(elapsed + 1)
  /\ IF elapsed' < InputTimeoutTicks THEN UNCHANGED <<movement, replicated, lastJump>>
     ELSE movement' = Idle /\ replicated' = "still" /\ lastJump' = 0
  /\ UNCHANGED <<keys, wire, latch, jumped, silence>>

\* apply_predicted_movement: a jump needs the ground and a key that was up before.
\* Mutant: no latch.
JumpsAgain(grounded) == movement.jump /\ grounded
Jumps(grounded) == movement.jump /\ ~latch /\ grounded

ApplyMovement(grounded) ==
  /\ toRun = {"move"} /\ toRun' = {}
  /\ latch' = movement.jump
  /\ jumped' = Jumps(grounded)
  /\ lastJump' = IF Jumps(grounded) THEN movement.press ELSE lastJump
  /\ UNCHANGED <<keys, wire, movement, replicated, elapsed, silence>>

MovementNext ==
  \/ Walks \/ PressesJump \/ ReleasesJump \/ SendInput
  \/ FixedTick \/ ApplyClientInput \/ StopStalePlayerInput
  \/ \E grounded \in BOOLEAN : ApplyMovement(grounded)

MovementSpec == MovementInit /\ [][MovementNext]_movementVars

-----------------------------------------------------------------------------
MovementTypeOK ==
  /\ keys \in Inputs /\ wire \in Seq(Inputs) /\ Len(wire) <= InFlight
  /\ movement \in Inputs /\ replicated \in {"still", "walk", "run"}
  /\ elapsed \in 0..MaxSilence /\ latch \in BOOLEAN /\ jumped \in BOOLEAN
  /\ toRun \subseteq {"apply", "stop", "move"}
  /\ silence \in 0..MaxSilence /\ lastJump \in 0..MaxPresses

\* A player whose client has been silent for longer than the timeout stands still,
\* whichever of the two systems runs first.
SilentStandsStill ==
  toRun = {} /\ silence > InputTimeoutTicks => Still(movement) /\ replicated = "still"

\* One press of the jump key makes at most one jump, however many messages repeat it
\* and whichever are lost, unless the server gave the client up in between.
OneJumpPerPress ==
  [][toRun = {"move"} /\ toRun' = {} /\ jumped' => movement.press # lastJump]_movementVars
=============================================================================
