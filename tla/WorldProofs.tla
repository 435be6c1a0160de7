---------------------------- MODULE WorldProofs -----------------------------
(***************************************************************************)
(* Proofs about what players see and do in the world: their movement, what *)
(* the server lets them see, and the plots they build on, for every number *)
(* of clients, plots and messages in flight; and the rules of the game as  *)
(* GameState has them, for any players, creatures, plots, resources and    *)
(* sizes: what was collected is still there, and the checksum does not see *)
(* the order of the lists.  Both rest on the lists naming no key twice,    *)
(* the first also on every item that leaves one list entering another.     *)
(***************************************************************************)
EXTENDS Movement, Visibility, Housing, GameState, InventoryProofs

-----------------------------------------------------------------------------
(* Movement: silence, and one jump for one press. *)

\* Press and release take turns, so of two inputs the earlier has the smaller press, or
\* the same press not yet released.
Before(a, b) == a.press < b.press \/ (a.press = b.press /\ (b.jump => a.jump))
RealPress(i) == i.jump => i.press # 0

\* What the server has applied, what is on its way and what the keys say are in the order
\* in which the player made them.
InOrderOfPlay ==
  /\ RealPress(keys) /\ RealPress(movement)
  /\ Before(movement, keys)
  /\ \A i \in 1..Len(wire) :
       /\ RealPress(wire[i]) /\ Before(movement, wire[i]) /\ Before(wire[i], keys)
  /\ \A i, j \in 1..Len(wire) : i < j => Before(wire[i], wire[j])

LatchHolds ==
  /\ lastJump <= movement.press
  /\ movement.jump /\ movement.press = lastJump => latch

SilenceIsNoticed ==
  /\ silence <= elapsed + (IF "stop" \in toRun THEN 1 ELSE 0)
  /\ elapsed >= InputTimeoutTicks => Still(movement) /\ replicated = "still"

JumpInv == MovementTypeOK /\ InOrderOfPlay /\ LatchHolds
SilenceInv == MovementTypeOK /\ SilenceIsNoticed

USE MovementAssumption DEF MovementAssumption

\* The bound of the tick counters.
LEMMA AtMostBound ==
  ASSUME NEW n \in Nat
  PROVE  AtMost(n) \in 0..MaxSilence /\ AtMost(n) <= n
           /\ (AtMost(n) = n \/ AtMost(n) = MaxSilence)
BY DEF AtMost

\* The members of Inputs.
LEMMA IdleIsInput == Idle \in Inputs
BY DEF Idle, Inputs

\* The fields of an input.
LEMMA InputParts ==
  ASSUME NEW i \in Inputs
  PROVE  i.gait \in {"still", "walk", "run"} /\ i.jump \in BOOLEAN /\ i.press \in 0..MaxPresses
BY DEF Inputs

\* An input with another jump key is an input.
LEMMA InputPressed ==
  ASSUME NEW i \in Inputs, NEW jump \in BOOLEAN, NEW press \in 0..MaxPresses
  PROVE  [i EXCEPT !.jump = jump, !.press = press] \in Inputs
BY DEF Inputs

\* Every step of the two sides keeps the inputs, the counters and the schedule in their
\* ranges.
LEMMA MovementTypeStep ==
  ASSUME MovementTypeOK, [MovementNext]_movementVars
  PROVE  MovementTypeOK'
<1> USE DEF MovementTypeOK
<1>1. CASE Walks
  BY <1>1 DEF Walks, Inputs
<1>2. CASE PressesJump
  <2>1. keys.press + 1 \in 0..MaxPresses
    BY <1>2, InputParts DEF PressesJump
  <2>2. keys' = [keys EXCEPT !.jump = TRUE, !.press = keys.press + 1]
    BY <1>2 DEF PressesJump
  <2>3. keys' \in Inputs
    BY <2>1, <2>2, InputPressed
  <2> QED
    BY <1>2, <2>3 DEF PressesJump
<1>3. CASE ReleasesJump
  BY <1>3 DEF ReleasesJump, Inputs
<1>4. CASE SendInput
  <2>1. CASE Len(wire) < InFlight
    BY <1>4, <2>1, AppendProperties DEF SendInput
  <2>2. CASE ~(Len(wire) < InFlight)
    <3>1. wire # <<>>
      BY <2>2
    <3>2. Tail(wire) \in Seq(Inputs) /\ Len(Tail(wire)) = Len(wire) - 1
      BY <3>1, HeadTailProperties
    <3>3. wire' = Append(Tail(wire), keys)
      BY <1>4, <2>2 DEF SendInput
    <3>4. wire' \in Seq(Inputs) /\ Len(wire') = Len(wire)
      BY <3>2, <3>3, AppendProperties
    <3> QED
      BY <1>4, <3>4 DEF SendInput
  <2> QED
    BY <2>1, <2>2
<1>5. CASE FixedTick
  BY <1>5, AtMostBound DEF FixedTick
<1>6. CASE ApplyClientInput
  <2>1. PICK n \in 0..Len(wire) :
          /\ wire' = SubSeq(wire, n + 1, Len(wire))
          /\ IF n = 0 THEN UNCHANGED <<movement, replicated, elapsed, silence>>
             ELSE /\ movement' = wire[n]
                  /\ replicated' = wire[n].gait
                  /\ elapsed' = 0 /\ silence' = 0
    BY <1>6 DEF ApplyClientInput
  <2>2. wire' \in Seq(Inputs) /\ Len(wire') <= InFlight
    BY <2>1, SubSeqProperties
  <2>3. n # 0 => wire[n] \in Inputs /\ wire[n].gait \in {"still", "walk", "run"}
    BY ElementOfSeq, InputParts
  <2> QED
    BY <1>6, <2>1, <2>2, <2>3 DEF ApplyClientInput
<1>7. CASE StopStalePlayerInput
  <2>1. elapsed' \in 0..MaxSilence
    BY <1>7, AtMostBound DEF StopStalePlayerInput
  <2>2. movement' \in Inputs /\ replicated' \in {"still", "walk", "run"}
    BY <1>7, IdleIsInput DEF StopStalePlayerInput
  <2>3. lastJump' \in 0..MaxPresses
    BY <1>7 DEF StopStalePlayerInput
  <2> QED
    BY <1>7, <2>1, <2>2, <2>3 DEF StopStalePlayerInput
<1>8. ASSUME NEW grounded \in BOOLEAN, ApplyMovement(grounded)
      PROVE  MovementTypeOK'
  BY <1>8 DEF ApplyMovement, Jumps, Inputs
<1>9. CASE UNCHANGED movementVars
  BY <1>9 DEF movementVars
<1> QED
  BY <1>1, <1>2, <1>3, <1>4, <1>5, <1>6, <1>7, <1>8, <1>9 DEF MovementNext

\* The ranges hold at the start.
LEMMA MovementTypeInit ==
  ASSUME MovementInit
  PROVE  MovementTypeOK
<1> USE DEF MovementInit
<1>1. wire \in Seq(Inputs) /\ Len(wire) = 0
  OBVIOUS
<1>2. keys \in Inputs /\ movement \in Inputs
  BY IdleIsInput
<1>3. /\ elapsed \in 0..MaxSilence /\ silence \in 0..MaxSilence /\ lastJump \in 0..MaxPresses
  OBVIOUS
<1>4. latch \in BOOLEAN /\ jumped \in BOOLEAN
  OBVIOUS
<1> QED
  BY <1>1, <1>2, <1>3, <1>4 DEF MovementTypeOK

\* apply_client_input and stop_stale_player_input together notice the silence: the counter
\* of ticks without an input never falls behind the real silence by more than the tick in
\* which the second of the two has not run yet.
LEMMA SilenceStep ==
  ASSUME SilenceInv, [MovementNext]_movementVars
  PROVE  SilenceInv'
<1>t. MovementTypeOK /\ MovementTypeOK'
  BY MovementTypeStep DEF SilenceInv
<1> SUFFICES SilenceIsNoticed'
  BY <1>t DEF SilenceInv
<1> USE DEF SilenceIsNoticed
<1>s. SilenceIsNoticed
  BY DEF SilenceInv
<1>n. elapsed \in 0..MaxSilence /\ silence \in 0..MaxSilence
  BY <1>t DEF MovementTypeOK
<1>1. CASE Walks \/ PressesJump \/ ReleasesJump \/ SendInput
  BY <1>1, <1>s DEF Walks, PressesJump, ReleasesJump, SendInput
<1>2. CASE FixedTick
  <2>1. silence' <= silence + 1
    BY <1>2, <1>n, AtMostBound DEF FixedTick
  <2> QED
    BY <1>2, <1>s, <1>n, <1>t, <2>1 DEF FixedTick, MovementTypeOK
<1>3. CASE ApplyClientInput
  BY <1>3, <1>s DEF ApplyClientInput
<1>4. CASE StopStalePlayerInput
  <2>1. silence <= elapsed'
    BY <1>4, <1>s, <1>n, AtMostBound DEF StopStalePlayerInput
  <2>2. elapsed' >= InputTimeoutTicks => Still(movement') /\ replicated' = "still"
    <3> SUFFICES ASSUME elapsed' >= InputTimeoutTicks
                 PROVE  Still(movement') /\ replicated' = "still"
      OBVIOUS
    <3>1. elapsed' \in 0..MaxSilence
      BY <1>t DEF MovementTypeOK
    <3>2. ~(elapsed' < InputTimeoutTicks)
      BY <3>1
    <3>3. movement' = Idle /\ replicated' = "still"
      BY <1>4, <3>2 DEF StopStalePlayerInput
    <3> QED
      BY <3>3 DEF Still, Idle
  <2>3. silence' = silence /\ toRun' = toRun \ {"stop"}
    BY <1>4 DEF StopStalePlayerInput
  <2>4. elapsed' \in 0..MaxSilence
    BY <1>t DEF MovementTypeOK
  <2>5. silence' <= elapsed' /\ "stop" \notin toRun'
    BY <2>1, <2>3
  <2>6. silence' <= elapsed' + 0
    BY <2>4, <2>5
  <2> QED
    BY <2>2, <2>5, <2>6
<1>5. ASSUME NEW grounded \in BOOLEAN, ApplyMovement(grounded)
      PROVE  SilenceIsNoticed'
  BY <1>5, <1>s DEF ApplyMovement
<1>6. CASE UNCHANGED movementVars
  BY <1>6, <1>s DEF movementVars
<1> QED
  BY <1>1, <1>2, <1>3, <1>4, <1>5, <1>6 DEF MovementNext

\* Whatever the timeout, and in whichever order the two systems run, a player that has been
\* silent for longer than it stands still, and everybody is told so.
THEOREM StandsStill == MovementSpec => [](MovementTypeOK /\ SilentStandsStill)
<1>1. MovementInit => SilenceInv
  <2> SUFFICES ASSUME MovementInit PROVE SilenceIsNoticed
    BY MovementTypeInit DEF SilenceInv
  <2> QED
    BY DEF MovementInit, SilenceIsNoticed, Still, Idle
<1>2. SilenceInv /\ [MovementNext]_movementVars => SilenceInv'
  BY SilenceStep
<1>3. SilenceInv => MovementTypeOK /\ SilentStandsStill
  BY DEF SilenceInv, MovementTypeOK, SilenceIsNoticed, SilentStandsStill
<1> QED
  BY <1>1, <1>2, <1>3, PTL DEF MovementSpec

\* The order of play is an order.
LEMMA BeforeIsTransitive ==
  ASSUME NEW a \in Inputs, NEW b \in Inputs, NEW c \in Inputs, Before(a, b), Before(b, c)
  PROVE  Before(a, c)
<1>1. a.press \in Nat /\ b.press \in Nat /\ c.press \in Nat
  BY InputParts
<1> QED
  BY <1>1 DEF Before

\* A message that is sent is the last of those on their way.
LEMMA SendKeepsOrder ==
  ASSUME MovementTypeOK, InOrderOfPlay, SendInput
  PROVE  InOrderOfPlay'
<1> USE DEF InOrderOfPlay
<1>t. keys \in Inputs /\ wire \in Seq(Inputs) /\ Before(keys, keys)
  BY DEF MovementTypeOK, Before
<1>1. PICK kept \in Seq(Inputs) : 
        wire' = Append(kept, keys) /\ (kept = wire \/ (wire # <<>> /\ kept = Tail(wire)))
  <2>1. CASE Len(wire) < InFlight
    BY <2>1, <1>t DEF SendInput
  <2>2. CASE ~(Len(wire) < InFlight)
    <3>1. wire # <<>>
      BY <2>2, <1>t
    <3>2. Tail(wire) \in Seq(Inputs)
      BY <3>1, <1>t, HeadTailProperties
    <3> QED
      BY <2>2, <3>1, <3>2 DEF SendInput
  <2> QED
    BY <2>1, <2>2
<1>2. \A i \in 1..Len(kept) :
        \/ kept = wire /\ kept[i] = wire[i]
        \/ kept = Tail(wire) /\ i + 1 \in 1..Len(wire) /\ kept[i] = wire[i + 1]
  <2>1. CASE kept = wire
    BY <2>1
  <2>2. CASE kept = Tail(wire) /\ wire # <<>>
    <3>1. Len(kept) = Len(wire) - 1 /\ \A i \in 1..Len(kept) : kept[i] = wire[i + 1]
      BY <2>2, <1>t, HeadTailProperties
    <3>2. Len(wire) \in Nat /\ Len(kept) \in Nat
      BY <1>t, LenProperties
    <3>3. \A i \in 1..Len(kept) : i + 1 \in 1..Len(wire)
      BY <3>1, <3>2
    <3> QED
      BY <2>2, <3>1, <3>3
  <2> QED
    BY <1>1, <2>1, <2>2
<1>3. \A i \in 1..Len(kept) :
        /\ RealPress(kept[i]) /\ Before(movement, kept[i]) /\ Before(kept[i], keys)
  BY <1>2
<1>4. \A i, j \in 1..Len(kept) : i < j => Before(kept[i], kept[j])
  BY <1>2
<1>5. /\ Len(wire') = Len(kept) + 1 /\ wire'[Len(kept) + 1] = keys
      /\ \A i \in 1..Len(kept) : wire'[i] = kept[i]
  BY <1>1, <1>t, AppendProperties
<1>6. \A i \in 1..Len(wire') : i \in 1..Len(kept) \/ i = Len(kept) + 1
  BY <1>1, <1>5, LenProperties
<1>7. \A i \in 1..Len(wire') :
        RealPress(wire'[i]) /\ Before(movement, wire'[i]) /\ Before(wire'[i], keys)
  BY <1>3, <1>5, <1>6, <1>t
<1>8. \A i, j \in 1..Len(wire') : i < j => Before(wire'[i], wire'[j])
  BY <1>3, <1>4, <1>5, <1>6, LenProperties, <1>1
<1> QED
  BY <1>7, <1>8 DEF SendInput

\* Dropping messages and applying a later one keeps what remains in order.
LEMMA ApplyKeepsOrder ==
  ASSUME MovementTypeOK, InOrderOfPlay, ApplyClientInput
  PROVE  InOrderOfPlay' /\ Before(movement, movement')
<1> USE DEF InOrderOfPlay
<1>1. PICK n \in 0..Len(wire) :
        /\ wire' = SubSeq(wire, n + 1, Len(wire))
        /\ IF n = 0 THEN movement' = movement ELSE movement' = wire[n]
  BY DEF ApplyClientInput
<1>2. /\ wire \in Seq(Inputs) /\ Len(wire) \in Nat /\ Before(movement, movement)
  BY LenProperties DEF MovementTypeOK, Before
<1>3. /\ Len(wire') = Len(wire) - n
      /\ \A i \in 1..Len(wire') : wire'[i] = wire[n + i] /\ n + i \in 1..Len(wire)
  <2>1. \A i \in (n + 1)..Len(wire) : wire[i] \in Inputs
    BY <1>1, <1>2, ElementOfSeq
  <2>2. /\ Len(wire') = IF n + 1 <= Len(wire) THEN Len(wire) - (n + 1) + 1 ELSE 0
        /\ \A i \in 1..(Len(wire) - (n + 1) + 1) : wire'[i] = wire[(n + 1) + i - 1]
    BY <1>1, <1>2, <2>1, SubSeqProperties
  <2> QED
    BY <1>1, <1>2, <2>2
<1>4. RealPress(movement') /\ Before(movement, movement') /\ Before(movement', keys)
  BY <1>1, <1>2
<1>5. \A i \in 1..Len(wire') : Before(movement', wire'[i])
  BY <1>1, <1>2, <1>3
<1>6. \A i, j \in 1..Len(wire') : i < j => Before(wire'[i], wire'[j])
  BY <1>1, <1>2, <1>3
<1>7. \A i \in 1..Len(wire') : RealPress(wire'[i]) /\ Before(wire'[i], keys)
  BY <1>3
<1> QED
  BY <1>4, <1>5, <1>6, <1>7 DEF ApplyClientInput

\* The client numbers what it sends as it sends it, so what the server has applied is never
\* ahead of what is on its way.
LEMMA OrderStep ==
  ASSUME JumpInv, [MovementNext]_movementVars
  PROVE  InOrderOfPlay'
<1>t. MovementTypeOK /\ InOrderOfPlay
  BY DEF JumpInv
<1>k. keys.press \in Nat /\ movement.press \in Nat /\ \A i \in 1..Len(wire) : wire[i].press \in Nat
  BY <1>t, ElementOfSeq, InputParts DEF MovementTypeOK
<1>1. CASE Walks
  <2>1. keys'.press = keys.press /\ keys'.jump = keys.jump
    BY <1>1, <1>t DEF Walks, MovementTypeOK, Inputs
  <2> QED
    BY <1>1, <1>t, <2>1 DEF Walks, InOrderOfPlay, Before, RealPress
<1>2. CASE PressesJump
  <2>1. keys'.press = keys.press + 1
    BY <1>2, <1>t DEF PressesJump, MovementTypeOK, Inputs
  <2>2. RealPress(keys') /\ Before(movement, keys')
    BY <1>k, <1>t, <2>1 DEF InOrderOfPlay, Before, RealPress
  <2>3. \A i \in 1..Len(wire) : Before(wire[i], keys')
    BY <1>k, <1>t, <2>1 DEF InOrderOfPlay, Before
  <2> QED
    BY <1>2, <1>t, <2>2, <2>3 DEF PressesJump, InOrderOfPlay
<1>3. CASE ReleasesJump
  <2>1. keys'.press = keys.press /\ keys'.jump = FALSE
    BY <1>3, <1>t DEF ReleasesJump, MovementTypeOK, Inputs
  <2> QED
    BY <1>3, <1>t, <2>1 DEF ReleasesJump, InOrderOfPlay, Before, RealPress
<1>4. CASE SendInput
  BY <1>4, <1>t, SendKeepsOrder
<1>5. CASE ApplyClientInput
  BY <1>5, <1>t, ApplyKeepsOrder
<1>6. CASE StopStalePlayerInput
  <2>1. CASE movement' = movement
    BY <1>6, <1>t, <2>1 DEF StopStalePlayerInput, InOrderOfPlay
  <2>2. CASE movement' = Idle
    <3>1. movement'.press = 0 /\ movement'.jump = FALSE
      BY <2>2 DEF Idle
    <3>2. ASSUME NEW i, i.press \in Nat, RealPress(i) PROVE Before(movement', i)
      BY <3>1, <3>2 DEF Before, RealPress
    <3> QED
      BY <1>6, <1>k, <1>t, <3>1, <3>2 DEF StopStalePlayerInput, InOrderOfPlay, RealPress
  <2> QED
    BY <1>6, <2>1, <2>2 DEF StopStalePlayerInput
<1>7. CASE FixedTick \/ \E grounded \in BOOLEAN : ApplyMovement(grounded)
  BY <1>7, <1>t DEF FixedTick, ApplyMovement, InOrderOfPlay
<1>8. CASE UNCHANGED movementVars
  BY <1>8, <1>t DEF movementVars, InOrderOfPlay
<1> QED
  BY <1>1, <1>2, <1>3, <1>4, <1>5, <1>6, <1>7, <1>8 DEF MovementNext

\* apply_movement jumps only without the latch and sets it; nothing clears the latch of a
\* press before the server has seen the key released.
LEMMA LatchStep ==
  ASSUME JumpInv, [MovementNext]_movementVars
  PROVE  LatchHolds'
<1>t. MovementTypeOK /\ InOrderOfPlay /\ LatchHolds
  BY DEF JumpInv
<1>k. lastJump \in Nat /\ movement.press \in Nat /\ movement.jump \in BOOLEAN
  BY <1>t, InputParts DEF MovementTypeOK
<1>1. CASE Walks \/ PressesJump \/ ReleasesJump \/ SendInput \/ FixedTick
  BY <1>1, <1>t DEF Walks, PressesJump, ReleasesJump, SendInput, FixedTick, LatchHolds
<1>2. CASE ApplyClientInput
  <2>1. Before(movement, movement')
    BY <1>2, <1>t, ApplyKeepsOrder
  <2>2. movement'.press \in Nat
    BY MovementTypeStep, <1>t, InputParts DEF MovementTypeOK
  <2>3. latch' = latch /\ lastJump' = lastJump
    BY <1>2 DEF ApplyClientInput
  <2> QED
    BY <1>k, <1>t, <2>1, <2>2, <2>3 DEF Before, LatchHolds
<1>3. CASE StopStalePlayerInput
  <2>1. CASE UNCHANGED <<movement, lastJump>>
    BY <1>3, <1>t, <2>1 DEF StopStalePlayerInput, LatchHolds
  <2>2. CASE movement' = Idle /\ lastJump' = 0
    BY <2>2 DEF LatchHolds, Idle
  <2> QED
    BY <1>3, <2>1, <2>2 DEF StopStalePlayerInput
<1>4. ASSUME NEW grounded \in BOOLEAN, ApplyMovement(grounded)
      PROVE  LatchHolds'
  BY <1>4, <1>k, <1>t DEF ApplyMovement, LatchHolds
<1>5. CASE UNCHANGED movementVars
  BY <1>5, <1>t DEF movementVars, LatchHolds
<1> QED
  BY <1>1, <1>2, <1>3, <1>4, <1>5 DEF MovementNext

\* Whatever is lost, delayed or repeated on the way, one press of the jump key makes at most
\* one jump in apply_movement.
THEOREM OneJump == MovementSpec => OneJumpPerPress
<1>1. MovementInit => JumpInv
  <2> SUFFICES ASSUME MovementInit PROVE JumpInv
    OBVIOUS
  <2>1. 1..Len(wire) = {} /\ movement = Idle /\ keys = Idle /\ lastJump = 0
    BY DEF MovementInit
  <2>2. InOrderOfPlay
    BY <2>1 DEF InOrderOfPlay, Before, RealPress, Idle
  <2>3. LatchHolds
    BY <2>1 DEF LatchHolds, Idle
  <2> QED
    BY <2>2, <2>3, MovementTypeInit DEF JumpInv
<1>2. JumpInv /\ [MovementNext]_movementVars => JumpInv'
  BY MovementTypeStep, OrderStep, LatchStep DEF JumpInv
<1>3. ASSUME JumpInv, [MovementNext]_movementVars
      PROVE  [toRun = {"move"} /\ toRun' = {} /\ jumped' => movement.press # lastJump]_movementVars
  <2> SUFFICES ASSUME MovementNext, toRun = {"move"}, toRun' = {}, jumped'
               PROVE  movement.press # lastJump
    BY <1>3
  <2>1. PICK grounded \in BOOLEAN : ApplyMovement(grounded)
    BY DEF MovementNext, Walks, PressesJump, ReleasesJump, SendInput, FixedTick, ApplyClientInput,
           StopStalePlayerInput
  <2>2. movement.jump /\ ~latch
    BY <2>1 DEF ApplyMovement, Jumps
  <2> QED
    BY <1>3, <2>2 DEF JumpInv, LatchHolds
<1> QED
  BY <1>1, <1>2, <1>3, PTL DEF MovementSpec, OneJumpPerPress

HIDE MovementAssumption DEF MovementAssumption

-----------------------------------------------------------------------------
(* Visibility: the cache and what is shown. *)

\* What the cache holds of an entity a client could see now is what the backend shows.
CacheIsShown ==
  \A p \in Considered \cap DOMAIN cache :
    cache[p] \in BOOLEAN /\ (cache[p] <=> p \in visible)

VisibilityInv == VisibilityTypeOK /\ CacheIsShown

\* Every step keeps the counter, the cache and what is shown in their ranges.
LEMMA VisibilityTypeStep ==
  ASSUME VisibilityTypeOK, [VisibilityNext]_visibility
  PROVE  VisibilityTypeOK'
<1> USE VisibilityAssumption DEF VisibilityAssumption, VisibilityTypeOK
<1>1. CASE UpdateSpatialVisibility
  <2>1. counter' \in 0..(TickInterval - 1)
    BY <1>1 DEF UpdateSpatialVisibility
  <2>2. Told \subseteq Pairs
    BY DEF Told, Considered
  <2>3. visible' \subseteq Pairs
    BY <1>1, <2>2 DEF UpdateSpatialVisibility, SetVisibility
  <2>4. DOMAIN cache' \subseteq Pairs
    BY <1>1, <2>2 DEF UpdateSpatialVisibility, CacheAfter
  <2> QED
    BY <1>1, <2>1, <2>3, <2>4 DEF UpdateSpatialVisibility
<1>2. ASSUME NEW w \in Watcher, Watch(w) \/ Unwatch(w)
      PROVE  VisibilityTypeOK'
  BY <1>2 DEF Watch, Unwatch
<1>3. ASSUME NEW t \in Thing, Appear(t)
      PROVE  VisibilityTypeOK'
  BY <1>3 DEF Appear
<1>4. ASSUME NEW t \in Thing, Vanish(t)
      PROVE  VisibilityTypeOK'
  BY <1>4 DEF Vanish
<1>5. ASSUME NEW w \in Watcher, NEW t \in Thing, Walk(w, t)
      PROVE  VisibilityTypeOK'
  BY <1>5 DEF Walk, Pairs
<1>6. CASE UNCHANGED visibility
  BY <1>6 DEF visibility
<1> QED
  BY <1>1, <1>2, <1>3, <1>4, <1>5, <1>6 DEF VisibilityNext

\* One update shows a client exactly what its player sees, whatever the cache held.
LEMMA UpdateShows ==
  ASSUME CacheIsShown, SetVisibility, NEW p \in Considered
  PROVE  p \in visible' <=> SeesNow(p[1], p[2])
<1>b. SeesNow(p[1], p[2]) \in BOOLEAN
  BY DEF SeesNow
<1>1. CASE p \in Told
  BY <1>1 DEF SetVisibility
<1>2. CASE p \notin Told
  <2>1. p \in DOMAIN cache /\ cache[p] = SeesNow(p[1], p[2])
    BY <1>2 DEF Told
  <2>2. p \in visible' <=> p \in visible
    BY <1>2 DEF SetVisibility
  <2>3. cache[p] <=> p \in visible
    BY <2>1 DEF CacheIsShown
  <2> QED
    BY <2>1, <2>2, <2>3
<1> QED
  BY <1>1, <1>2

\* update_spatial_visibility skips what the cache says was told already, and that is what the
\* backend shows: walking, appearing and vanishing in between do not part the two.
LEMMA VisibilityStep ==
  ASSUME VisibilityInv, [VisibilityNext]_visibility
  PROVE  VisibilityInv'
<1> SUFFICES CacheIsShown'
  BY VisibilityTypeStep DEF VisibilityInv
<1> USE DEF CacheIsShown
<1>i. CacheIsShown /\ watching \in [Watcher -> {"away", "bodiless", "playing"}]
  BY DEF VisibilityInv, VisibilityTypeOK
<1>1. CASE UpdateSpatialVisibility
  <2>k. Considered' = Considered
    BY <1>1 DEF UpdateSpatialVisibility, Considered
  <2>1. CASE counter' # 0
    BY <1>1, <1>i, <2>1, <2>k DEF UpdateSpatialVisibility
  <2>2. CASE counter' = 0
    <3> SUFFICES ASSUME NEW p \in Considered, p \in DOMAIN cache'
                 PROVE  cache'[p] \in BOOLEAN /\ (cache'[p] <=> p \in visible')
      BY <2>k
    <3>1. SetVisibility /\ cache' = CacheAfter
      BY <1>1, <2>2 DEF UpdateSpatialVisibility
    <3>2. p \in visible' <=> SeesNow(p[1], p[2])
      BY <3>1, <1>i, UpdateShows
    <3>3. SeesNow(p[1], p[2]) \in BOOLEAN
      BY DEF SeesNow
    <3>4. cache'[p] = IF p \in Told THEN SeesNow(p[1], p[2]) ELSE cache[p]
      BY <3>1 DEF CacheAfter
    <3>5. cache'[p] = SeesNow(p[1], p[2])
      <4>1. p \notin Told => cache[p] = SeesNow(p[1], p[2])
        BY DEF Told
      <4> QED
        BY <3>4, <4>1
    <3> QED
      BY <3>2, <3>3, <3>5
  <2> QED
    BY <1>i, <2>1, <2>2
<1>2. ASSUME NEW w \in Watcher, Watch(w)
      PROVE  CacheIsShown'
  <2>1. cache' = cache /\ visible' = visible
    BY <1>2 DEF Watch
  <2>2. ASSUME NEW p \in Considered', p \in DOMAIN cache
        PROVE  p \in Considered
    <3>1. p = <<p[1], p[2]>> /\ p[1] \in Watcher /\ p[2] \in Thing
      BY <2>2 DEF Considered, Pairs
    <3>2. p[1] # w /\ p[2] # OwnThing[w]
      BY <1>2, <2>2, <3>1 DEF Watch, NewLink, NewThing
    <3> QED
      BY <1>i, <1>2, <2>2, <3>1, <3>2 DEF Watch, Considered, Pairs
  <2> QED
    BY <1>i, <2>1, <2>2
<1>3. ASSUME NEW w \in Watcher, Unwatch(w)
      PROVE  CacheIsShown'
  <2>1. ASSUME NEW p \in Considered'
        PROVE  p \in Considered /\ p[1] # w
    BY <1>3, <1>i, <2>1 DEF Unwatch, Considered, Pairs
  <2>2. cache' = cache /\ visible' = {p \in visible : p[1] # w}
    BY <1>3 DEF Unwatch
  <2> QED
    BY <1>i, <2>1, <2>2
<1>4. ASSUME NEW t \in Thing, Appear(t)
      PROVE  CacheIsShown'
  <2>1. cache' = cache /\ visible' = visible
    BY <1>4 DEF Appear
  <2>2. ASSUME NEW p \in Considered', p \in DOMAIN cache
        PROVE  p \in Considered
    <3>1. p = <<p[1], p[2]>> /\ p[1] \in Watcher /\ p[2] \in Thing
      BY <2>2 DEF Considered, Pairs
    <3>2. p[2] # t
      BY <1>4, <2>2, <3>1 DEF Appear, NewThing
    <3> QED
      BY <1>4, <2>2, <3>2 DEF Appear, Considered
  <2> QED
    BY <1>i, <2>1, <2>2
<1>5. ASSUME NEW t \in Thing, Vanish(t)
      PROVE  CacheIsShown'
  <2>1. ASSUME NEW p \in Considered'
        PROVE  p \in Considered /\ p[2] # t
    <3>1. p[1] \in Watcher /\ watching'[p[1]] = "playing" /\ p[2] \in here'
      BY <2>1 DEF Considered, Pairs
    <3>2. watching[p[1]] = "playing"
      BY <1>5, <1>i, <3>1 DEF Vanish
    <3> QED
      BY <1>5, <2>1, <3>1, <3>2 DEF Vanish, Considered
  <2>2. cache' = cache /\ visible' = {p \in visible : p[2] # t}
    BY <1>5 DEF Vanish
  <2> QED
    BY <1>i, <2>1, <2>2
<1>6. ASSUME NEW w \in Watcher, NEW t \in Thing, Walk(w, t)
      PROVE  CacheIsShown'
  BY <1>6, <1>i DEF Walk, Considered
<1>7. CASE UNCHANGED visibility
  BY <1>7, <1>i DEF visibility, Considered
<1> QED
  BY <1>1, <1>2, <1>3, <1>4, <1>5, <1>6, <1>7 DEF VisibilityNext

\* After every update of update_spatial_visibility a client is shown what is in sight of its
\* player and nothing else, for any number of clients and things and any interval.
THEOREM UpdatesShowSight == VisibilitySpec => []VisibilityTypeOK /\ UpdateShowsWhatIsInSight
<1>1. VisibilityInit => VisibilityInv
  BY VisibilityAssumption
  DEF VisibilityInit, VisibilityInv, VisibilityTypeOK, CacheIsShown, VisibilityAssumption
<1>2. VisibilityInv /\ [VisibilityNext]_visibility => VisibilityInv'
  BY VisibilityStep
<1>3. ASSUME VisibilityInv, [VisibilityNext]_visibility
      PROVE  [counter' = 0 /\ counter # counter' =>
               \A w \in Watcher, t \in Thing :
                 watching[w] = "playing" /\ t \in here
                   => (<<w, t>> \in visible' <=> SeesNow(w, t))]_visibility
  <2> SUFFICES ASSUME VisibilityNext, counter' = 0, counter # counter',
                      NEW w \in Watcher, NEW t \in Thing, watching[w] = "playing", t \in here
               PROVE  <<w, t>> \in visible' <=> SeesNow(w, t)
    BY <1>3
  <2>1. UpdateSpatialVisibility
    BY DEF VisibilityNext, Watch, Unwatch, Walk, Appear, Vanish
  <2>2. SetVisibility
    BY <2>1 DEF UpdateSpatialVisibility
  <2>3. <<w, t>> \in Considered
    BY DEF Considered, Pairs
  <2> QED
    BY <1>3, <2>2, <2>3, UpdateShows DEF VisibilityInv
<1>4. VisibilityInv => VisibilityTypeOK
  BY DEF VisibilityInv
<1> QED
  BY <1>1, <1>2, <1>3, <1>4, PTL DEF VisibilitySpec, UpdateShowsWhatIsInSight

-----------------------------------------------------------------------------
(* Housing: plots, decorations and snapshots. *)

GoneSeesNothing == \A v \in Viewer : residentOf[v] = Absent => shown[v] = Vacant

PlotsInv == HousingTypeOK /\ shown = [v \in Viewer |-> shown[v]] /\ GoneSeesNothing /\ PlotsAsShown

USE HousingAssumption DEF HousingAssumption

\* The plot of a player exists.
LEMMA SlotIsPlot ==
  ASSUME NEW p \in Resident
  PROVE  SlotForPlayer(p) \in Plot
BY DEF SlotForPlayer, Plot

\* Every step keeps the plots, their decorations and what was sent in their ranges.
LEMMA HousingTypeStep ==
  ASSUME HousingTypeOK, [HousingNext]_housing
  PROVE  HousingTypeOK'
<1> USE DEF HousingTypeOK
<1>1. CASE HousingTick
  BY <1>1 DEF HousingTick
<1>2. ASSUME NEW v \in Viewer, Arrive(v) \/ Depart(v)
      PROVE  HousingTypeOK'
  BY <1>2 DEF Arrive, Depart
<1>3. ASSUME NEW v \in Viewer, AttachHousingPlayer(v)
      PROVE  HousingTypeOK'
  BY <1>3 DEF AttachHousingPlayer
<1>4. ASSUME NEW v \in Viewer, HandlePlotBuildIntent(v)
      PROVE  HousingTypeOK'
  <2> DEFINE p == residentOf[v]
             s == SlotForPlayer(p)
  <2>1. p \in Resident /\ s \in Plot
    BY <1>4, SlotIsPlot DEF HandlePlotBuildIntent, MayTry
  <2>2. rest' \in [Plot -> 0..BuildTicks] /\ residentOf' = residentOf
    <3>1. rest' = [rest EXCEPT ![s] = BuildTicks] /\ residentOf' = residentOf
      BY <1>4 DEF HandlePlotBuildIntent, Wait
    <3>2. BuildTicks \in 0..BuildTicks
      OBVIOUS
    <3> QED
      BY <2>1, <3>1, <3>2
  <2>3. CASE UNCHANGED <<decorations, decorationOf, spawned, standing, shown>>
    BY <2>2, <2>3
  <2>4. CASE /\ spawned < Entities /\ spawned' = spawned + 1
             /\ decorations' = [decorations EXCEPT ![s] = p]
             /\ decorationOf' = [decorationOf EXCEPT ![s] = spawned + 1]
             /\ standing' = [d \in DOMAIN standing \cup {spawned + 1} |->
                               IF d = spawned + 1 THEN s ELSE standing[d]]
    <3>1. spawned + 1 \in 1..Entities /\ spawned' \in 0..Entities
      BY <2>4
    <3>2. decorations' \in [Plot -> Resident \cup {Vacant}]
      BY <2>1, <2>4
    <3>3. decorationOf' \in [Plot -> (1..Entities) \cup {Vacant}]
      BY <2>1, <2>4, <3>1
    <3>4. DOMAIN standing' \subseteq 1..spawned'
      BY <2>4
    <3> QED
      BY <2>2, <3>1, <3>2, <3>3, <3>4
  <2> QED
    BY <1>4, <2>3, <2>4 DEF HandlePlotBuildIntent
<1>5. ASSUME NEW v \in Viewer, HandlePlotRemoveIntent(v)
      PROVE  HousingTypeOK'
  BY <1>5, SlotIsPlot DEF HandlePlotRemoveIntent, MayTry, Wait
<1>6. CASE UNCHANGED housing
  BY <1>6 DEF housing
<1> QED
  BY <1>1, <1>2, <1>3, <1>4, <1>5, <1>6 DEF HousingNext

\* A snapshot that is broadcast reaches everybody who is there.
LEMMA EveryoneIsShown ==
  ASSUME HousingTypeOK, GoneSeesNothing, BroadcastPlotSnapshot, residentOf' = residentOf
  PROVE  /\ shown' = [v \in Viewer |-> shown'[v]]
         /\ GoneSeesNothing'
         /\ \A v \in Viewer : shown'[v] # Vacant => shown'[v] = Snapshot(decorations')
BY DEF BroadcastPlotSnapshot, GoneSeesNothing

\* What PlotsAsShown says of one plot.
PlotAsStanding(s) ==
  /\ {e \in DOMAIN standing : standing[e] = s} = {decorationOf[s]} \ {Vacant}
  /\ decorations[s] = Vacant <=> decorationOf[s] = Vacant
  /\ decorations[s] # Vacant => SlotForPlayer(decorations[s]) = s

\* handle_plot_build_intent spawns one decoration and takes the plot in the same step.
LEMMA BuildKeepsPlots ==
  ASSUME PlotsInv, NEW v \in Viewer, HandlePlotBuildIntent(v)
  PROVE  PlotsInv'
<1> DEFINE p == residentOf[v]
           s == SlotForPlayer(p)
           e == spawned + 1
<1>t. HousingTypeOK /\ HousingTypeOK' /\ GoneSeesNothing
  <2>1. HousingNext
    BY DEF HousingNext
  <2> QED
    BY <2>1, HousingTypeStep DEF PlotsInv
<1>0. p \in Resident /\ s \in Plot /\ residentOf' = residentOf
  BY SlotIsPlot DEF HandlePlotBuildIntent, MayTry
<1>1. CASE UNCHANGED <<decorations, decorationOf, spawned, standing, shown>>
  BY <1>t, <1>0, <1>1 DEF PlotsInv, PlotsAsShown, GoneSeesNothing
<1>2. CASE /\ decorations[s] = Vacant
           /\ decorations' = [decorations EXCEPT ![s] = p]
           /\ decorationOf' = [decorationOf EXCEPT ![s] = e]
           /\ standing' = [d \in DOMAIN standing \cup {e} |-> IF d = e THEN s ELSE standing[d]]
           /\ BroadcastPlotSnapshot
  <2>1. e \notin DOMAIN standing /\ e # Vacant /\ e \in Nat
    BY <1>t DEF HousingTypeOK
  <2>2. ASSUME NEW q \in Plot
        PROVE  PlotAsStanding(q)'
    <3>0. PlotAsStanding(q)
      BY DEF PlotsInv, PlotsAsShown, PlotAsStanding
    <3>1. CASE q = s
      <4>1. {d \in DOMAIN standing : standing[d] = s} = {}
        BY <3>0, <3>1, <1>2 DEF PlotAsStanding
      <4>2. {d \in DOMAIN standing' : standing'[d] = s} = {e}
        BY <1>2, <2>1, <4>1
      <4>3. decorations'[s] = p /\ decorationOf'[s] = e
        BY <1>t, <1>0, <1>2 DEF HousingTypeOK
      <4>4. p # Vacant
        BY <1>0
      <4> QED
        BY <3>1, <2>1, <4>2, <4>3, <4>4 DEF PlotAsStanding
    <3>2. CASE q # s
      <4>1. {d \in DOMAIN standing' : standing'[d] = q} = {d \in DOMAIN standing : standing[d] = q}
        BY <1>2, <2>1, <3>2
      <4>2. decorations'[q] = decorations[q] /\ decorationOf'[q] = decorationOf[q]
        BY <1>t, <1>0, <1>2, <3>2 DEF HousingTypeOK
      <4> QED
        BY <3>0, <4>1, <4>2 DEF PlotAsStanding
    <3> QED
      BY <3>1, <3>2
  <2> QED
    BY <1>t, <1>0, <1>2, <2>2, EveryoneIsShown DEF PlotsInv, PlotsAsShown, PlotAsStanding
<1> QED
  BY <1>1, <1>2 DEF HandlePlotBuildIntent

\* handle_plot_remove_intent despawns the decoration of the plot it frees.
LEMMA RemoveKeepsPlots ==
  ASSUME PlotsInv, NEW v \in Viewer, HandlePlotRemoveIntent(v)
  PROVE  PlotsInv'
<1> DEFINE p == residentOf[v]
           s == SlotForPlayer(p)
<1>t. HousingTypeOK /\ HousingTypeOK' /\ GoneSeesNothing
  <2>1. HousingNext
    BY DEF HousingNext
  <2> QED
    BY <2>1, HousingTypeStep DEF PlotsInv
<1>0. p \in Resident /\ s \in Plot /\ residentOf' = residentOf
  BY SlotIsPlot DEF HandlePlotRemoveIntent, MayTry
<1>1. CASE UNCHANGED <<decorations, decorationOf, standing, shown>>
  BY <1>t, <1>0, <1>1 DEF PlotsInv, PlotsAsShown, GoneSeesNothing
<1>2. CASE /\ decorations[s] = p
           /\ decorations' = [decorations EXCEPT ![s] = Vacant]
           /\ decorationOf' = [decorationOf EXCEPT ![s] = Vacant]
           /\ standing' = [d \in DOMAIN standing \ {decorationOf[s]} |-> standing[d]]
           /\ BroadcastPlotSnapshot
  <2>1. p # Vacant /\ decorationOf[s] # Vacant
    BY <1>0, <1>2 DEF PlotsInv, PlotsAsShown
  <2>2. ASSUME NEW q \in Plot
        PROVE  PlotAsStanding(q)'
    <3>0. PlotAsStanding(q) /\ PlotAsStanding(s)
      BY <1>0 DEF PlotsInv, PlotsAsShown, PlotAsStanding
    <3>1. CASE q = s
      <4>1. \A d \in DOMAIN standing : standing[d] = s => d = decorationOf[s]
        BY <3>0 DEF PlotAsStanding
      <4>2. {d \in DOMAIN standing' : standing'[d] = s} = {}
        BY <1>2, <4>1
      <4>3. decorations'[s] = Vacant /\ decorationOf'[s] = Vacant
        BY <1>t, <1>0, <1>2 DEF HousingTypeOK
      <4> QED
        BY <3>1, <4>2, <4>3 DEF PlotAsStanding
    <3>2. CASE q # s
      <4>1. standing[decorationOf[s]] = s
        BY <2>1, <3>0 DEF PlotAsStanding
      <4>2. {d \in DOMAIN standing' : standing'[d] = q} = {d \in DOMAIN standing : standing[d] = q}
        BY <1>2, <3>2, <4>1
      <4>3. decorations'[q] = decorations[q] /\ decorationOf'[q] = decorationOf[q]
        BY <1>t, <1>0, <1>2, <3>2 DEF HousingTypeOK
      <4> QED
        BY <3>0, <4>2, <4>3 DEF PlotAsStanding
    <3> QED
      BY <3>1, <3>2
  <2> QED
    BY <1>t, <1>0, <1>2, <2>2, EveryoneIsShown DEF PlotsInv, PlotsAsShown, PlotAsStanding
<1> QED
  BY <1>1, <1>2 DEF HandlePlotRemoveIntent

\* For any number of players and plots: the plots, the decorations that stand in the world and
\* the last snapshot of every client that has one say the same.
THEOREM PlotsShown == HousingSpec => [](HousingTypeOK /\ PlotsAsShown)
<1>1. HousingInit => PlotsInv
  <2> SUFFICES ASSUME HousingInit PROVE PlotsInv
    OBVIOUS
  <2> USE DEF HousingInit
  <2>1. HousingTypeOK
    <3>1. rest \in [Plot -> 0..BuildTicks] /\ spawned \in 0..Entities
      OBVIOUS
    <3> QED
      BY <3>1 DEF HousingTypeOK
  <2>2. DOMAIN standing = {} /\ \A s \in Plot : decorations[s] = Vacant /\ decorationOf[s] = Vacant
    OBVIOUS
  <2> QED
    BY <2>1, <2>2 DEF PlotsInv, GoneSeesNothing, PlotsAsShown
<1>2. ASSUME PlotsInv, [HousingNext]_housing
      PROVE  PlotsInv'
  <2>t. HousingTypeOK /\ HousingTypeOK' /\ GoneSeesNothing /\ shown = [v \in Viewer |-> shown[v]]
    BY <1>2, HousingTypeStep DEF PlotsInv
  <2>1. CASE HousingTick \/ UNCHANGED housing
    BY <1>2, <2>1, <2>t DEF HousingTick, housing, PlotsInv, GoneSeesNothing, PlotsAsShown
  <2>2. ASSUME NEW v \in Viewer, Arrive(v)
        PROVE  PlotsInv'
    <3>1. GoneSeesNothing'
      BY <2>2, <2>t DEF Arrive, GoneSeesNothing, HousingTypeOK
    <3> QED
      BY <1>2, <2>2, <2>t, <3>1 DEF Arrive, PlotsInv, PlotsAsShown
  <2>3. ASSUME NEW v \in Viewer, Depart(v)
        PROVE  PlotsInv'
    <3>1. /\ \A w \in Viewer : shown'[w] = IF w = v THEN Vacant ELSE shown[w]
          /\ \A w \in Viewer : residentOf'[w] = IF w = v THEN Absent ELSE residentOf[w]
          /\ shown' = [w \in Viewer |-> shown'[w]]
      BY <2>3, <2>t DEF Depart, HousingTypeOK
    <3>2. GoneSeesNothing'
      BY <2>t, <3>1 DEF GoneSeesNothing
    <3> QED
      BY <1>2, <2>3, <2>t, <3>1, <3>2 DEF Depart, PlotsInv, PlotsAsShown
  <2>4. ASSUME NEW v \in Viewer, AttachHousingPlayer(v)
        PROVE  PlotsInv'
    <3>1. PICK p \in Resident : residentOf' = [residentOf EXCEPT ![v] = p]
      BY <2>4 DEF AttachHousingPlayer
    <3>2. GoneSeesNothing'
      <4>1. p # Absent /\ shown' = shown
        BY <2>4 DEF AttachHousingPlayer
      <4> QED
        BY <2>t, <3>1, <4>1 DEF GoneSeesNothing, HousingTypeOK
    <3> QED
      BY <1>2, <2>4, <2>t, <3>2 DEF AttachHousingPlayer, PlotsInv, PlotsAsShown
  <2> QED
    BY <1>2, <2>1, <2>2, <2>3, <2>4, BuildKeepsPlots, RemoveKeepsPlots DEF HousingNext
<1>3. PlotsInv => HousingTypeOK /\ PlotsAsShown
  BY DEF PlotsInv
<1> QED
  BY <1>1, <1>2, <1>3, PTL DEF HousingSpec

-----------------------------------------------------------------------------
(* The game: how its reducers change the items there are *)

\* add() puts in the inventory what it counts of the kind, and takes nothing away.
LEMMA AddingItems ==
  ASSUME NEW inv \in Inventories, NEW kind \in Kinds, NEW quantity \in Nat
  PROVE  LET new == Add(inv, kind, quantity)
         IN  /\ new \in Inventories
             /\ ItemsIn(new) \in Nat /\ ItemsIn(inv) \in Nat
             /\ ItemsIn(inv) <= ItemsIn(new)
             /\ ItemsIn(new) + CountKind(inv, kind) = ItemsIn(inv) + CountKind(new, kind)
<1>0. Slots \in Nat /\ MaxStack \in Nat /\ NoKind \notin Kinds
  BY InventoryAssumption DEF Kinds
<1>1. PICK new \in Inventories : new = Add(inv, kind, quantity)
  BY AddKeepsInventory
<1>2. PICK first \in 0..Slots, topUp \in Nat :
        /\ first = FirstSlotWith(inv, kind) /\ topUp = TopUp(inv, kind, quantity)
        /\ topUp <= quantity
        /\ first # 0 => inv[first].kind = kind
  <2>1. TopUp(inv, kind, quantity) \in 0..quantity
    BY TopUpFits
  <2>2. FirstSlotWith(inv, kind) \in 0..Slots
    BY <1>0, FirstSlot
  <2>3. FirstSlotWith(inv, kind) # 0 => inv[FirstSlotWith(inv, kind)].kind = kind
    BY FirstSlot
  <2> QED
    BY <2>1, <2>2, <2>3
<1>3. ASSUME NEW i \in 1..Slots
      PROVE  /\ inv[i].quantity \in Nat /\ new[i].quantity \in Nat
             /\ inv[i].quantity <= new[i].quantity
             /\ new[i].quantity + Amounts(inv, kind)[i] = inv[i].quantity + Amounts(new, kind)[i]
  <2>1. quantity - topUp \in Nat
    BY <1>2
  <2>2. /\ Fill(inv, i, quantity - topUp) \in Nat
        /\ Fill(inv, i, quantity - topUp) > 0 => inv[i] = Empty
    BY <1>0, <2>1, FillFits
  <2>3. PICK fill \in Nat : fill = Fill(inv, i, quantity - topUp) /\ (fill > 0 => inv[i] = Empty)
    BY <2>2
  <2>4. new[i] = CASE i = first -> [inv[i] EXCEPT !.quantity = @ + topUp]
                   [] fill > 0 -> [kind |-> kind, quantity |-> fill]
                   [] OTHER -> inv[i]
    BY <1>1, <1>2, <2>3 DEF Add
  <2>5. inv[i].quantity \in Nat /\ new[i].quantity \in Nat
    BY <1>0, SlotHolds
  <2>6. CASE i = first
    <3>1. inv[i].kind = kind /\ inv[i] \in Stack
      BY <1>0, <1>2, <2>6, SlotHolds
    <3>2. inv[i] # Empty
      BY <1>0, <3>1 DEF Empty
    <3>3. new[i] = [inv[i] EXCEPT !.quantity = @ + topUp]
      BY <2>3, <2>4, <2>6, <3>2
    <3>4. new[i].kind = kind /\ new[i].quantity = inv[i].quantity + topUp
      BY <3>1, <3>3 DEF Stack
    <3> QED
      BY <2>5, <3>1, <3>4 DEF Amounts
  <2>7. CASE i # first /\ fill > 0
    <3>1. new[i] = [kind |-> kind, quantity |-> fill]
      BY <2>4, <2>7
    <3>2. inv[i].kind # kind /\ inv[i].quantity = 0
      BY <1>0, <2>3, <2>7 DEF Empty
    <3> QED
      BY <2>5, <3>1, <3>2 DEF Amounts
  <2>8. CASE i # first /\ ~ fill > 0
    <3>1. new[i] = inv[i]
      BY <2>4, <2>8
    <3> QED
      BY <2>5, <3>1 DEF Amounts
  <2> QED
    BY <2>6, <2>7, <2>8
<1> DEFINE a == [i \in 1..Slots |-> inv[i].quantity]
           b == [i \in 1..Slots |-> new[i].quantity]
<1>4. /\ a \in [1..Slots -> Nat] /\ b \in [1..Slots -> Nat]
      /\ \A i \in 1..Slots : a[i] <= b[i]
      /\ \A i \in 1..Slots : b[i] + Amounts(inv, kind)[i] = a[i] + Amounts(new, kind)[i]
  BY <1>3
<1>5. ItemsIn(inv) = SumOf(a) /\ ItemsIn(new) = SumOf(b)
  BY DEF ItemsIn
<1> HIDE DEF a, b
<1>6. Amounts(inv, kind) \in [1..Slots -> Nat] /\ Amounts(new, kind) \in [1..Slots -> Nat]
  BY AmountsAreNumbers
<1>7. SumOf(b) + SumOf(Amounts(inv, kind)) = SumOf(a) + SumOf(Amounts(new, kind))
  <2>1. GrowAlike(a, b, Amounts(inv, kind), Amounts(new, kind), Slots)
    BY <1>4 DEF GrowAlike
  <2>2. SumsAlike(a, b, Amounts(inv, kind), Amounts(new, kind))
    BY <1>0, <1>4, <1>6, <2>1, SumsChangeAlike
  <2> QED
    BY <2>2 DEF SumsAlike
<1>8. SumOf(a) <= SumOf(b) /\ SumOf(a) \in Nat /\ SumOf(b) \in Nat
  BY <1>0, <1>4, SumOfNoMore, SumIsNumber
<1> QED
  BY <1>1, <1>5, <1>7, <1>8, CountIsSum

\* remove() of one item takes exactly one away.
LEMMA TakingItems ==
  ASSUME NEW inv \in Inventories, NEW i \in 1..Slots, inv[i].kind \in Kinds
  PROVE  /\ TakeFrom(inv, i, 1) \in Inventories
         /\ ItemsIn(inv) \in Nat /\ ItemsIn(TakeFrom(inv, i, 1)) \in Nat
         /\ ItemsIn(TakeFrom(inv, i, 1)) + 1 = ItemsIn(inv)
<1>0. Slots \in Nat /\ MaxStack \in Nat
  BY InventoryAssumption
<1>1. PICK new \in Inventories :
        new = TakeFrom(inv, i, 1) /\ \A j \in 1..Slots : j # i => new[j] = inv[j]
  BY TakeKeepsInventory
<1>2. inv[i] \in Stack /\ inv[i].quantity \in 1..MaxStack
  BY SlotHolds
<1>3. new[i].quantity + 1 = inv[i].quantity
  <2>1. new[i] = IF inv[i].quantity = 1 THEN Empty ELSE [inv[i] EXCEPT !.quantity = @ - 1]
    BY <1>1 DEF TakeFrom, Inventories
  <2>2. CASE inv[i].quantity = 1
    BY <2>1, <2>2 DEF Empty
  <2>3. CASE inv[i].quantity # 1
    <3>1. new[i].quantity = inv[i].quantity - 1
      BY <1>2, <2>1, <2>3 DEF Stack
    <3> QED
      BY <1>0, <1>2, <3>1
  <2> QED
    BY <2>2, <2>3
<1> DEFINE a == [j \in 1..Slots |-> inv[j].quantity]
           b == [j \in 1..Slots |-> new[j].quantity]
<1>4. \A j \in 1..Slots : inv[j].quantity \in Nat /\ new[j].quantity \in Nat
  BY <1>0, SlotHolds
<1>5. /\ a \in [1..Slots -> Nat] /\ b \in [1..Slots -> Nat]
      /\ \A j \in 1..Slots : j # i => b[j] = a[j]
      /\ b[i] + 1 = a[i] /\ a[i] \in Nat /\ b[i] \in Nat
  BY <1>1, <1>3, <1>4
<1>6. ItemsIn(inv) = SumOf(a) /\ ItemsIn(new) = SumOf(b)
  BY DEF ItemsIn
<1> HIDE DEF a, b
<1>7. SumOf(b) + a[i] = SumOf(a) + b[i]
  BY <1>0, <1>5, SumWithChange, SMTT(30)
<1>8. SumOf(a) \in Nat /\ SumOf(b) \in Nat
  BY <1>0, <1>5, SumIsNumber
<1>9. SumOf(b) + 1 = SumOf(a)
  BY <1>5, <1>7, <1>8
<1> QED
  BY <1>1, <1>6, <1>8, <1>9

\* What an inventory holds is a number, and nothing if it is empty.
LEMMA ItemsAreNumber ==
  /\ \A inv \in Inventories : ItemsIn(inv) \in Nat
  /\ ItemsIn(EmptyInventory) = 0
<1>0. Slots \in Nat /\ MaxStack \in Nat
  BY InventoryAssumption
<1>1. ASSUME NEW inv \in Inventories PROVE ItemsIn(inv) \in Nat
  <2>1. [i \in 1..Slots |-> inv[i].quantity] \in [1..Slots -> Nat]
    BY <1>0, SlotHolds
  <2> QED
    BY <1>0, <2>1, SumIsNumber DEF ItemsIn
<1>2. ItemsIn(EmptyInventory) = 0
  <2> DEFINE a == [i \in 1..Slots |-> EmptyInventory[i].quantity]
             none == [i \in 0..Slots |-> 0]
  <2>1. a \in [1..Slots -> Nat] /\ \A i \in 1..Slots : a[i] = 0
    BY DEF EmptyInventory, Empty
  <2>2. ItemsIn(EmptyInventory) = SumOf(a)
    BY DEF ItemsIn
  <2> HIDE DEF a
  <2>3. SumsUp(none, a, Slots)
    BY <1>0, <2>1 DEF SumsUp
  <2>4. none[Slots] = 0
    BY <1>0
  <2> HIDE DEF none
  <2> QED
    BY <1>0, <2>1, <2>2, <2>3, <2>4, SumIsLast
<1> QED
  BY <1>1, <1>2

\* A list has one entry more, or the keys, pairs or owners of another place by place.
Appended(new, old) == Len(new) = Len(old) + 1 /\ \A j \in DOMAIN old : new[j] = old[j]
SameKeys(new, old) == Len(new) = Len(old) /\ \A j \in DOMAIN old : new[j][1] = old[j][1]
SamePairs(new, old) == SameKeys(new, old) /\ \A j \in DOMAIN old : new[j][2] = old[j][2]
SameOwners(new, old) ==
  SameKeys(new, old) /\ \A j \in DOMAIN old : new[j][2].owner = old[j][2].owner

\* A list of inventories gained what one of them did.
CarriedLike(new, list, inv, was) ==
  /\ Carried(new) \in Nat /\ Carried(list) \in Nat
  /\ Carried(new) + ItemsIn(was) = Carried(list) + ItemsIn(inv)

\* An inventory in a list of them is replaced.
LEMMA CarriedWith ==
  ASSUME NEW list \in Seq(PlayerId \X Inventories), NEW i \in DOMAIN list,
         NEW inv \in Inventories, NEW new, new = [list EXCEPT ![i][2] = inv]
  PROVE  /\ new \in Seq(PlayerId \X Inventories)
         /\ SameKeys(new, list) /\ CarriedLike(new, list, inv, list[i][2])
<1>0. PICK n \in Nat : n = Len(list) /\ DOMAIN list = 1..n
  OBVIOUS
<1>1. \A j \in 1..n : list[j] \in PlayerId \X Inventories
  BY <1>0
<1>2. list[i] = <<list[i][1], list[i][2]>> /\ list[i][1] \in PlayerId /\ list[i][2] \in Inventories
  BY <1>0, <1>1
<1>3. /\ new = [list EXCEPT ![i] = [list[i] EXCEPT ![2] = inv]]
      /\ [list[i] EXCEPT ![2] = inv] = <<list[i][1], inv>>
  BY <1>0, <1>2
<1>4. /\ new \in Seq(PlayerId \X Inventories) /\ Len(new) = n /\ DOMAIN new = 1..n
      /\ new[i] = <<list[i][1], inv>> /\ \A j \in 1..n : j # i => new[j] = list[j]
  BY <1>0, <1>2, <1>3
<1> DEFINE a == [j \in 1..n |-> ItemsIn(list[j][2])]
           b == [j \in 1..n |-> ItemsIn(new[j][2])]
<1>5. a \in [1..n -> Nat] /\ b \in [1..n -> Nat]
  <2>1. \A j \in 1..n : list[j][2] \in Inventories /\ new[j][2] \in Inventories
    BY <1>1, <1>4
  <2> QED
    BY <2>1, ItemsAreNumber
<1>6. /\ \A j \in 1..n : j # i => b[j] = a[j]
      /\ i \in 1..n /\ b[i] = ItemsIn(inv) /\ a[i] = ItemsIn(list[i][2])
  BY <1>0, <1>4
<1>7. Carried(list) = SumOf(a) /\ Carried(new) = SumOf(b)
  BY <1>0, <1>4 DEF Carried
<1> HIDE DEF a, b
<1>8. SumOf(b) + a[i] = SumOf(a) + b[i] /\ SumOf(a) \in Nat /\ SumOf(b) \in Nat
  BY <1>5, <1>6, SumWithChange, SumIsNumber, ZenonT(30)
<1>9. \A j \in DOMAIN list : new[j][1] = list[j][1]
  BY <1>0, <1>4
<1> QED
  BY <1>0, <1>4, <1>6, <1>7, <1>8, <1>9 DEF SameKeys, CarriedLike

\* An empty one is added.
LEMMA CarriedByOneMore ==
  ASSUME NEW list \in Seq(PlayerId \X Inventories), NEW p \in PlayerId,
         NEW new, new = Append(list, <<p, EmptyInventory>>)
  PROVE  /\ new \in Seq(PlayerId \X Inventories) /\ Appended(new, list)
         /\ new[Len(new)] = <<p, EmptyInventory>>
         /\ Carried(new) = Carried(list)
<1>0. PICK n \in Nat : n = Len(list) /\ DOMAIN list = 1..n
  OBVIOUS
<1>1. \A j \in 1..n : list[j] \in PlayerId \X Inventories
  BY <1>0
<1>2. <<p, EmptyInventory>> \in PlayerId \X Inventories
  BY EmptyIsInventory
<1>3. /\ new \in Seq(PlayerId \X Inventories) /\ Len(new) = n + 1 /\ DOMAIN new = 1..(n + 1)
      /\ new[n + 1] = <<p, EmptyInventory>> /\ \A j \in 1..n : new[j] = list[j]
  BY <1>0, <1>2
<1> DEFINE a == [j \in 1..n |-> ItemsIn(list[j][2])]
           b == [j \in 1..(n + 1) |-> ItemsIn(new[j][2])]
<1>4. a \in [1..n -> Nat]
  <2>1. \A j \in 1..n : list[j][2] \in Inventories
    BY <1>1
  <2> QED
    BY <2>1, ItemsAreNumber
<1>5. b \in [1..(n + 1) -> Nat]
  <2>1. \A j \in 1..(n + 1) : new[j] \in PlayerId \X Inventories
    BY <1>3
  <2>2. \A j \in 1..(n + 1) : new[j][2] \in Inventories
    BY <2>1
  <2> QED
    BY <2>2, ItemsAreNumber
<1>6. (\A j \in 1..n : b[j] = a[j]) /\ b[n + 1] = 0
  BY <1>3, ItemsAreNumber
<1>7. Carried(list) = SumOf(a) /\ Carried(new) = SumOf(b)
  BY <1>0, <1>3 DEF Carried
<1> HIDE DEF a, b
<1>8. SumOf(b) = SumOf(a) + b[n + 1] /\ SumOf(a) \in Nat
  BY <1>4, <1>5, <1>6, SumOfAppend, SumIsNumber
<1> QED
  BY <1>0, <1>3, <1>6, <1>7, <1>8 DEF Appended

\* An item on a plot counts one.
Content(c) == IF c = NoKind THEN 0 ELSE 1

\* A list of plots gained what one of them did.
PlacedLike(new, list, item, was) ==
  /\ Placed(new) \in Nat /\ Placed(list) \in Nat
  /\ Placed(new) + Content(was) = Placed(list) + Content(item)

\* What is on a plot in the list is replaced.
LEMMA PlacedWith ==
  ASSUME NEW list \in Seq(Plots), NEW i \in DOMAIN list, NEW item \in Kinds \cup {NoKind},
         NEW new, new = [list EXCEPT ![i][2].content = item]
  PROVE  /\ new \in Seq(Plots) /\ SameOwners(new, list)
         /\ PlacedLike(new, list, item, list[i][2].content)
<1>0. PICK n \in Nat : n = Len(list) /\ DOMAIN list = 1..n
  OBVIOUS
<1>1. \A j \in 1..n : list[j] \in Plots
  BY <1>0
<1>2. PICK plot \in PlotId, owner \in PlayerId, c \in Kinds \cup {NoKind} :
        list[i] = <<plot, [owner |-> owner, content |-> c]>>
  <2>1. list[i] \in Plots
    BY <1>0, <1>1
  <2> QED
    BY <2>1 DEF Plots
<1>3. /\ new = [list EXCEPT ![i] = [list[i] EXCEPT ![2] = [list[i][2] EXCEPT !.content = item]]]
      /\ [list[i] EXCEPT ![2] = [list[i][2] EXCEPT !.content = item]]
           = <<plot, [owner |-> owner, content |-> item]>>
  BY <1>0, <1>2
<1>4. PICK x \in Plots : x = <<plot, [owner |-> owner, content |-> item]>>
  BY DEF Plots
<1>5. /\ new \in Seq(Plots) /\ Len(new) = n /\ DOMAIN new = 1..n
      /\ new[i] = x /\ \A j \in 1..n : j # i => new[j] = list[j]
  <2>1. new = [list EXCEPT ![i] = x] /\ i \in 1..n
    BY <1>0, <1>3, <1>4
  <2> QED
    BY <1>0, <2>1
<1> DEFINE a == [j \in 1..n |-> Content(list[j][2].content)]
           b == [j \in 1..n |-> Content(new[j][2].content)]
<1>6. a \in [1..n -> Nat] /\ b \in [1..n -> Nat]
  BY DEF Content
<1>7. /\ \A j \in 1..n : j # i => b[j] = a[j]
      /\ i \in 1..n /\ b[i] = Content(item) /\ a[i] = Content(list[i][2].content)
  BY <1>0, <1>4, <1>5
<1>8. Placed(list) = SumOf(a) /\ Placed(new) = SumOf(b)
  BY <1>0, <1>5 DEF Placed, Content
<1> HIDE DEF a, b
<1>9. SumOf(b) + a[i] = SumOf(a) + b[i] /\ SumOf(a) \in Nat /\ SumOf(b) \in Nat
  BY <1>6, <1>7, SumWithChange, SumIsNumber, ZenonT(30)
<1>10. \A j \in DOMAIN list : new[j][1] = list[j][1] /\ new[j][2].owner = list[j][2].owner
  BY <1>0, <1>2, <1>4, <1>5
<1> QED
  BY <1>0, <1>5, <1>7, <1>8, <1>9, <1>10 DEF SameOwners, SameKeys, PlacedLike

\* A plot is added.
LEMMA PlacedOnOneMore ==
  ASSUME NEW list \in Seq(Plots), NEW x \in Plots, NEW new, new = Append(list, x)
  PROVE  /\ new \in Seq(Plots) /\ Appended(new, list) /\ new[Len(new)] = x
         /\ PlacedLike(new, list, x[2].content, NoKind)
<1>0. PICK n \in Nat : n = Len(list) /\ DOMAIN list = 1..n
  OBVIOUS
<1>1. /\ new \in Seq(Plots) /\ Len(new) = n + 1 /\ DOMAIN new = 1..(n + 1)
      /\ new[n + 1] = x /\ \A j \in 1..n : new[j] = list[j]
  BY <1>0
<1> DEFINE a == [j \in 1..n |-> Content(list[j][2].content)]
           b == [j \in 1..(n + 1) |-> Content(new[j][2].content)]
<1>2. a \in [1..n -> Nat] /\ b \in [1..(n + 1) -> Nat]
  BY DEF Content
<1>3. (\A j \in 1..n : b[j] = a[j]) /\ b[n + 1] = Content(x[2].content)
  BY <1>1
<1>4. Placed(list) = SumOf(a) /\ Placed(new) = SumOf(b)
  BY <1>0, <1>1 DEF Placed, Content
<1> HIDE DEF a, b
<1>5. SumOf(b) = SumOf(a) + b[n + 1] /\ SumOf(a) \in Nat /\ SumOf(b) \in Nat
  <2>1. n + 1 \in Nat
    OBVIOUS
  <2>2. SumOf(a) \in Nat /\ SumOf(b) \in Nat
    BY <1>2, <2>1, SumIsNumber, Zenon
  <2> QED
    BY <1>2, <1>3, <2>2, SumOfAppend
<1> QED
  BY <1>0, <1>1, <1>3, <1>4, <1>5 DEF Appended, PlacedLike, Content

\* The level of a bond is a number.
LEMMA BondLevel ==
  ASSUME NEW x \in Bonds
  PROVE  x[3] \in Nat
<1>1. x[3] \in 1..LastLevel
  BY DEF Bonds
<1> QED
  BY <1>1, GameStateAssumption

\* A list of bonds counts one item more.
FedOnce(new, old) == Fed(new) \in Nat /\ Fed(old) \in Nat /\ Fed(new) = Fed(old) + 1

\* A bond in the list grows by one.
LEMMA FedWith ==
  ASSUME NEW list \in Seq(Bonds), NEW i \in DOMAIN list, list[i][3] < LastLevel,
         NEW new, new = [list EXCEPT ![i][3] = @ + 1]
  PROVE  new \in Seq(Bonds) /\ SamePairs(new, list) /\ FedOnce(new, list)
<1>0. PICK n \in Nat : n = Len(list) /\ DOMAIN list = 1..n
  OBVIOUS
<1>1. \A j \in 1..n : list[j] \in Bonds
  BY <1>0
<1>2. PICK p \in PlayerId, c \in CreatureId, level \in 1..LastLevel : list[i] = <<p, c, level>>
  <2>1. list[i] \in Bonds
    BY <1>0, <1>1
  <2> QED
    BY <2>1 DEF Bonds
<1>3. /\ new = [list EXCEPT ![i] = [list[i] EXCEPT ![3] = list[i][3] + 1]]
      /\ [list[i] EXCEPT ![3] = list[i][3] + 1] = <<p, c, level + 1>>
  BY <1>0, <1>2
<1>4. <<p, c, level + 1>> \in Bonds
  <2>1. level < LastLevel
    BY <1>2
  <2>2. level + 1 \in 1..LastLevel
    BY <2>1, GameStateAssumption
  <2> QED
    BY <2>2, Zenon DEF Bonds
<1>5. /\ new \in Seq(Bonds) /\ Len(new) = n /\ DOMAIN new = 1..n
      /\ new[i] = <<p, c, level + 1>>
      /\ \A j \in 1..n : j # i => new[j] = list[j]
  <2>1. PICK bond : bond = <<p, c, level + 1>>
    OBVIOUS
  <2>2. bond \in Bonds /\ new = [list EXCEPT ![i] = bond]
    BY <1>3, <1>4, <2>1, Zenon
  <2>3. /\ new \in Seq(Bonds) /\ Len(new) = n /\ DOMAIN new = 1..n
        /\ new[i] = bond
        /\ \A j \in 1..n : j # i => new[j] = list[j]
    BY <1>0, <2>2
  <2> QED
    BY <2>1, <2>3
<1> DEFINE a == [j \in 1..n |-> list[j][3]]
           b == [j \in 1..n |-> new[j][3]]
<1>6. a \in [1..n -> Nat] /\ b \in [1..n -> Nat]
  <2>1. \A j \in 1..n : new[j] \in Bonds
    BY <1>5
  <2>2. \A j \in 1..n : list[j][3] \in Nat /\ new[j][3] \in Nat
    BY <1>1, <2>1, BondLevel
  <2> QED
    BY <2>2
<1>7. /\ \A j \in 1..n : j # i => b[j] = a[j]
      /\ i \in 1..n /\ b[i] = level + 1 /\ a[i] = level
  BY <1>0, <1>2, <1>5
<1>8. Fed(list) = SumOf(a) /\ Fed(new) = SumOf(b)
  BY <1>0, <1>5 DEF Fed
<1> HIDE DEF a, b
<1>9. SumOf(b) + a[i] = SumOf(a) + b[i] /\ SumOf(a) \in Nat /\ SumOf(b) \in Nat
  BY <1>6, <1>7, SumWithChange, SumIsNumber, ZenonT(30)
<1>10. \A j \in DOMAIN list : new[j][1] = list[j][1] /\ new[j][2] = list[j][2]
  BY <1>0, <1>2, <1>5
<1>11. SumOf(b) = SumOf(a) + 1
  <2>1. PICK l, x, y \in Nat : l = level /\ x = SumOf(a) /\ y = SumOf(b)
    BY <1>9, GameStateAssumption
  <2>2. y + l = x + (l + 1)
    BY <1>7, <1>9, <2>1
  <2>3. y = x + 1
    BY <2>2
  <2> QED
    BY <2>1, <2>3
<1> QED
  BY <1>0, <1>5, <1>8, <1>9, <1>10, <1>11 DEF FedOnce, SamePairs, SameKeys

\* A bond is added.
LEMMA FedToOneMore ==
  ASSUME NEW list \in Seq(Bonds), NEW p \in PlayerId, NEW c \in CreatureId,
         NEW new, new = Append(list, <<p, c, 1>>)
  PROVE  /\ new \in Seq(Bonds) /\ Appended(new, list) /\ FedOnce(new, list)
         /\ new[Len(new)] = <<p, c, 1>>
<1>0. PICK n \in Nat : n = Len(list) /\ DOMAIN list = 1..n
  OBVIOUS
<1>1. <<p, c, 1>> \in Bonds
  BY GameStateAssumption DEF Bonds
<1>2. /\ new \in Seq(Bonds) /\ Len(new) = n + 1 /\ DOMAIN new = 1..(n + 1)
      /\ new[n + 1] = <<p, c, 1>> /\ \A j \in 1..n : new[j] = list[j]
  BY <1>0, <1>1
<1> DEFINE a == [j \in 1..n |-> list[j][3]]
           b == [j \in 1..(n + 1) |-> new[j][3]]
<1>3. a \in [1..n -> Nat] /\ b \in [1..(n + 1) -> Nat]
  <2>1. /\ \A j \in 1..n : list[j] \in Bonds
        /\ \A j \in 1..(n + 1) : new[j] \in Bonds
    BY <1>0, <1>2
  <2>2. /\ \A j \in 1..n : list[j][3] \in Nat
        /\ \A j \in 1..(n + 1) : new[j][3] \in Nat
    BY <2>1, BondLevel
  <2> QED
    BY <2>2
<1>4. (\A j \in 1..n : b[j] = a[j]) /\ b[n + 1] = 1
  BY <1>2
<1>5. Fed(list) = SumOf(a) /\ Fed(new) = SumOf(b)
  BY <1>0, <1>2 DEF Fed
<1> HIDE DEF a, b
<1>6. SumOf(b) = SumOf(a) + b[n + 1] /\ SumOf(a) \in Nat /\ SumOf(b) \in Nat
  <2>1. n + 1 \in Nat
    OBVIOUS
  <2>2. SumOf(a) \in Nat /\ SumOf(b) \in Nat
    BY <1>3, <2>1, SumIsNumber, Zenon
  <2> QED
    BY <1>3, <1>4, <2>2, SumOfAppend
<1> QED
  BY <1>0, <1>2, <1>4, <1>5, <1>6 DEF FedOnce, Appended

-----------------------------------------------------------------------------
(* The game: its lists *)

\* What find_inventory, find_plot and find_creature_bond look for.
LEMMA FindIs ==
  ASSUME NEW list
  PROVE  /\ \A p : Find(list, <<p>>) = {i \in DOMAIN list : list[i][1] = p}
         /\ \A p, c : Find(list, <<p, c>>) = {i \in DOMAIN list : list[i][1] = p /\ list[i][2] = c}
<1>1. ASSUME NEW p PROVE Find(list, <<p>>) = {i \in DOMAIN list : list[i][1] = p}
  BY DEF Find
<1>2. ASSUME NEW p, NEW c
      PROVE  Find(list, <<p, c>>) = {i \in DOMAIN list : list[i][1] = p /\ list[i][2] = c}
  BY DEF Find
<1> QED
  BY <1>1, <1>2

\* A player has joined who has an entry.
LEMMA JoinedIs ==
  ASSUME NEW p
  PROVE  Joined(p) <=> \E j \in DOMAIN game.inventories : game.inventories[j][1] = p
<1>1. PICK list : list = game.inventories
  OBVIOUS
<1>2. Find(list, <<p>>) = {i \in DOMAIN list : list[i][1] = p}
  BY FindIs
<1> QED
  BY <1>1, <1>2 DEF Joined

\* They find the first one, if there is one.
LEMMA IndexFinds ==
  ASSUME NEW S, NEW list \in Seq(S), NEW key, Find(list, key) # {}
  PROVE  Index(list, key) \in Find(list, key)
<1>1. Find(list, key) \subseteq Nat
  BY DEF Find
<1>2. \E i \in Find(list, key) : \A j \in Find(list, key) : i <= j
  BY <1>1, LeastNatural
<1> QED
  BY <1>2 DEF Index

\* The resource of a node is a configured one.
LEMMA NodesHaveResources ==
  ASSUME NEW n \in 1..NodeCount
  PROVE  ResourceOf(n) \in [kind : Kinds, count : Nat \ {0}, yield : Nat \ {0}, respawn : Nat]
<1>0. PICK last \in Nat : last = Len(Resources) /\ DOMAIN Resources = 1..last
  BY GameStateAssumption
<1>1. \A r \in 1..last :
        Resources[r] \in [kind : Kinds, count : Nat \ {0}, yield : Nat \ {0}, respawn : Nat]
  <2> DEFINE S == [kind : Kinds, count : Nat \ {0}, yield : Nat \ {0}, respawn : Nat]
  <2>1. Resources \in Seq(S)
    BY GameStateAssumption
  <2> HIDE DEF S
  <2>2. \A r \in 1..last : Resources[r] \in S
    BY <1>0, <2>1
  <2> QED
    BY <2>2 DEF S
<1>2. ASSUME NEW r \in 1..(last + 1) PROVE Offset(r) \in Nat
  <2>1. [i \in 1..(r - 1) |-> Resources[i].count] \in [1..(r - 1) -> Nat] /\ r - 1 \in Nat
    BY <1>1
  <2> QED
    BY <2>1, SumIsNumber DEF Offset
<1>3. Offset(1) = 0
  <2> DEFINE a == [i \in 1..(1 - 1) |-> Resources[i].count]
             none == [i \in 0..0 |-> 0]
  <2>1. a \in [1..0 -> Nat] /\ Offset(1) = SumOf(a)
    BY DEF Offset
  <2> HIDE DEF a
  <2>2. SumsUp(none, a, 0) /\ none[0] = 0
    BY DEF SumsUp
  <2> HIDE DEF none
  <2>3. 0 \in Nat
    OBVIOUS
  <2> QED
    BY <2>1, <2>2, <2>3, SumIsLast
<1> DEFINE Within(r) == Offset(r) < n /\ n <= Offset(r + 1)
           T == {r \in 0..last : n <= Offset(r + 1) => \E q \in 1..last : Within(q)}
<1>4. NodeCount \in Nat /\ n \in Nat /\ n >= 1 /\ n <= Offset(last + 1)
  <2>1. NodeCount \in Nat /\ NodeCount = Offset(last + 1)
    BY <1>0, <1>2 DEF NodeCount
  <2> QED
    BY <2>1
<1>5. 0 \in T
  BY <1>3, <1>4
<1>6. ASSUME NEW r \in 1..last, r - 1 \in T PROVE r \in T
  <2>1. Offset(r) \in Nat /\ Offset(r + 1) \in Nat
    BY <1>2
  <2>2. n <= Offset(r) => \E q \in 1..last : Within(q)
    BY <1>6
  <2>3. ~ n <= Offset(r) => Offset(r) < n
    BY <1>4, <2>1
  <2> QED
    BY <2>2, <2>3
<1>7. last \in T
  <2> HIDE DEF T
  <2>1. \A r \in 0..last : r \in T
    BY <1>5, <1>6, CountingUp, Zenon
  <2> QED
    BY <2>1
<1>8. \E r \in DOMAIN Resources : Offset(r) < n /\ n <= Offset(r + 1)
  BY <1>0, <1>4, <1>7
<1> QED
  BY <1>0, <1>1, <1>8 DEF ResourceOf

\* A state and its parts.
IsGame(g, tick, nodes, players, inventories, bonds, plots) ==
  g = [tick |-> tick, nodes |-> nodes, players |-> players, inventories |-> inventories,
       bonds |-> bonds, plots |-> plots]

Fields(g, tick, nodes, players, inventories, bonds, plots) ==
  /\ g.tick = tick /\ g.nodes = nodes /\ g.players = players
  /\ g.inventories = inventories /\ g.bonds = bonds /\ g.plots = plots

\* It is put together from them.
LEMMA Assembled ==
  ASSUME NEW tick \in 0..LastTick, NEW nodes \in Nodes, NEW players \in Seq(PlayerId),
         NEW inventories \in Seq(PlayerId \X Inventories), NEW bonds \in Seq(Bonds),
         NEW plots \in Seq(Plots), NEW g,
         IsGame(g, tick, nodes, players, inventories, bonds, plots)
  PROVE  g \in Games /\ Fields(g, tick, nodes, players, inventories, bonds, plots)
BY DEF Games, IsGame, Fields

\* And taken apart.
LEMMA GameParts ==
  ASSUME NEW g \in Games
  PROVE  \E tick \in 0..LastTick, nodes \in Nodes, players \in Seq(PlayerId),
            inventories \in Seq(PlayerId \X Inventories), bonds \in Seq(Bonds),
            plots \in Seq(Plots) :
           /\ IsGame(g, tick, nodes, players, inventories, bonds, plots)
           /\ Fields(g, tick, nodes, players, inventories, bonds, plots)
<1>1. /\ g.tick \in 0..LastTick /\ g.nodes \in Nodes /\ g.players \in Seq(PlayerId)
      /\ g.inventories \in Seq(PlayerId \X Inventories)
      /\ g.bonds \in Seq(Bonds) /\ g.plots \in Seq(Plots)
      /\ g = [tick |-> g.tick, nodes |-> g.nodes, players |-> g.players,
              inventories |-> g.inventories, bonds |-> g.bonds, plots |-> g.plots]
  BY DEF Games
<1>2. /\ IsGame(g, g.tick, g.nodes, g.players, g.inventories, g.bonds, g.plots)
      /\ Fields(g, g.tick, g.nodes, g.players, g.inventories, g.bonds, g.plots)
  BY <1>1 DEF IsGame, Fields
<1> QED
  BY <1>1, <1>2, Zenon

-----------------------------------------------------------------------------
(* The game: the invariant *)

\* No list has two entries of one key, and every player has an inventory.
KeysUnique(g) ==
  /\ Len(g.inventories) = Len(g.players)
  /\ \A i \in DOMAIN g.players : g.inventories[i][1] = g.players[i]
  /\ \A i, j \in DOMAIN g.players : g.players[i] = g.players[j] => i = j
  /\ \A i, j \in DOMAIN g.bonds :
       g.bonds[i][1] = g.bonds[j][1] /\ g.bonds[i][2] = g.bonds[j][2] => i = j
  /\ \A i, j \in DOMAIN g.plots : g.plots[i][1] = g.plots[j][1] => i = j

\* Whoever owns a plot has joined.
OwnersJoined(g) ==
  \A i \in DOMAIN g.plots :
    \E j \in DOMAIN g.inventories : g.inventories[j][1] = g.plots[i][2].owner

InGame(g) == Carried(g.inventories) + Placed(g.plots) + Fed(g.bonds)

GameInv ==
  /\ GameTypeOK
  /\ KeysUnique(game) /\ OwnersJoined(game)
  /\ InGame(game) >= reported

\* What is in the game is a number.
LEMMA InGameIsNumber ==
  ASSUME NEW g \in Games
  PROVE  /\ Carried(g.inventories) \in Nat /\ Placed(g.plots) \in Nat /\ Fed(g.bonds) \in Nat
         /\ InGame(g) \in Nat
<1>1. Carried(g.inventories) \in Nat
  <2>1. PICK list \in Seq(PlayerId \X Inventories) : list = g.inventories
    BY DEF Games
  <2>2. PICK n \in Nat : n = Len(list) /\ DOMAIN list = 1..n
    OBVIOUS
  <2>3. \A j \in 1..n : list[j] \in PlayerId \X Inventories
    BY <2>2
  <2>4. [j \in 1..n |-> ItemsIn(list[j][2])] \in [1..n -> Nat]
    BY <2>3, ItemsAreNumber
  <2> QED
    BY <2>1, <2>2, <2>4, SumIsNumber DEF Carried
<1>2. Placed(g.plots) \in Nat
  <2>1. PICK list \in Seq(Plots) : list = g.plots
    BY DEF Games
  <2>2. PICK n \in Nat : n = Len(list) /\ DOMAIN list = 1..n
    OBVIOUS
  <2>3. [j \in 1..n |-> IF list[j][2].content = NoKind THEN 0 ELSE 1] \in [1..n -> Nat]
    OBVIOUS
  <2> QED
    BY <2>1, <2>2, <2>3, SumIsNumber DEF Placed
<1>3. Fed(g.bonds) \in Nat
  <2>1. PICK list \in Seq(Bonds) : list = g.bonds
    BY DEF Games
  <2>2. PICK n \in Nat : n = Len(list) /\ DOMAIN list = 1..n
    OBVIOUS
  <2>3. \A j \in 1..n : list[j] \in Bonds
    BY <2>2
  <2>4. [j \in 1..n |-> list[j][3]] \in [1..n -> Nat]
    BY <2>3, BondLevel
  <2> QED
    BY <2>1, <2>2, <2>4, SumIsNumber DEF Fed
<1> QED
  BY <1>1, <1>2, <1>3 DEF InGame

\* The number of nodes is one.
LEMMA NodesAreCounted == NodeCount \in Nat
<1>0. PICK last \in Nat : last = Len(Resources) /\ DOMAIN Resources = 1..last
  BY GameStateAssumption
<1> DEFINE S == [kind : Kinds, count : Nat \ {0}, yield : Nat \ {0}, respawn : Nat]
           a == [i \in 1..last |-> Resources[i].count]
<1>1. \A r \in 1..last : Resources[r] \in S
  <2>1. Resources \in Seq(S)
    BY GameStateAssumption
  <2> HIDE DEF S
  <2> QED
    BY <1>0, <2>1
<1>2. a \in [1..last -> Nat]
  BY <1>1
<1>3. (last + 1) - 1 = last
  OBVIOUS
<1>4. NodeCount = SumOf(a)
  BY <1>0, <1>3 DEF NodeCount, Offset
<1> HIDE DEF a
<1> QED
  BY <1>2, <1>4, SumIsNumber

\* The initial state.
LEMMA GameStarts == GameInit => GameInv
<1> SUFFICES ASSUME GameInit PROVE GameInv
  OBVIOUS
<1>1. PICK nodes \in Nodes :
        nodes = [n \in 1..NodeCount |-> [available |-> TRUE, respawnAt |-> 0]]
  BY DEF Nodes
<1>2. game = [tick |-> 0, nodes |-> nodes, players |-> <<>>, inventories |-> <<>>,
              bonds |-> <<>>, plots |-> <<>>]
  BY <1>1 DEF GameInit
<1>3. /\ game \in Games
      /\ game.players = <<>> /\ game.inventories = <<>> /\ game.bonds = <<>> /\ game.plots = <<>>
  <2>1. 0 \in 0..LastTick
    BY GameStateAssumption
  <2>2. /\ <<>> \in Seq(PlayerId) /\ <<>> \in Seq(PlayerId \X Inventories)
        /\ <<>> \in Seq(Bonds) /\ <<>> \in Seq(Plots)
    OBVIOUS
  <2> QED
    BY <1>2, <2>1, <2>2 DEF Games
<1>4. KeysUnique(game) /\ OwnersJoined(game)
  BY <1>3 DEF KeysUnique, OwnersJoined
<1>5. reported = 0 /\ InGame(game) \in Nat
  BY <1>3, InGameIsNumber DEF GameInit
<1> QED
  BY <1>3, <1>4, <1>5 DEF GameInv, GameTypeOK

\* Entries that keep their keys stay unique, and new ones are if their key was not there.
PairsKept(new, old) ==
  \/ SamePairs(new, old)
  \/ /\ Appended(new, old)
     /\ \A j \in DOMAIN old :
          ~ (old[j][1] = new[Len(new)][1] /\ old[j][2] = new[Len(new)][2])

PlotsKept(new, old, inventories) ==
  \/ SameOwners(new, old)
  \/ /\ Appended(new, old)
     /\ \A j \in DOMAIN old : old[j][1] # new[Len(new)][1]
     /\ \E j \in DOMAIN inventories : inventories[j][1] = new[Len(new)][2].owner

\* Sizes of a list with one entry more.
LEMMA OneEntryMore ==
  ASSUME NEW S, NEW old \in Seq(S), NEW new \in Seq(S), Appended(new, old)
  PROVE  \E n \in Nat :
           /\ n = Len(old) /\ DOMAIN old = 1..n /\ n + 1 = Len(new) /\ DOMAIN new = 1..(n + 1)
           /\ \A i \in 1..n : new[i] = old[i]
           /\ \A i \in 1..(n + 1) : i \in 1..n \/ i = n + 1
<1>1. PICK n \in Nat : n = Len(old) /\ DOMAIN old = 1..n
  OBVIOUS
<1>2. n + 1 = Len(new) /\ DOMAIN new = 1..(n + 1) /\ \A i \in 1..n : new[i] = old[i]
  BY <1>1 DEF Appended
<1>3. \A i \in 1..(n + 1) : i \in 1..n \/ i = n + 1
  BY <1>1
<1> QED
  BY <1>1, <1>2, <1>3, Zenon

\* No pair is twice in the list of bonds.
LEMMA BondsKept ==
  ASSUME NEW old \in Seq(Bonds), NEW new \in Seq(Bonds), PairsKept(new, old),
         \A i, j \in DOMAIN old : old[i][1] = old[j][1] /\ old[i][2] = old[j][2] => i = j
  PROVE  \A i, j \in DOMAIN new : new[i][1] = new[j][1] /\ new[i][2] = new[j][2] => i = j
<1>1. CASE SamePairs(new, old)
  <2>1. DOMAIN new = DOMAIN old
    BY <1>1 DEF SamePairs, SameKeys
  <2> QED
    BY <1>1, <2>1 DEF SamePairs, SameKeys
<1>2. CASE ~ SamePairs(new, old)
  <2>1. /\ Appended(new, old)
        /\ \A j \in DOMAIN old :
             ~ (old[j][1] = new[Len(new)][1] /\ old[j][2] = new[Len(new)][2])
    BY <1>2 DEF PairsKept
  <2>2. PICK n \in Nat :
          /\ n = Len(old) /\ DOMAIN old = 1..n /\ n + 1 = Len(new) /\ DOMAIN new = 1..(n + 1)
          /\ \A i \in 1..n : new[i] = old[i]
          /\ \A i \in 1..(n + 1) : i \in 1..n \/ i = n + 1
    BY <2>1, OneEntryMore
  <2> SUFFICES ASSUME NEW i \in 1..(n + 1), NEW j \in 1..(n + 1),
                      new[i][1] = new[j][1] /\ new[i][2] = new[j][2]
               PROVE  i = j
    BY <2>2
  <2>3. CASE i \in 1..n /\ j \in 1..n
    BY <2>2, <2>3
  <2>4. CASE i \in 1..n /\ j = n + 1
    BY <2>1, <2>2, <2>4
  <2>5. CASE j \in 1..n /\ i = n + 1
    BY <2>1, <2>2, <2>5
  <2> QED
    BY <2>2, <2>3, <2>4, <2>5
<1> QED
  BY <1>1, <1>2

\* No plot is twice in the list of plots, and each is owned by one of the players.
LEMMA PlotsStay ==
  ASSUME NEW old \in Seq(Plots), NEW new \in Seq(Plots), NEW inventories,
         PlotsKept(new, old, inventories),
         \A i, j \in DOMAIN old : old[i][1] = old[j][1] => i = j,
         \A i \in DOMAIN old : \E j \in DOMAIN inventories : inventories[j][1] = old[i][2].owner
  PROVE  /\ \A i, j \in DOMAIN new : new[i][1] = new[j][1] => i = j
         /\ \A i \in DOMAIN new :
              \E j \in DOMAIN inventories : inventories[j][1] = new[i][2].owner
<1>1. CASE SameOwners(new, old)
  <2>1. DOMAIN new = DOMAIN old
    BY <1>1 DEF SameOwners, SameKeys
  <2>2. \A i \in DOMAIN old : new[i][1] = old[i][1] /\ new[i][2].owner = old[i][2].owner
    BY <1>1 DEF SameOwners, SameKeys
  <2>3. \A i, j \in DOMAIN new : new[i][1] = new[j][1] => i = j
    BY <2>1, <2>2
  <2>4. ASSUME NEW i \in DOMAIN new
        PROVE  \E j \in DOMAIN inventories : inventories[j][1] = new[i][2].owner
    BY <2>1, <2>2
  <2> QED
    BY <2>3, <2>4
<1>2. CASE ~ SameOwners(new, old)
  <2>1. /\ Appended(new, old)
        /\ \A j \in DOMAIN old : old[j][1] # new[Len(new)][1]
        /\ \E j \in DOMAIN inventories : inventories[j][1] = new[Len(new)][2].owner
    BY <1>2 DEF PlotsKept
  <2>2. PICK n \in Nat :
          /\ n = Len(old) /\ DOMAIN old = 1..n /\ n + 1 = Len(new) /\ DOMAIN new = 1..(n + 1)
          /\ \A i \in 1..n : new[i] = old[i]
          /\ \A i \in 1..(n + 1) : i \in 1..n \/ i = n + 1
    BY <2>1, OneEntryMore
  <2>3. ASSUME NEW i \in 1..(n + 1), NEW j \in 1..(n + 1), new[i][1] = new[j][1]
        PROVE  i = j
    <3>1. CASE i \in 1..n /\ j \in 1..n
      BY <2>2, <2>3, <3>1
    <3>2. CASE i \in 1..n /\ j = n + 1
      BY <2>1, <2>2, <2>3, <3>2
    <3>3. CASE j \in 1..n /\ i = n + 1
      BY <2>1, <2>2, <2>3, <3>3
    <3> QED
      BY <2>2, <3>1, <3>2, <3>3
  <2>4. ASSUME NEW i \in 1..(n + 1)
        PROVE  \E j \in DOMAIN inventories : inventories[j][1] = new[i][2].owner
    <3>1. CASE i \in 1..n
      BY <2>2, <3>1
    <3>2. CASE i = n + 1
      BY <2>1, <2>2, <3>2
    <3> QED
      BY <2>2, <3>1, <3>2
  <2> QED
    BY <2>2, <2>3, <2>4
<1> QED
  BY <1>1, <1>2

\* So the lists stay as they should be.
LEMMA ListsKept ==
  ASSUME NEW g \in Games, NEW h \in Games, KeysUnique(g), OwnersJoined(g),
         h.players = g.players, SameKeys(h.inventories, g.inventories),
         PairsKept(h.bonds, g.bonds), PlotsKept(h.plots, g.plots, g.inventories)
  PROVE  KeysUnique(h) /\ OwnersJoined(h)
<1>0. PICK players \in Seq(PlayerId), inventories \in Seq(PlayerId \X Inventories),
           bonds \in Seq(Bonds), plots \in Seq(Plots),
           inventories2 \in Seq(PlayerId \X Inventories),
           bonds2 \in Seq(Bonds), plots2 \in Seq(Plots) :
        /\ players = g.players /\ inventories = g.inventories /\ bonds = g.bonds
        /\ plots = g.plots /\ players = h.players /\ inventories2 = h.inventories
        /\ bonds2 = h.bonds /\ plots2 = h.plots
  BY GameParts DEF Fields
<1>1. DOMAIN inventories2 = DOMAIN inventories /\ DOMAIN inventories = DOMAIN players
  BY <1>0 DEF KeysUnique, SameKeys
<1>2. \A i, j \in DOMAIN bonds2 :
        bonds2[i][1] = bonds2[j][1] /\ bonds2[i][2] = bonds2[j][2] => i = j
  <2>1. \A i, j \in DOMAIN bonds : bonds[i][1] = bonds[j][1] /\ bonds[i][2] = bonds[j][2] => i = j
    BY <1>0 DEF KeysUnique
  <2>2. PairsKept(bonds2, bonds)
    BY <1>0
  <2> QED
    BY <2>1, <2>2, BondsKept
<1>3. /\ \A i, j \in DOMAIN plots2 : plots2[i][1] = plots2[j][1] => i = j
      /\ \A i \in DOMAIN plots2 :
           \E j \in DOMAIN inventories : inventories[j][1] = plots2[i][2].owner
  <2>1. \A i, j \in DOMAIN plots : plots[i][1] = plots[j][1] => i = j
    BY <1>0 DEF KeysUnique
  <2>2. \A i \in DOMAIN plots : \E j \in DOMAIN inventories : inventories[j][1] = plots[i][2].owner
    BY <1>0 DEF OwnersJoined
  <2>3. PlotsKept(plots2, plots, inventories)
    BY <1>0
  <2> QED
    BY <2>1, <2>2, <2>3, PlotsStay
<1>4. KeysUnique(h)
  BY <1>0, <1>1, <1>2, <1>3 DEF KeysUnique, SameKeys
<1>5. OwnersJoined(h)
  BY <1>0, <1>1, <1>3 DEF OwnersJoined, SameKeys
<1> QED
  BY <1>4, <1>5

\* Time passes.
LEMMA TickKeeps == GameInv /\ ApplyTick => GameInv'
<1> SUFFICES ASSUME GameInv, ApplyTick PROVE GameInv'
  OBVIOUS
<1>0. PICK h : h = game'
  OBVIOUS
<1>1. PICK g \in Games : g = game /\ g.tick < LastTick
  BY DEF GameInv, GameTypeOK, ApplyTick
<1>2. PICK tick \in 0..LastTick, nodes \in Nodes, players \in Seq(PlayerId),
           inventories \in Seq(PlayerId \X Inventories), bonds \in Seq(Bonds),
           plots \in Seq(Plots) :
        /\ IsGame(g, tick, nodes, players, inventories, bonds, plots)
        /\ Fields(g, tick, nodes, players, inventories, bonds, plots)
  BY GameParts
<1>3. PICK new : new = [n \in DOMAIN nodes |->
                    IF ~nodes[n].available /\ tick + 1 >= nodes[n].respawnAt
                    THEN [nodes[n] EXCEPT !.available = TRUE] ELSE nodes[n]]
  OBVIOUS
<1>4. new \in Nodes
  <2>1. \A n \in 1..NodeCount : nodes[n] \in [available : BOOLEAN, respawnAt : Nat]
    BY DEF Nodes
  <2>2. \A n \in 1..NodeCount :
          [nodes[n] EXCEPT !.available = TRUE] \in [available : BOOLEAN, respawnAt : Nat]
    BY <2>1
  <2> QED
    BY <1>3, <2>1, <2>2 DEF Nodes
<1>5. IsGame(h, tick + 1, new, players, inventories, bonds, plots)
  <2>1. h = [g EXCEPT !.tick = tick + 1, !.nodes = new]
    BY <1>0, <1>1, <1>2, <1>3 DEF ApplyTick, Fields
  <2> QED
    BY <1>2, <2>1 DEF IsGame
<1>6. tick + 1 \in 0..LastTick
  BY <1>0, <1>1, <1>2, GameStateAssumption DEF Fields
<1>7. h \in Games /\ Fields(h, tick + 1, new, players, inventories, bonds, plots)
  BY <1>4, <1>5, <1>6, Assembled
<1>8. KeysUnique(h) /\ OwnersJoined(h) /\ InGame(h) = InGame(g)
  BY <1>0, <1>1, <1>2, <1>7 DEF GameInv, KeysUnique, OwnersJoined, InGame, Fields
<1> QED
  BY <1>0, <1>1, <1>7, <1>8 DEF GameInv, GameTypeOK, ApplyTick

\* A player joins.
LEMMA JoinKeeps ==
  ASSUME GameInv, NEW p \in PlayerId, ApplyJoinPlayer(p)
  PROVE  GameInv'
<1>0. PICK h : h = game'
  OBVIOUS
<1>1. PICK g \in Games : g = game
  BY DEF GameInv, GameTypeOK, ApplyJoinPlayer
<1>2. PICK tick \in 0..LastTick, nodes \in Nodes, players \in Seq(PlayerId),
           inventories \in Seq(PlayerId \X Inventories), bonds \in Seq(Bonds),
           plots \in Seq(Plots) :
        /\ IsGame(g, tick, nodes, players, inventories, bonds, plots)
        /\ Fields(g, tick, nodes, players, inventories, bonds, plots)
  BY GameParts
<1>3. PICK players2 \in Seq(PlayerId) :
        /\ players2 = Append(players, p) /\ Appended(players2, players)
        /\ players2[Len(players2)] = p
  <2>1. PICK players2 : players2 = Append(players, p)
    OBVIOUS
  <2>2. players2 \in Seq(PlayerId) /\ Appended(players2, players) /\ players2[Len(players2)] = p
    BY <2>1 DEF Appended
  <2> QED
    BY <2>1, <2>2
<1>4. PICK inventories2 \in Seq(PlayerId \X Inventories) :
        /\ inventories2 = Append(inventories, <<p, EmptyInventory>>)
        /\ Appended(inventories2, inventories)
        /\ inventories2[Len(inventories2)] = <<p, EmptyInventory>>
        /\ Carried(inventories2) = Carried(inventories)
  BY CarriedByOneMore
<1>5. IsGame(h, tick, nodes, players2, inventories2, bonds, plots)
  <2>1. h = [g EXCEPT !.players = players2, !.inventories = inventories2]
    BY <1>0, <1>1, <1>2, <1>3, <1>4 DEF ApplyJoinPlayer, Fields
  <2> QED
    BY <1>2, <2>1 DEF IsGame
<1>6. h \in Games /\ Fields(h, tick, nodes, players2, inventories2, bonds, plots)
  BY <1>5, Assembled
<1>7. KeysUnique(g) /\ OwnersJoined(g)
  BY <1>0, <1>1 DEF GameInv
<1>8. PICK n \in Nat :
        /\ n = Len(players) /\ n = Len(inventories)
        /\ DOMAIN players = 1..n /\ DOMAIN inventories = 1..n
        /\ DOMAIN players2 = 1..(n + 1) /\ DOMAIN inventories2 = 1..(n + 1)
        /\ Len(players2) = n + 1 /\ Len(inventories2) = n + 1
  <2>1. Len(players) = Len(inventories)
    BY <1>2, <1>7 DEF KeysUnique, Fields
  <2>2. Len(players2) = Len(players) + 1 /\ Len(inventories2) = Len(inventories) + 1
    BY <1>3, <1>4 DEF Appended
  <2> QED
    BY <2>1, <2>2
<1>9. KeysUnique(h)
  <2>1. \A i \in 1..n : players[i] # p
    BY <1>0, <1>1, <1>2, <1>8 DEF Range, Fields, ApplyJoinPlayer
  <2>2. \A i \in 1..n : players2[i] = players[i] /\ inventories2[i][1] = players[i]
    BY <1>2, <1>3, <1>4, <1>7, <1>8 DEF KeysUnique, Appended, Fields
  <2>3. players2[n + 1] = p /\ inventories2[n + 1][1] = p
    BY <1>3, <1>4, <1>8
  <2>0. \A i \in 1..(n + 1) : i \in 1..n \/ i = n + 1
    OBVIOUS
  <2>4. \A i \in 1..(n + 1) : inventories2[i][1] = players2[i]
    BY <2>0, <2>2, <2>3
  <2>5. \A i, j \in 1..(n + 1) : players2[i] = players2[j] => i = j
    <3>1. \A i, j \in 1..n : players[i] = players[j] => i = j
      BY <1>2, <1>7, <1>8 DEF KeysUnique, Fields
    <3> QED
      BY <2>0, <2>1, <2>2, <2>3, <3>1
  <2> QED
    BY <1>2, <1>6, <1>7, <1>8, <2>4, <2>5 DEF KeysUnique, Fields
<1>10. OwnersJoined(h)
  <2>1. \A i \in DOMAIN plots : \E j \in 1..n : inventories[j][1] = plots[i][2].owner
    BY <1>2, <1>7, <1>8 DEF OwnersJoined, Fields
  <2>2. \A j \in 1..n : inventories2[j] = inventories[j] /\ j \in 1..(n + 1)
    BY <1>4, <1>8 DEF Appended
  <2> QED
    BY <1>6, <1>8, <2>1, <2>2 DEF OwnersJoined, Fields
<1>11. InGame(h) = InGame(g)
  BY <1>2, <1>4, <1>6 DEF InGame, Fields
<1> QED
  BY <1>0, <1>1, <1>6, <1>9, <1>10, <1>11 DEF GameInv, GameTypeOK, ApplyJoinPlayer

\* The inventory a reducer finds for a player who has joined, replaced by another.
LEMMA InventoryReplaced ==
  ASSUME GameInv, NEW p, Joined(p), NEW new \in Inventories
  PROVE  /\ InventoryOf(p) \in Inventories
         /\ With(p, new) \in Seq(PlayerId \X Inventories)
         /\ SameKeys(With(p, new), game.inventories)
         /\ CarriedLike(With(p, new), game.inventories, new, InventoryOf(p))
<1>1. PICK list \in Seq(PlayerId \X Inventories) : list = game.inventories
  BY GameParts DEF Fields, GameInv, GameTypeOK
<1>2. PICK i \in DOMAIN list : i = Index(list, <<p>>) /\ list[i][1] = p
  <2>1. Find(list, <<p>>) # {}
    BY <1>1 DEF Joined
  <2>2. Index(list, <<p>>) \in Find(list, <<p>>)
    BY <2>1, IndexFinds
  <2> QED
    BY <2>2, FindIs
<1>3. list[i] \in PlayerId \X Inventories
  OBVIOUS
<1>4. InventoryOf(p) = list[i][2] /\ InventoryOf(p) \in Inventories
  BY <1>1, <1>2, <1>3 DEF InventoryOf
<1>5. PICK list2 : list2 = With(p, new) /\ list2 = [list EXCEPT ![i][2] = new]
  BY <1>1, <1>2 DEF With
<1>6. /\ list2 \in Seq(PlayerId \X Inventories)
      /\ SameKeys(list2, list) /\ CarriedLike(list2, list, new, list[i][2])
  BY <1>5, CarriedWith
<1> QED
  BY <1>1, <1>4, <1>5, <1>6

\* A step that changes the lists as they may be changed, and counts no more than there is.
LEMMA StepKeeps ==
  ASSUME GameInv, NEW nodes \in Nodes, NEW inventories \in Seq(PlayerId \X Inventories),
         NEW bonds \in Seq(Bonds), NEW plots \in Seq(Plots),
         game' = [game EXCEPT !.nodes = nodes, !.inventories = inventories,
                              !.bonds = bonds, !.plots = plots],
         SameKeys(inventories, game.inventories), PairsKept(bonds, game.bonds),
         PlotsKept(plots, game.plots, game.inventories),
         reported' \in Nat,
         NEW all \in Nat, all = Carried(inventories) + Placed(plots) + Fed(bonds),
         all >= reported'
  PROVE  GameInv'
<1>0. PICK h : h = game'
  OBVIOUS
<1>1. PICK g \in Games : g = game /\ KeysUnique(g) /\ OwnersJoined(g)
  BY DEF GameInv, GameTypeOK
<1>2. PICK tick \in 0..LastTick, nodes1 \in Nodes, players \in Seq(PlayerId),
           inventories1 \in Seq(PlayerId \X Inventories), bonds1 \in Seq(Bonds),
           plots1 \in Seq(Plots) :
        /\ IsGame(g, tick, nodes1, players, inventories1, bonds1, plots1)
        /\ Fields(g, tick, nodes1, players, inventories1, bonds1, plots1)
  BY GameParts
<1>3. IsGame(h, tick, nodes, players, inventories, bonds, plots)
  <2>1. h = [g EXCEPT !.nodes = nodes, !.inventories = inventories,
                      !.bonds = bonds, !.plots = plots]
    BY <1>0, <1>1
  <2> QED
    BY <1>2, <2>1 DEF IsGame
<1>4. h \in Games /\ Fields(h, tick, nodes, players, inventories, bonds, plots)
  BY <1>3, Assembled
<1>5. KeysUnique(h) /\ OwnersJoined(h)
  <2>1. h.players = g.players
    BY <1>2, <1>4 DEF Fields
  <2>2. /\ SameKeys(h.inventories, g.inventories) /\ PairsKept(h.bonds, g.bonds)
        /\ PlotsKept(h.plots, g.plots, g.inventories)
    BY <1>0, <1>1, <1>4 DEF Fields
  <2> QED
    BY <1>0, <1>1, <1>4, <2>1, <2>2, ListsKept
<1>6. InGame(h) >= reported'
  <2>1. InGame(h) = all
    BY <1>4 DEF InGame, Fields
  <2> QED
    BY <2>1
<1> QED
  BY <1>0, <1>1, <1>4, <1>5, <1>6 DEF GameInv, GameTypeOK

\* The lists a step does not change.
LEMMA ListsUnchanged ==
  ASSUME GameInv
  PROVE  /\ game \in [tick : 0..LastTick, nodes : Nodes, players : Seq(PlayerId),
                      inventories : Seq(PlayerId \X Inventories), bonds : Seq(Bonds),
                      plots : Seq(Plots)]
         /\ game.nodes \in Nodes /\ game.inventories \in Seq(PlayerId \X Inventories)
         /\ game.bonds \in Seq(Bonds) /\ game.plots \in Seq(Plots)
         /\ PairsKept(game.bonds, game.bonds)
         /\ PlotsKept(game.plots, game.plots, game.inventories)
         /\ Carried(game.inventories) \in Nat /\ Placed(game.plots) \in Nat
         /\ Fed(game.bonds) \in Nat /\ reported \in Nat
         /\ Carried(game.inventories) + Placed(game.plots) + Fed(game.bonds) >= reported
<1>1. game \in Games /\ reported \in Nat /\ InGame(game) >= reported
  BY DEF GameInv, GameTypeOK
<1>2. PairsKept(game.bonds, game.bonds) /\ PlotsKept(game.plots, game.plots, game.inventories)
  BY DEF PairsKept, PlotsKept, SamePairs, SameOwners, SameKeys
<1>3. /\ Carried(game.inventories) \in Nat /\ Placed(game.plots) \in Nat
      /\ Fed(game.bonds) \in Nat
  BY <1>1, InGameIsNumber
<1>4. /\ game.nodes \in Nodes /\ game.inventories \in Seq(PlayerId \X Inventories)
      /\ game.bonds \in Seq(Bonds) /\ game.plots \in Seq(Plots)
  BY <1>1 DEF Games
<1> QED
  BY <1>1, <1>2, <1>3, <1>4 DEF InGame, Games

\* A player collects from a node: what the event speaks of is in the inventory, and what is
\* kept without an event is more.
LEMMA CollectKeeps ==
  ASSUME GameInv, NEW p \in PlayerId, NEW n \in 1..NodeCount, ApplyCollect(p, n)
  PROVE  GameInv'
<1>1. PICK kind \in Kinds, yield \in Nat, respawn \in Nat :
        kind = ResourceOf(n).kind /\ yield = ResourceOf(n).yield
          /\ respawn = ResourceOf(n).respawn
  BY NodesHaveResources
<1>2. Joined(p) /\ EmptyInventory \in Inventories
  BY EmptyIsInventory DEF ApplyCollect
<1>3. PICK inv \in Inventories : inv = InventoryOf(p)
  BY <1>2, InventoryReplaced
<1>4. PICK new \in Inventories :
        /\ new = Add(inv, kind, yield)
        /\ ItemsIn(new) \in Nat /\ ItemsIn(inv) \in Nat /\ ItemsIn(inv) <= ItemsIn(new)
        /\ ItemsIn(new) + CountKind(inv, kind) = ItemsIn(inv) + CountKind(new, kind)
  BY AddingItems
<1>5. PICK inventories \in Seq(PlayerId \X Inventories) :
        /\ inventories = With(p, new)
        /\ SameKeys(inventories, game.inventories)
        /\ CarriedLike(inventories, game.inventories, new, inv)
  BY <1>2, <1>3, InventoryReplaced
<1>6. CountKind(new, kind) \in Nat /\ CountKind(inv, kind) \in Nat
  BY CountIsNumber
<1>7. PICK a, a2, c, c2, x, x2, y, z, seen \in Nat :
        /\ a = ItemsIn(inv) /\ a2 = ItemsIn(new)
        /\ c = CountKind(inv, kind) /\ c2 = CountKind(new, kind)
        /\ x = Carried(game.inventories) /\ x2 = Carried(inventories)
        /\ y = Placed(game.plots) /\ z = Fed(game.bonds) /\ seen = reported
        /\ x + y + z >= seen
  <2>1. Carried(inventories) \in Nat
    BY <1>5 DEF CarriedLike
  <2> QED
    BY <1>4, <1>6, <2>1, ListsUnchanged, Zenon
<1>8. a <= a2 /\ a2 + c = a + c2 /\ x2 + a = x + a2 /\ x + y + z >= seen
  BY <1>4, <1>5, <1>7 DEF CarriedLike
<1>9. PICK g : g = game
  OBVIOUS
<1>10. PICK tick \in Nat : tick = g.tick
  BY <1>9, ListsUnchanged, GameStateAssumption
<1>11. CASE /\ StoredBy(inv, kind, yield) = yield
            /\ game' = [game EXCEPT
                 !.inventories = With(p, new),
                 !.nodes[n] = [available |-> FALSE, respawnAt |-> game.tick + respawn]]
            /\ reported' = reported + yield
  <2>1. PICK nodes \in Nodes :
          nodes = [game.nodes EXCEPT ![n] = [available |-> FALSE, respawnAt |-> tick + respawn]]
    <3>1. PICK nodes \in Nodes : nodes = game.nodes
      BY ListsUnchanged
    <3>2. PICK node \in [available : BOOLEAN, respawnAt : Nat] :
            node = [available |-> FALSE, respawnAt |-> tick + respawn]
      <4>1. PICK later \in Nat : later = tick + respawn
        OBVIOUS
      <4>2. [available |-> FALSE, respawnAt |-> later] \in [available : BOOLEAN, respawnAt : Nat]
        OBVIOUS
      <4> QED
        BY <4>1, <4>2
    <3>3. [nodes EXCEPT ![n] = node] \in Nodes
      BY DEF Nodes
    <3> QED
      BY <3>1, <3>2, <3>3
  <2>2. game' = [game EXCEPT !.nodes = nodes, !.inventories = inventories,
                             !.bonds = game.bonds, !.plots = game.plots]
    BY <1>5, <1>9, <1>10, <1>11, <2>1, ListsUnchanged
  <2>3. c2 - c = yield
    BY <1>4, <1>7, <1>11 DEF StoredBy
  <2>4. PICK all \in Nat : all = x2 + y + z
    OBVIOUS
  <2>5. reported' \in Nat /\ all >= reported'
    <3>1. all >= seen + yield /\ seen + yield \in Nat
      BY <1>8, <2>3, <2>4
    <3>2. reported' = seen + yield
      BY <1>7, <1>11
    <3> QED
      BY <3>1, <3>2
  <2>6. all = Carried(inventories) + Placed(game.plots) + Fed(game.bonds)
    BY <1>7, <2>4
  <2> QED
    BY <1>5, <2>2, <2>5, <2>6, ListsUnchanged, StepKeeps
<1>12. CASE game' = [game EXCEPT !.inventories = With(p, new)] /\ UNCHANGED reported
  <2>1. game' = [game EXCEPT !.nodes = game.nodes, !.inventories = inventories,
                             !.bonds = game.bonds, !.plots = game.plots]
    BY <1>5, <1>12, ListsUnchanged
  <2>2. PICK all \in Nat : all = x2 + y + z
    OBVIOUS
  <2>3. reported' \in Nat /\ all >= reported'
    <3>1. all >= seen
      BY <1>8, <2>2
    <3>2. reported' = seen
      BY <1>7, <1>12, Zenon
    <3> QED
      BY <3>1, <3>2
  <2>4. all = Carried(inventories) + Placed(game.plots) + Fed(game.bonds)
    BY <1>7, <2>2
  <2> QED
    BY <1>5, <2>1, <2>3, <2>4, ListsUnchanged, StepKeeps
<1> QED
  BY <1>1, <1>3, <1>4, <1>11, <1>12 DEF ApplyCollect

\* A player feeds a creature: what leaves the slot is in the bond.
LEMMA FeedKeeps ==
  ASSUME GameInv, NEW p \in PlayerId, NEW c \in CreatureId, NEW slot \in 1..Slots,
         ApplyFeed(p, c, slot)
  PROVE  GameInv'
<1>1. Joined(p) /\ EmptyInventory \in Inventories
  BY EmptyIsInventory DEF ApplyFeed
<1>2. PICK inv \in Inventories : inv = InventoryOf(p)
  BY <1>1, InventoryReplaced
<1>3. inv[slot].kind \in Kinds
  BY <1>2, GameStateAssumption DEF ApplyFeed
<1>4. PICK new \in Inventories :
        /\ new = TakeFrom(inv, slot, 1)
        /\ ItemsIn(inv) \in Nat /\ ItemsIn(new) \in Nat /\ ItemsIn(new) + 1 = ItemsIn(inv)
  BY <1>3, TakingItems
<1>5. PICK inventories \in Seq(PlayerId \X Inventories) :
        /\ inventories = With(p, new)
        /\ SameKeys(inventories, game.inventories)
        /\ CarriedLike(inventories, game.inventories, new, inv)
  BY <1>1, <1>2, InventoryReplaced
<1>6. PICK old \in Seq(Bonds) : old = game.bonds
  BY ListsUnchanged
<1>7. PICK bonds \in Seq(Bonds) :
        /\ bonds = Grown(old, p, c) /\ PairsKept(bonds, old) /\ FedOnce(bonds, old)
  <2>1. CASE Find(old, <<p, c>>) = {}
    <3>1. PICK bonds : bonds = Append(old, <<p, c, 1>>)
      OBVIOUS
    <3>2. /\ bonds \in Seq(Bonds) /\ Appended(bonds, old) /\ FedOnce(bonds, old)
          /\ bonds[Len(bonds)] = <<p, c, 1>>
      BY <3>1, FedToOneMore, Zenon
    <3>3. \A j \in DOMAIN old : ~ (old[j][1] = p /\ old[j][2] = c)
      BY <2>1, FindIs
    <3>4. PairsKept(bonds, old)
      BY <3>2, <3>3 DEF PairsKept
    <3> QED
      BY <2>1, <3>1, <3>2, <3>4 DEF Grown
  <2>2. CASE Find(old, <<p, c>>) # {}
    <3>1. Index(old, <<p, c>>) \in Find(old, <<p, c>>)
      BY <2>2, IndexFinds
    <3>2. PICK i \in DOMAIN old : i = Index(old, <<p, c>>)
      BY <3>1 DEF Find
    <3>3. old[i][3] < LastLevel
      BY <1>6, <3>1, <3>2 DEF ApplyFeed
    <3>4. PICK bonds : bonds = [old EXCEPT ![i][3] = @ + 1]
      OBVIOUS
    <3>5. bonds \in Seq(Bonds) /\ SamePairs(bonds, old) /\ FedOnce(bonds, old)
      BY <3>3, <3>4, FedWith, Zenon
    <3> QED
      BY <2>2, <3>2, <3>4, <3>5 DEF PairsKept, Grown
  <2> QED
    BY <2>1, <2>2
<1>8. PICK a, a2, x, x2, y, z, z2, seen \in Nat :
        /\ a = ItemsIn(inv) /\ a2 = ItemsIn(new)
        /\ x = Carried(game.inventories) /\ x2 = Carried(inventories)
        /\ y = Placed(game.plots) /\ z = Fed(game.bonds) /\ z2 = Fed(bonds) /\ seen = reported
        /\ x + y + z >= seen
  <2>1. Carried(inventories) \in Nat /\ Fed(bonds) \in Nat
    BY <1>5, <1>7 DEF CarriedLike, FedOnce
  <2> QED
    BY <1>4, <2>1, ListsUnchanged, Zenon
<1>9. a2 + 1 = a /\ x2 + a = x + a2 /\ z2 = z + 1 /\ x + y + z >= seen
  BY <1>4, <1>5, <1>6, <1>7, <1>8 DEF CarriedLike, FedOnce
<1>10. game' = [game EXCEPT !.nodes = game.nodes, !.inventories = inventories,
                            !.bonds = bonds, !.plots = game.plots]
  <2>1. game' = [game EXCEPT !.inventories = inventories, !.bonds = Grown(@, p, c)]
    BY <1>2, <1>4, <1>5 DEF ApplyFeed
  <2>2. bonds = Grown(game.bonds, p, c)
    BY <1>6, <1>7
  <2> QED
    BY <2>1, <2>2, ListsUnchanged
<1>11. PICK all \in Nat : all = x2 + y + z2
  OBVIOUS
<1>12. all >= seen
  BY <1>9, <1>11
<1>13. reported' \in Nat /\ all >= reported'
  BY <1>8, <1>12 DEF ApplyFeed
<1>14. all = Carried(inventories) + Placed(game.plots) + Fed(bonds)
  BY <1>8, <1>11
<1> QED
  BY <1>5, <1>6, <1>7, <1>10, <1>13, <1>14, ListsUnchanged, StepKeeps

\* A player places an item on a plot: what leaves the slot is on the plot.
LEMMA PlaceKeeps ==
  ASSUME GameInv, NEW p \in PlayerId, NEW plot \in PlotId, NEW item \in Kinds,
         NEW slot \in 1..Slots, ApplyPlaceOnPlot(p, plot, item, slot)
  PROVE  GameInv'
<1>1. Joined(p) /\ EmptyInventory \in Inventories
  BY EmptyIsInventory DEF ApplyPlaceOnPlot
<1>2. PICK inv \in Inventories : inv = InventoryOf(p)
  BY <1>1, InventoryReplaced
<1>3. inv[slot].kind \in Kinds
  <2>1. inv[slot] # Empty
    BY <1>2 DEF ApplyPlaceOnPlot
  <2> QED
    BY <2>1 DEF Inventories, Stack
<1>4. PICK new \in Inventories :
        /\ new = TakeFrom(inv, slot, 1)
        /\ ItemsIn(inv) \in Nat /\ ItemsIn(new) \in Nat /\ ItemsIn(new) + 1 = ItemsIn(inv)
  BY <1>3, TakingItems
<1>5. PICK inventories \in Seq(PlayerId \X Inventories) :
        /\ inventories = With(p, new)
        /\ SameKeys(inventories, game.inventories)
        /\ CarriedLike(inventories, game.inventories, new, inv)
  BY <1>1, <1>2, InventoryReplaced
<1>6. PICK old \in Seq(Plots) : old = game.plots
  BY ListsUnchanged
<1>7. PICK plots \in Seq(Plots) :
        /\ plots = Built(old, p, plot, item) /\ PlotsKept(plots, old, game.inventories)
        /\ PlacedLike(plots, old, item, NoKind)
  <2>1. CASE Find(old, <<plot>>) = {}
    <3>1. PICK x \in Plots :
            /\ x = <<plot, [owner |-> p, content |-> item]>>
            /\ x[1] = plot /\ x[2].owner = p /\ x[2].content = item
      <4>1. PICK r \in [owner : PlayerId, content : Kinds \cup {NoKind}] :
              r = [owner |-> p, content |-> item]
        <5>1. [owner |-> p, content |-> item] \in [owner : PlayerId, content : Kinds \cup {NoKind}]
          OBVIOUS
        <5> QED
          BY <5>1, Zenon
      <4>2. <<plot, r>> \in Plots
        BY DEF Plots
      <4> QED
        BY <4>1, <4>2
    <3>2. PICK plots : plots = Append(old, x)
      OBVIOUS
    <3>3. /\ plots \in Seq(Plots) /\ Appended(plots, old) /\ plots[Len(plots)] = x
          /\ PlacedLike(plots, old, x[2].content, NoKind)
      BY <3>2, PlacedOnOneMore, Zenon
    <3>4. \A j \in DOMAIN old : old[j][1] # plot
      BY <2>1, FindIs
    <3>5. \E j \in DOMAIN game.inventories : game.inventories[j][1] = p
      BY <1>1, JoinedIs
    <3>6. PlotsKept(plots, old, game.inventories)
      BY <3>1, <3>3, <3>4, <3>5 DEF PlotsKept
    <3> QED
      BY <2>1, <3>1, <3>2, <3>3, <3>6 DEF Built
  <2>2. CASE Find(old, <<plot>>) # {}
    <3>1. Index(old, <<plot>>) \in Find(old, <<plot>>)
      BY <2>2, IndexFinds
    <3>2. PICK i \in DOMAIN old : i = Index(old, <<plot>>)
      BY <3>1 DEF Find
    <3>3. old[i][2].content = NoKind
      BY <1>6, <3>1, <3>2 DEF ApplyPlaceOnPlot
    <3>4. PICK plots : plots = [old EXCEPT ![i][2].content = item]
      OBVIOUS
    <3>5. /\ plots \in Seq(Plots) /\ SameOwners(plots, old)
          /\ PlacedLike(plots, old, item, old[i][2].content)
      BY <3>4, PlacedWith
    <3> QED
      BY <2>2, <3>2, <3>3, <3>4, <3>5 DEF PlotsKept, Built
  <2> QED
    BY <2>1, <2>2
<1>8. PICK a, a2, x, x2, y, y2, z, seen \in Nat :
        /\ a = ItemsIn(inv) /\ a2 = ItemsIn(new)
        /\ x = Carried(game.inventories) /\ x2 = Carried(inventories)
        /\ y = Placed(game.plots) /\ y2 = Placed(plots) /\ z = Fed(game.bonds) /\ seen = reported
        /\ x + y + z >= seen
  <2>1. Carried(inventories) \in Nat /\ Placed(plots) \in Nat
    BY <1>5, <1>7 DEF CarriedLike, PlacedLike
  <2> QED
    BY <1>4, <2>1, ListsUnchanged, Zenon
<1>9. a2 + 1 = a /\ x2 + a = x + a2 /\ y2 = y + 1 /\ x + y + z >= seen
  <2>1. Content(item) = 1 /\ Content(NoKind) = 0
    BY InventoryAssumption DEF Content, Kinds
  <2>2. y2 + Content(NoKind) = y + Content(item)
    BY <1>6, <1>7, <1>8 DEF PlacedLike
  <2>3. y2 = y + 1
    BY <2>1, <2>2
  <2> QED
    BY <1>4, <1>5, <1>8, <2>3 DEF CarriedLike
<1>10. game' = [game EXCEPT !.nodes = game.nodes, !.inventories = inventories,
                            !.bonds = game.bonds, !.plots = plots]
  <2>1. game' = [game EXCEPT !.inventories = inventories, !.plots = Built(@, p, plot, item)]
    BY <1>2, <1>4, <1>5 DEF ApplyPlaceOnPlot
  <2>2. plots = Built(game.plots, p, plot, item)
    BY <1>6, <1>7
  <2> QED
    BY <2>1, <2>2, ListsUnchanged
<1>11. PICK all \in Nat : all = x2 + y2 + z
  OBVIOUS
<1>12. all >= seen
  BY <1>9, <1>11
<1>13. reported' \in Nat /\ all >= reported'
  BY <1>8, <1>12 DEF ApplyPlaceOnPlot
<1>14. all = Carried(inventories) + Placed(plots) + Fed(game.bonds)
  BY <1>8, <1>11
<1> QED
  BY <1>5, <1>6, <1>7, <1>10, <1>13, <1>14, ListsUnchanged, StepKeeps

\* A player takes the item of a plot back, if the inventory has room for it.
LEMMA RemoveKeeps ==
  ASSUME GameInv, NEW p \in PlayerId, NEW plot \in PlotId, ApplyRemoveFromPlot(p, plot)
  PROVE  GameInv'
<1>1. PICK old \in Seq(Plots) : old = game.plots
  BY ListsUnchanged
<1>2. PICK i \in DOMAIN old :
        /\ i = Index(old, <<plot>>)
        /\ old[i][2].owner = p /\ old[i][2].content # NoKind
  <2>1. Find(old, <<plot>>) # {}
    BY <1>1 DEF ApplyRemoveFromPlot
  <2>2. Index(old, <<plot>>) \in Find(old, <<plot>>)
    BY <2>1, IndexFinds
  <2>3. Index(old, <<plot>>) \in DOMAIN old
    BY <2>2 DEF Find
  <2> QED
    BY <1>1, <2>3 DEF ApplyRemoveFromPlot
<1>3. PICK item \in Kinds : item = old[i][2].content
  <2>1. old[i] \in Plots
    OBVIOUS
  <2> QED
    BY <1>2, <2>1 DEF Plots
<1>4. Joined(p)
  <2>1. \E j \in DOMAIN game.inventories : game.inventories[j][1] = p
    BY <1>1, <1>2 DEF GameInv, OwnersJoined
  <2> QED
    BY <2>1, JoinedIs
<1>5. EmptyInventory \in Inventories
  BY EmptyIsInventory
<1>6. PICK inv \in Inventories : inv = InventoryOf(p)
  BY <1>4, <1>5, InventoryReplaced
<1>7. PICK new \in Inventories :
        /\ new = Add(inv, item, 1)
        /\ ItemsIn(new) \in Nat /\ ItemsIn(inv) \in Nat
        /\ ItemsIn(new) + CountKind(inv, item) = ItemsIn(inv) + CountKind(new, item)
  BY AddingItems
<1>8. PICK inventories \in Seq(PlayerId \X Inventories) :
        /\ inventories = With(p, new)
        /\ SameKeys(inventories, game.inventories)
        /\ CarriedLike(inventories, game.inventories, new, inv)
  BY <1>4, <1>6, InventoryReplaced
<1>9. PICK plots \in Seq(Plots) :
        /\ plots = [old EXCEPT ![i][2].content = NoKind]
        /\ PlotsKept(plots, old, game.inventories) /\ PlacedLike(plots, old, NoKind, item)
  <2>1. PICK plots : plots = [old EXCEPT ![i][2].content = NoKind]
    OBVIOUS
  <2>2. /\ plots \in Seq(Plots) /\ SameOwners(plots, old)
        /\ PlacedLike(plots, old, NoKind, old[i][2].content)
    BY <2>1, PlacedWith
  <2> QED
    BY <1>3, <2>1, <2>2 DEF PlotsKept
<1>10. CountKind(new, item) \in Nat /\ CountKind(inv, item) \in Nat
  BY CountIsNumber
<1>11. PICK a, a2, c, c2, x, x2, y, y2, z, seen \in Nat :
        /\ a = ItemsIn(inv) /\ a2 = ItemsIn(new)
        /\ c = CountKind(inv, item) /\ c2 = CountKind(new, item)
        /\ x = Carried(game.inventories) /\ x2 = Carried(inventories)
        /\ y = Placed(game.plots) /\ y2 = Placed(plots) /\ z = Fed(game.bonds) /\ seen = reported
        /\ x + y + z >= seen
  <2>1. Carried(inventories) \in Nat /\ Placed(plots) \in Nat
    BY <1>8, <1>9 DEF CarriedLike, PlacedLike
  <2> QED
    BY <1>7, <1>10, <2>1, ListsUnchanged, Zenon
<1>12. a2 + c = a + c2 /\ c2 = c + 1 /\ x2 + a = x + a2 /\ y2 + 1 = y /\ x + y + z >= seen
  <2>1. Content(item) = 1 /\ Content(NoKind) = 0
    BY InventoryAssumption DEF Content, Kinds
  <2>2. y2 + Content(item) = y + Content(NoKind)
    BY <1>1, <1>9, <1>11 DEF PlacedLike
  <2>3. y2 + 1 = y
    BY <2>1, <2>2
  <2>4. CountKind(new, item) - CountKind(inv, item) = 1
    BY <1>1, <1>2, <1>3, <1>6, <1>7 DEF ApplyRemoveFromPlot, StoredBy
  <2>5. c2 = c + 1
    BY <1>11, <2>4
  <2>6. a2 + c = a + c2 /\ x2 + a = x + a2 /\ x + y + z >= seen
    BY <1>7, <1>8, <1>11 DEF CarriedLike
  <2> QED
    BY <2>3, <2>5, <2>6
<1>13. game' = [game EXCEPT !.nodes = game.nodes, !.inventories = inventories,
                            !.bonds = game.bonds, !.plots = plots]
  <2>1. game' = [game EXCEPT !.inventories = inventories, !.plots = plots]
    <3>1. [game.plots EXCEPT ![i][2].content = NoKind] = plots
      BY <1>1, <1>9
    <3>2. game' = [game EXCEPT !.inventories = inventories, !.plots[i][2].content = NoKind]
      BY <1>1, <1>2, <1>3, <1>6, <1>7, <1>8 DEF ApplyRemoveFromPlot
    <3>3. game' = [game EXCEPT !.inventories = inventories,
                               !.plots = [game.plots EXCEPT ![i][2].content = NoKind]]
      BY <3>2, ListsUnchanged
    <3> QED
      BY <3>1, <3>3
  <2> QED
    BY <2>1, ListsUnchanged
<1>14. PICK all \in Nat : all = x2 + y2 + z
  OBVIOUS
<1>15. all >= seen
  BY <1>12, <1>14
<1>16. reported' \in Nat /\ all >= reported'
  BY <1>11, <1>15 DEF ApplyRemoveFromPlot
<1>17. all = Carried(inventories) + Placed(plots) + Fed(game.bonds)
  BY <1>11, <1>14
<1> QED
  BY <1>1, <1>8, <1>9, <1>13, <1>16, <1>17, ListsUnchanged, StepKeeps

\* Every step keeps the invariant.
LEMMA GameStepKeeps == GameInv /\ [GameNext]_gameState => GameInv'
<1> SUFFICES ASSUME GameInv, [GameNext]_gameState PROVE GameInv'
  OBVIOUS
<1>1. CASE UNCHANGED gameState
  BY <1>1 DEF gameState, GameInv, GameTypeOK
<1>2. CASE ApplyTick
  BY <1>2, TickKeeps
<1>3. ASSUME NEW p \in PlayerId, ApplyJoinPlayer(p) PROVE GameInv'
  BY <1>3, JoinKeeps
<1>4. ASSUME NEW p \in PlayerId, NEW n \in 1..NodeCount, ApplyCollect(p, n) PROVE GameInv'
  BY <1>4, CollectKeeps
<1>5. ASSUME NEW p \in PlayerId, NEW c \in CreatureId, NEW slot \in 1..Slots,
             ApplyFeed(p, c, slot)
      PROVE  GameInv'
  BY <1>5, FeedKeeps
<1>6. ASSUME NEW p \in PlayerId, NEW plot \in PlotId, NEW item \in Kinds, NEW slot \in 1..Slots,
             ApplyPlaceOnPlot(p, plot, item, slot)
      PROVE  GameInv'
  BY <1>6, PlaceKeeps
<1>7. ASSUME NEW p \in PlayerId, NEW plot \in PlotId, ApplyRemoveFromPlot(p, plot)
      PROVE  GameInv'
  BY <1>7, RemoveKeeps
<1> QED
  BY <1>1, <1>2, <1>3, <1>4, <1>5, <1>6, <1>7 DEF GameNext

\* What the events have reported as collected is still somewhere: in an inventory, on a plot or
\* in a bond (the reducers of game_state/reducers.rs).
THEOREM CollectedIsNotLost == GameSpec => [](GameTypeOK /\ NothingLost)
<1>1. GameInv => GameTypeOK /\ NothingLost
  BY DEF GameInv, NothingLost, InGame
<1> QED
  BY <1>1, GameStarts, GameStepKeeps, PTL DEF GameSpec

-----------------------------------------------------------------------------
(* The game: the order its lists are encoded in *)

\* The keys of a list of entries are different, and can be put in an order.
Unique(entries) ==
  \A i, j \in DOMAIN entries : entries[i].key = entries[j].key => i = j

Ordered(entries) ==
  \A i, j, k \in DOMAIN entries :
    /\ ~ Below(entries[i].key, entries[i].key)
    /\ \/ entries[i].key = entries[j].key
       \/ Below(entries[i].key, entries[j].key)
       \/ Below(entries[j].key, entries[i].key)
    /\ Below(entries[i].key, entries[j].key) /\ Below(entries[j].key, entries[k].key)
         => Below(entries[i].key, entries[k].key)

\* An entry and those before it.
UpTo(entries, i) == {j \in DOMAIN entries : Below(entries[j].key, entries[i].key) \/ j = i}

\* Every entry has a place of its own, and every place has an entry.
LEMMA PlacesAreAll ==
  ASSUME NEW n \in Nat, NEW e, DOMAIN e = 1..n, Unique(e), Ordered(e)
  PROVE  /\ \A i \in 1..n : UpTo(e, i) \subseteq 1..n /\ Place(e, i) = Cardinality(UpTo(e, i))
         /\ \A i, k \in 1..n : Place(e, i) = Place(e, k) => i = k
         /\ \A m \in 1..n : \E i \in 1..n : Place(e, i) = m
<1>1. ASSUME NEW i \in 1..n
      PROVE  /\ UpTo(e, i) \subseteq 1..n /\ i \in UpTo(e, i) /\ IsFiniteSet(UpTo(e, i))
             /\ Place(e, i) = Cardinality(UpTo(e, i)) /\ Place(e, i) \in 1..n
  <2>1. UpTo(e, i) \in SUBSET (1..n) /\ i \in UpTo(e, i)
    BY DEF UpTo
  <2>2. {j \in DOMAIN e : \/ Below(e[j].key, e[i].key)
                          \/ e[j].key = e[i].key /\ j <= i} = UpTo(e, i)
    BY DEF UpTo, Unique
  <2>3. IsFiniteSet(1..n) /\ Cardinality(1..n) = n
    BY FS_Interval
  <2>4. IsFiniteSet(UpTo(e, i)) /\ Cardinality(UpTo(e, i)) <= n
    BY <2>1, <2>3, FS_Subset
  <2>5. Cardinality(UpTo(e, i)) \in Nat
    BY <2>4, FS_CardinalityType
  <2>6. Cardinality(UpTo(e, i)) # 0
    BY <2>1, <2>4, FS_EmptySet
  <2>7. Place(e, i) = Cardinality(UpTo(e, i))
    BY <2>2, Zenon DEF Place
  <2> QED
    BY <2>1, <2>4, <2>5, <2>6, <2>7
<1>2. ASSUME NEW i \in 1..n, NEW k \in 1..n, Below(e[i].key, e[k].key)
      PROVE  Place(e, i) # Place(e, k)
  <2>1. UpTo(e, i) \in SUBSET UpTo(e, k)
    BY <1>2 DEF UpTo, Ordered
  <2>2. k \in UpTo(e, k) /\ k \notin UpTo(e, i)
    BY <1>2 DEF UpTo, Ordered
  <2> QED
    BY <1>1, <2>1, <2>2, FS_Subset
<1>3. \A i, k \in 1..n : Place(e, i) = Place(e, k) => i = k
  <2> SUFFICES ASSUME NEW i \in 1..n, NEW k \in 1..n, Place(e, i) = Place(e, k)
               PROVE  i = k
    OBVIOUS
  <2>1. \/ e[i].key = e[k].key \/ Below(e[i].key, e[k].key) \/ Below(e[k].key, e[i].key)
    BY DEF Ordered
  <2>2. e[i].key = e[k].key
    BY <1>2, <2>1
  <2> QED
    BY <2>2 DEF Unique
<1>4. \A m \in 1..n : \E i \in 1..n : Place(e, i) = m
  <2> DEFINE f == [i \in 1..n |-> Place(e, i)]
  <2>1. f \in [1..n -> 1..n] /\ \A i \in 1..n : f[i] = Place(e, i)
    BY <1>1
  <2> HIDE DEF f
  <2>2. f \in Injection(1..n, 1..n)
    BY <1>3, <2>1 DEF Injection, IsInjective
  <2>3. IsFiniteSet(1..n)
    BY FS_Interval
  <2>4. f \in Surjection(1..n, 1..n)
    BY <2>2, <2>3, FS_Injection
  <2> QED
    BY <2>1, <2>4 DEF Surjection
<1> QED
  BY <1>1, <1>3, <1>4

\* A list the other way round.
Turned(r, e, n) ==
  /\ DOMAIN e = 1..n /\ DOMAIN r = 1..n
  /\ \A i \in 1..n : r[i] = e[(n - i) + 1]

\* It is sorted into the same one.
LEMMA SortedAlike ==
  ASSUME NEW n \in Nat, NEW e, NEW r, Turned(r, e, n), Unique(e), Ordered(e)
  PROVE  SortedByKey(r) = SortedByKey(e)
<1>0. /\ DOMAIN e = 1..n /\ DOMAIN r = 1..n
      /\ \A i \in 1..n : r[i] = e[(n - i) + 1]
      /\ \A i \in 1..n : (n - i) + 1 \in 1..n /\ (n - ((n - i) + 1)) + 1 = i
  BY DEF Turned
<1>1. Unique(r)
  <2> SUFFICES ASSUME NEW i \in 1..n, NEW j \in 1..n, r[i].key = r[j].key PROVE i = j
    BY <1>0 DEF Unique
  <2>1. (n - i) + 1 = (n - j) + 1
    BY <1>0 DEF Unique
  <2> QED
    BY <2>1
<1>2. Ordered(r)
  BY <1>0 DEF Ordered
<1>3. ASSUME NEW i \in 1..n PROVE Place(r, i) = Place(e, (n - i) + 1)
  <2>1. PICK m \in 1..n : m = (n - i) + 1 /\ i = (n - m) + 1
    BY <1>0
  <2>2. UpTo(r, i) \subseteq 1..n /\ Place(r, i) = Cardinality(UpTo(r, i))
    BY <1>0, <1>1, <1>2, PlacesAreAll
  <2>3. UpTo(e, m) \subseteq 1..n /\ Place(e, m) = Cardinality(UpTo(e, m))
    BY <1>0, PlacesAreAll
  <2>4. \A j \in 1..n : j \in UpTo(r, i) <=> (n - j) + 1 \in UpTo(e, m)
    <3> SUFFICES ASSUME NEW j \in 1..n
                 PROVE  j \in UpTo(r, i) <=> (n - j) + 1 \in UpTo(e, m)
      OBVIOUS
    <3>1. PICK l \in 1..n : l = (n - j) + 1
      BY <1>0
    <3>2. j = i <=> l = m
      BY <2>1, <3>1
    <3>3. r[j] = e[l] /\ r[i] = e[m]
      BY <1>0, <2>1, <3>1
    <3> QED
      BY <1>0, <3>1, <3>2, <3>3 DEF UpTo
  <2> DEFINE f == [j \in UpTo(r, i) |-> (n - j) + 1]
  <2>5. f \in [UpTo(r, i) -> UpTo(e, m)] /\ \A j \in UpTo(r, i) : f[j] = (n - j) + 1
    BY <2>2, <2>4
  <2> HIDE DEF f
  <2>6. f \in Injection(UpTo(r, i), UpTo(e, m))
    <3>1. \A j, k \in UpTo(r, i) : f[j] = f[k] => j = k
      BY <2>2, <2>5
    <3> QED
      BY <2>5, <3>1 DEF Injection, IsInjective
  <2>7. f \in Surjection(UpTo(r, i), UpTo(e, m))
    <3>1. ASSUME NEW l \in UpTo(e, m) PROVE \E j \in UpTo(r, i) : f[j] = l
      <4>1. PICK j \in 1..n : j = (n - l) + 1 /\ l = (n - j) + 1
        BY <1>0, <2>3
      <4>2. j \in UpTo(r, i)
        BY <2>4, <4>1
      <4> QED
        BY <2>5, <4>1, <4>2
    <3> QED
      BY <2>5, <3>1 DEF Surjection
  <2>8. ExistsBijection(UpTo(r, i), UpTo(e, m))
    BY <2>6, <2>7 DEF ExistsBijection, Bijection
  <2>9. IsFiniteSet(UpTo(r, i))
    BY <2>2, FS_Interval, FS_Subset, SMTT(30)
  <2> QED
    BY <2>1, <2>2, <2>3, <2>8, <2>9, FS_Bijection
<1>4. ASSUME NEW k \in 1..n
      PROVE  r[CHOOSE i \in DOMAIN r : Place(r, i) = k]
               = e[CHOOSE i \in DOMAIN e : Place(e, i) = k]
  <2>1. PICK i \in 1..n : i = (CHOOSE c \in DOMAIN r : Place(r, c) = k) /\ Place(r, i) = k
    <3>1. \E c \in DOMAIN r : Place(r, c) = k
      <4>1. \A m \in 1..n : \E c \in 1..n : Place(r, c) = m
        BY <1>0, <1>1, <1>2, PlacesAreAll
      <4> QED
        BY <1>0, <4>1
    <3> QED
      BY <1>0, <3>1
  <2>2. PICK m \in 1..n : m = (CHOOSE c \in DOMAIN e : Place(e, c) = k) /\ Place(e, m) = k
    <3>1. \E c \in DOMAIN e : Place(e, c) = k
      <4>1. \A l \in 1..n : \E c \in 1..n : Place(e, c) = l
        BY <1>0, PlacesAreAll
      <4> QED
        BY <1>0, <4>1
    <3> QED
      BY <1>0, <3>1
  <2>3. (n - i) + 1 \in 1..n /\ Place(e, (n - i) + 1) = k
    BY <1>0, <1>3, <2>1
  <2>4. (n - i) + 1 = m
    BY <1>0, <2>2, <2>3, PlacesAreAll
  <2> QED
    BY <1>0, <2>1, <2>2, <2>4
<1>5. SortedByKey(r) = [k \in 1..n |-> r[CHOOSE i \in DOMAIN r : Place(r, i) = k].bytes]
  BY <1>0, Zenon DEF SortedByKey
<1>6. SortedByKey(e) = [k \in 1..n |-> e[CHOOSE i \in DOMAIN e : Place(e, i) = k].bytes]
  BY <1>0, Zenon DEF SortedByKey
<1>7. \A k \in 1..n : r[CHOOSE i \in DOMAIN r : Place(r, i) = k].bytes
                      = e[CHOOSE i \in DOMAIN e : Place(e, i) = k].bytes
  BY <1>4, Zenon
<1> QED
  BY <1>5, <1>6, <1>7, Zenon

\* Keys of one number can be put in an order, and so can keys of two.
LEMMA OneNumberOrders ==
  ASSUME NEW e, \A i \in DOMAIN e : \E x \in Nat : e[i].key = <<x>>
  PROVE  Ordered(e)
<1>1. ASSUME NEW x \in Nat, NEW y \in Nat PROVE Below(<<x>>, <<y>>) <=> x < y
  <2>1. PICK a, b : a = <<x>> /\ b = <<y>>
    OBVIOUS
  <2>2. DOMAIN a = {1} /\ a[1] = x /\ b[1] = y /\ 1..(1 - 1) = {}
    BY <2>1
  <2>3. Below(a, b) <=> x < y
    BY <2>2 DEF Below
  <2> QED
    BY <2>1, <2>3
<1>2. ASSUME NEW x \in Nat, NEW y \in Nat PROVE <<x>> = <<y>> <=> x = y
  OBVIOUS
<1> SUFFICES ASSUME NEW i \in DOMAIN e, NEW j \in DOMAIN e, NEW k \in DOMAIN e
             PROVE  /\ ~ Below(e[i].key, e[i].key)
                    /\ \/ e[i].key = e[j].key
                       \/ Below(e[i].key, e[j].key)
                       \/ Below(e[j].key, e[i].key)
                    /\ Below(e[i].key, e[j].key) /\ Below(e[j].key, e[k].key)
                         => Below(e[i].key, e[k].key)
  BY DEF Ordered
<1>3. PICK x, y, z \in Nat : e[i].key = <<x>> /\ e[j].key = <<y>> /\ e[k].key = <<z>>
  OBVIOUS
<1> QED
  BY <1>1, <1>2, <1>3

\* A bond's key: a player and a creature.
LEMMA TwoNumbersOrder ==
  ASSUME NEW e, \A i \in DOMAIN e : \E x, y \in Nat : e[i].key = <<x, y>>
  PROVE  Ordered(e)
<1>1. ASSUME NEW x \in Nat, NEW x2 \in Nat, NEW y \in Nat, NEW y2 \in Nat
      PROVE  Below(<<x, x2>>, <<y, y2>>) <=> x < y \/ (x = y /\ x2 < y2)
  <2>1. DOMAIN <<x, x2>> = {1, 2} /\ 1..(1 - 1) = {} /\ 1..(2 - 1) = {1}
    OBVIOUS
  <2> QED
    BY <2>1 DEF Below
<1> SUFFICES ASSUME NEW i \in DOMAIN e, NEW j \in DOMAIN e, NEW k \in DOMAIN e
             PROVE  /\ ~ Below(e[i].key, e[i].key)
                    /\ \/ e[i].key = e[j].key
                       \/ Below(e[i].key, e[j].key)
                       \/ Below(e[j].key, e[i].key)
                    /\ Below(e[i].key, e[j].key) /\ Below(e[j].key, e[k].key)
                         => Below(e[i].key, e[k].key)
  BY DEF Ordered
<1>2. PICK x, x2 \in Nat : e[i].key = <<x, x2>>
  OBVIOUS
<1>8. PICK y, y2 \in Nat : e[j].key = <<y, y2>>
  OBVIOUS
<1>9. PICK z, z2 \in Nat : e[k].key = <<z, z2>>
  OBVIOUS
<1>3. Below(<<x, x2>>, <<y, y2>>) <=> x < y \/ (x = y /\ x2 < y2)
  BY <1>1
<1>4. Below(<<y, y2>>, <<x, x2>>) <=> y < x \/ (x = y /\ y2 < x2)
  BY <1>1
<1>5. Below(<<y, y2>>, <<z, z2>>) <=> y < z \/ (y = z /\ y2 < z2)
  BY <1>1
<1>6. Below(<<x, x2>>, <<z, z2>>) <=> x < z \/ (x = z /\ x2 < z2)
  BY <1>1
<1>7. ~ Below(<<x, x2>>, <<x, x2>>)
  BY <1>1
<1> QED
  BY <1>2, <1>3, <1>4, <1>5, <1>6, <1>7, <1>8, <1>9

\* Counted as they are, they are the same bytes.
LEMMA CountedAlike ==
  ASSUME NEW n \in Nat, NEW e, NEW r, Len(e) = n, Len(r) = n,
         Turned(r, e, n), Unique(e), Ordered(e)
  PROVE  Counted(r) = Counted(e)
BY SortedAlike DEF Counted

\* Players are their own keys.
LEMMA PlayersTurned ==
  ASSUME NEW list \in Seq(PlayerId), \A i, j \in DOMAIN list : list[i] = list[j] => i = j
  PROVE  LET turned == Reverse(list)
         IN  Counted([i \in DOMAIN turned |-> PlayerEntry(turned[i])])
               = Counted([i \in DOMAIN list |-> PlayerEntry(list[i])])
<1>0. PICK n \in Nat : n = Len(list) /\ DOMAIN list = 1..n
  OBVIOUS
<1>1. PICK turned : turned = Reverse(list) /\ turned = [i \in 1..n |-> list[(n - i) + 1]]
  BY <1>0 DEF Reverse
<1>2. PICK e, r : /\ e = [i \in 1..n |-> PlayerEntry(list[i])]
                  /\ r = [i \in 1..n |-> PlayerEntry(turned[i])]
  OBVIOUS
<1>3. \A i \in 1..n : list[i] \in Nat
  <2>1. \A i \in 1..n : list[i] \in PlayerId
    BY <1>0
  <2> QED
    BY <2>1, GameStateAssumption
<1>4. \A i \in 1..n : e[i].key = <<list[i]>>
  BY <1>2 DEF PlayerEntry
<1>5. Unique(e) /\ Ordered(e)
  <2>1. Ordered(e)
    BY <1>2, <1>3, <1>4, OneNumberOrders
  <2>2. Unique(e)
    BY <1>0, <1>2, <1>4 DEF Unique
  <2> QED
    BY <2>1, <2>2
<1>6. Turned(r, e, n) /\ Len(e) = n /\ Len(r) = n
  BY <1>1, <1>2 DEF Turned
<1>7. Counted(r) = Counted(e)
  BY <1>5, <1>6, CountedAlike
<1>8. r = [i \in DOMAIN turned |-> PlayerEntry(turned[i])]
  <2>1. DOMAIN turned = 1..n
    BY <1>1
  <2> QED
    BY <1>2, <2>1
<1>9. e = [i \in DOMAIN list |-> PlayerEntry(list[i])]
  BY <1>0, <1>2
<1> QED
  BY <1>1, <1>7, <1>8, <1>9, Zenon

\* Inventories are keyed by their player.
LEMMA InventoriesTurned ==
  ASSUME NEW list \in Seq(PlayerId \X Inventories),
         \A i, j \in DOMAIN list : list[i][1] = list[j][1] => i = j
  PROVE  LET turned == Reverse(list)
         IN  Counted([i \in DOMAIN turned |-> InventoryEntry(turned[i])])
               = Counted([i \in DOMAIN list |-> InventoryEntry(list[i])])
<1>0. PICK n \in Nat : n = Len(list) /\ DOMAIN list = 1..n
  OBVIOUS
<1>1. PICK turned : turned = Reverse(list) /\ turned = [i \in 1..n |-> list[(n - i) + 1]]
  BY <1>0 DEF Reverse
<1>2. PICK e, r : /\ e = [i \in 1..n |-> InventoryEntry(list[i])]
                  /\ r = [i \in 1..n |-> InventoryEntry(turned[i])]
  OBVIOUS
<1>3. \A i \in 1..n : list[i][1] \in Nat
  <2>1. \A i \in 1..n : list[i] \in PlayerId \X Inventories
    BY <1>0
  <2> QED
    BY <2>1, GameStateAssumption
<1>4. \A i \in 1..n : e[i].key = <<list[i][1]>>
  BY <1>2 DEF InventoryEntry
<1>5. Unique(e) /\ Ordered(e)
  <2>1. Ordered(e)
    BY <1>2, <1>3, <1>4, OneNumberOrders
  <2>2. Unique(e)
    BY <1>0, <1>2, <1>4 DEF Unique
  <2> QED
    BY <2>1, <2>2
<1>6. Turned(r, e, n) /\ Len(e) = n /\ Len(r) = n
  BY <1>1, <1>2 DEF Turned
<1>7. Counted(r) = Counted(e)
  BY <1>5, <1>6, CountedAlike
<1>8. r = [i \in DOMAIN turned |-> InventoryEntry(turned[i])]
  <2>1. DOMAIN turned = 1..n
    BY <1>1
  <2> QED
    BY <1>2, <2>1
<1>9. e = [i \in DOMAIN list |-> InventoryEntry(list[i])]
  BY <1>0, <1>2
<1> QED
  BY <1>1, <1>7, <1>8, <1>9, Zenon

\* Bonds are keyed by a player and a creature.
LEMMA BondsTurned ==
  ASSUME NEW list \in Seq(Bonds),
         \A i, j \in DOMAIN list : list[i][1] = list[j][1] /\ list[i][2] = list[j][2] => i = j
  PROVE  LET turned == Reverse(list)
         IN  Counted([i \in DOMAIN turned |-> BondEntry(turned[i])])
               = Counted([i \in DOMAIN list |-> BondEntry(list[i])])
<1>0. PICK n \in Nat : n = Len(list) /\ DOMAIN list = 1..n
  OBVIOUS
<1>1. PICK turned : turned = Reverse(list) /\ turned = [i \in 1..n |-> list[(n - i) + 1]]
  BY <1>0 DEF Reverse
<1>2. PICK e, r : /\ e = [i \in 1..n |-> BondEntry(list[i])]
                  /\ r = [i \in 1..n |-> BondEntry(turned[i])]
  OBVIOUS
<1>3. \A i \in 1..n : list[i][1] \in Nat /\ list[i][2] \in Nat
  <2>1. \A i \in 1..n : list[i] \in Bonds
    BY <1>0
  <2> QED
    BY <2>1, GameStateAssumption DEF Bonds
<1>4. \A i \in 1..n : e[i].key = <<list[i][1], list[i][2]>>
  BY <1>2 DEF BondEntry
<1>5. Unique(e) /\ Ordered(e)
  <2>1. Ordered(e)
    BY <1>2, <1>3, <1>4, TwoNumbersOrder
  <2>2. Unique(e)
    BY <1>0, <1>2, <1>4 DEF Unique
  <2> QED
    BY <2>1, <2>2
<1>6. Turned(r, e, n) /\ Len(e) = n /\ Len(r) = n
  BY <1>1, <1>2 DEF Turned
<1>7. Counted(r) = Counted(e)
  BY <1>5, <1>6, CountedAlike
<1>8. r = [i \in DOMAIN turned |-> BondEntry(turned[i])]
  <2>1. DOMAIN turned = 1..n
    BY <1>1
  <2> QED
    BY <1>2, <2>1
<1>9. e = [i \in DOMAIN list |-> BondEntry(list[i])]
  BY <1>0, <1>2
<1> QED
  BY <1>1, <1>7, <1>8, <1>9, Zenon

\* Plots are keyed by their number.
LEMMA PlotsTurned ==
  ASSUME NEW list \in Seq(Plots), \A i, j \in DOMAIN list : list[i][1] = list[j][1] => i = j
  PROVE  LET turned == Reverse(list)
         IN  Counted([i \in DOMAIN turned |-> PlotEntry(turned[i])])
               = Counted([i \in DOMAIN list |-> PlotEntry(list[i])])
<1>0. PICK n \in Nat : n = Len(list) /\ DOMAIN list = 1..n
  OBVIOUS
<1>1. PICK turned : turned = Reverse(list) /\ turned = [i \in 1..n |-> list[(n - i) + 1]]
  BY <1>0 DEF Reverse
<1>2. PICK e, r : /\ e = [i \in 1..n |-> PlotEntry(list[i])]
                  /\ r = [i \in 1..n |-> PlotEntry(turned[i])]
  OBVIOUS
<1>3. \A i \in 1..n : list[i][1] \in Nat
  <2>1. \A i \in 1..n : list[i] \in Plots
    BY <1>0
  <2> QED
    BY <2>1, GameStateAssumption DEF Plots
<1>4. \A i \in 1..n : e[i].key = <<list[i][1]>>
  BY <1>2 DEF PlotEntry
<1>5. Unique(e) /\ Ordered(e)
  <2>1. Ordered(e)
    BY <1>2, <1>3, <1>4, OneNumberOrders
  <2>2. Unique(e)
    BY <1>0, <1>2, <1>4 DEF Unique
  <2> QED
    BY <2>1, <2>2
<1>6. Turned(r, e, n) /\ Len(e) = n /\ Len(r) = n
  BY <1>1, <1>2 DEF Turned
<1>7. Counted(r) = Counted(e)
  BY <1>5, <1>6, CountedAlike
<1>8. r = [i \in DOMAIN turned |-> PlotEntry(turned[i])]
  <2>1. DOMAIN turned = 1..n
    BY <1>1
  <2> QED
    BY <1>2, <2>1
<1>9. e = [i \in DOMAIN list |-> PlotEntry(list[i])]
  BY <1>0, <1>2
<1> QED
  BY <1>1, <1>7, <1>8, <1>9, Zenon

\* The checksum of a game whose lists have no key twice does not see their order.
LEMMA ChecksumTurned ==
  ASSUME NEW g \in Games, KeysUnique(g),
         NEW h, h = [g EXCEPT !.players = Reverse(@), !.inventories = Reverse(@),
                              !.bonds = Reverse(@), !.plots = Reverse(@)]
  PROVE  ChecksumBytes(h) = ChecksumBytes(g)
<1>1. PICK tick \in 0..LastTick, nodes \in Nodes, players \in Seq(PlayerId),
           inventories \in Seq(PlayerId \X Inventories), bonds \in Seq(Bonds),
           plots \in Seq(Plots) :
        /\ IsGame(g, tick, nodes, players, inventories, bonds, plots)
        /\ Fields(g, tick, nodes, players, inventories, bonds, plots)
  BY GameParts
<1>2. Fields(h, tick, nodes, Reverse(players), Reverse(inventories), Reverse(bonds),
             Reverse(plots))
  BY <1>1 DEF IsGame, Fields
<1>3. Counted([i \in DOMAIN Reverse(players) |-> PlayerEntry(Reverse(players)[i])])
        = Counted([i \in DOMAIN players |-> PlayerEntry(players[i])])
  <2>1. \A i, j \in DOMAIN players : players[i] = players[j] => i = j
    BY <1>1 DEF KeysUnique, Fields
  <2> QED
    BY <2>1, PlayersTurned
<1>4. Counted([i \in DOMAIN Reverse(inventories) |-> InventoryEntry(Reverse(inventories)[i])])
        = Counted([i \in DOMAIN inventories |-> InventoryEntry(inventories[i])])
  <2>1. \A i, j \in DOMAIN inventories : inventories[i][1] = inventories[j][1] => i = j
    <3>1. DOMAIN inventories = DOMAIN players
      BY <1>1 DEF KeysUnique, Fields
    <3> QED
      BY <1>1, <3>1 DEF KeysUnique, Fields
  <2> QED
    BY <2>1, InventoriesTurned
<1>5. Counted([i \in DOMAIN Reverse(bonds) |-> BondEntry(Reverse(bonds)[i])])
        = Counted([i \in DOMAIN bonds |-> BondEntry(bonds[i])])
  <2>1. \A i, j \in DOMAIN bonds :
          bonds[i][1] = bonds[j][1] /\ bonds[i][2] = bonds[j][2] => i = j
    BY <1>1 DEF KeysUnique, Fields
  <2> QED
    BY <2>1, BondsTurned
<1>6. Counted([i \in DOMAIN Reverse(plots) |-> PlotEntry(Reverse(plots)[i])])
        = Counted([i \in DOMAIN plots |-> PlotEntry(plots[i])])
  <2>1. \A i, j \in DOMAIN plots : plots[i][1] = plots[j][1] => i = j
    BY <1>1 DEF KeysUnique, Fields
  <2> QED
    BY <2>1, PlotsTurned
<1> DEFINE P(list) == Counted([i \in DOMAIN list |-> PlayerEntry(list[i])])
           I(list) == Counted([i \in DOMAIN list |-> InventoryEntry(list[i])])
           B(list) == Counted([i \in DOMAIN list |-> BondEntry(list[i])])
           L(list) == Counted([i \in DOMAIN list |-> PlotEntry(list[i])])
           N(list) == FlattenSeq([n \in DOMAIN list |-> NodeEntry(list[n])])
<1>7. \A k : ChecksumBytes(k) = <<k.tick>> \o N(k.nodes) \o P(k.players) \o I(k.inventories)
                                 \o B(k.bonds) \o L(k.plots)
  BY DEF ChecksumBytes
<1>8. /\ P(Reverse(players)) = P(players) /\ I(Reverse(inventories)) = I(inventories)
      /\ B(Reverse(bonds)) = B(bonds) /\ L(Reverse(plots)) = L(plots)
  BY <1>3, <1>4, <1>5, <1>6
<1> HIDE DEF P, I, B, L, N
<1>9. /\ ChecksumBytes(h) = <<tick>> \o N(nodes) \o P(Reverse(players)) \o I(Reverse(inventories))
                               \o B(Reverse(bonds)) \o L(Reverse(plots))
      /\ ChecksumBytes(g) = <<tick>> \o N(nodes) \o P(players) \o I(inventories) \o B(bonds)
                               \o L(plots)
  BY <1>1, <1>2, <1>7 DEF Fields
<1> QED
  BY <1>8, <1>9

\* The checksum does not depend on the order the lists were filled in (compute_checksum sorts
\* copies of them), because no reducer enters a key twice.
THEOREM ChecksumSeesNoOrder == GameSpec => []ChecksumOrderFree
<1>1. GameInv => ChecksumOrderFree
  BY ChecksumTurned DEF GameInv, GameTypeOK, ChecksumOrderFree
<1> QED
  BY <1>1, GameStarts, GameStepKeeps, PTL DEF GameSpec
=============================================================================
