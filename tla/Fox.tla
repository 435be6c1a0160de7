---------------------------------- MODULE Fox ----------------------------------
(***************************************************************************)
(* The characters on the screen: the scene and the animation state that a  *)
(* replicated player gets, the movement of the local one predicted from    *)
(* the input and pulled to the server's position, the clip that fits the   *)
(* speed and the wave that overrides it.  The camera follows the character *)
(* that is marked as the local player.                                     *)
(***************************************************************************)
EXTENDS Integers, Sequences, FiniteSets

CONSTANTS
  Character,   \* players; the server sends one entity of each
  Own,         \* the local player: Predicted, the others are Interpolated
  WaveTime,    \* WAVE_DURATION in frames
  SnapDistance,\* LOCAL_SNAP_DISTANCE in steps
  MaxEmotes,   \* bound: emotes that are broadcast
  MaxFoxes     \* bound: characters that are replicated; they do not touch each other

ASSUME FoxAssumption ==
  /\ Own \in Character
  /\ WaveTime \in Nat \ {0} /\ SnapDistance \in Nat /\ MaxEmotes \in Nat
  /\ MaxFoxes \in Nat \ {0}

Clips == {"Idle", "Walk", "Run", "Wave"}
\* Speeds, cut at the thresholds of the clips and at the ends of their bands:
\*   0 | idle - h | 1 | idle | 2 | idle + h | 3 | run - h | 4 | run | 5 | run + h | 6
Speed == 0..6
WalkSpeed == 3
RunSpeed == 6

VARIABLES
  input,      \* InputState: what module Controls calls sent
  fox,        \* per character: its entity and what the client added to it
  welcomed,   \* LocalPlayerId is set
  drift,      \* distance of the predicted from the server's position
  going,      \* the characters the server moves, from what it received
  broadcasts, \* EmoteBroadcast messages not yet read
  wanted,     \* ClientEmote, as a sequence of at most one sender
  emotes      \* emotes broadcast so far

foxVars == <<input, fox, welcomed, drift, going, broadcasts, wanted, emotes>>

\* The marker that the server's replication puts on the entity of a player.
Marker(c) == IF c = Own THEN "Predicted" ELSE "Interpolated"

NoFox == [entity |-> FALSE, visual |-> FALSE, local |-> FALSE, animator |-> "none",
          clip |-> "Idle", speed |-> 0, wave |-> 0]
FoxStates == [entity : BOOLEAN, visual : BOOLEAN, local : BOOLEAN,
              animator : {"none", "spawned", "linked"},
              clip : Clips, speed : Speed, wave : 0..WaveTime]

FoxInit ==
  /\ input = "still"
  /\ fox = [c \in Character |-> NoFox] /\ welcomed = FALSE /\ drift = 0 /\ going = {}
  /\ broadcasts = <<>> /\ wanted = <<>> /\ emotes = 0

-----------------------------------------------------------------------------
(* The server and the asset loader *)

\* The entity of a player and the Welcome arrive in either order.
Replicate(c) ==
  /\ ~fox[c].entity /\ Cardinality({d \in Character : fox[d].entity}) < MaxFoxes
  /\ fox' = [fox EXCEPT ![c].entity = TRUE]
  /\ UNCHANGED <<input, welcomed, drift, going, broadcasts, wanted, emotes>>

Welcomed ==
  /\ ~welcomed /\ welcomed' = TRUE
  /\ UNCHANGED <<input, fox, drift, going, broadcasts, wanted, emotes>>

\* gather_input: in every frame, the direction and the run key of that frame.
GatherMovement ==
  /\ input' \in {"still", "walk", "run"}
  /\ UNCHANGED <<fox, welcomed, drift, going, broadcasts, wanted, emotes>>

\* The server moves the local character by what it was sent, others as they like.
ServerMoves(c) ==
  /\ fox[c].entity
  /\ going' = IF c = Own
              THEN IF input # "still" THEN going \cup {c} ELSE going \ {c}
              ELSE IF c \in going THEN going \ {c} ELSE going \cup {c}
  /\ UNCHANGED <<input, fox, welcomed, drift, broadcasts, wanted, emotes>>

EmoteArrives(c) ==
  /\ emotes < MaxEmotes
  /\ emotes' = emotes + 1 /\ broadcasts' = Append(broadcasts, c)
  /\ UNCHANGED <<input, fox, welcomed, drift, going, wanted>>

\* The scene of the fox is there, with its AnimationPlayer.
SceneSpawns(c) ==
  /\ fox[c].visual /\ fox[c].animator = "none"
  /\ fox' = [fox EXCEPT ![c].animator = "spawned"]
  /\ UNCHANGED <<input, welcomed, drift, going, broadcasts, wanted, emotes>>

-----------------------------------------------------------------------------
(* The systems of a frame *)

\* The mark of the local player is given if the Welcome is there already.
AttachPlayerVisuals(c) ==
  /\ fox[c].entity /\ ~fox[c].visual
  /\ fox' = [fox EXCEPT ![c] = [fox[c] EXCEPT !.visual = TRUE, !.clip = "Idle", !.speed = 0,
                                             !.local = @ \/ (welcomed /\ c = Own)]]
  /\ UNCHANGED <<input, welcomed, drift, going, broadcasts, wanted, emotes>>

\* The later mark looks among the Interpolated entities only.
MarkLocalPlayerVisuals ==
  /\ welcomed
  /\ fox' = [c \in Character |->
               IF c = Own /\ fox[c].entity /\ Marker(c) = "Interpolated"
               THEN [fox[c] EXCEPT !.local = TRUE] ELSE fox[c]]
  /\ UNCHANGED <<input, welcomed, drift, going, broadcasts, wanted, emotes>>

SetupFoxAnimators(c) ==
  /\ fox[c].animator = "spawned"
  /\ fox' = [fox EXCEPT ![c].animator = "linked"]
  /\ UNCHANGED <<input, welcomed, drift, going, broadcasts, wanted, emotes>>

\* Of several emotes in one frame the latest is kept.
ReceiveEmoteBroadcast ==
  /\ broadcasts # <<>>
  /\ wanted' = <<broadcasts[Len(broadcasts)]>> /\ broadcasts' = <<>>
  /\ UNCHANGED <<input, fox, welcomed, drift, going, emotes>>

\* An emote of a player without a fox is consumed and lost.
TriggerWave ==
  /\ wanted # <<>>
  /\ wanted' = <<>>
  /\ fox' = IF fox[Head(wanted)].visual
            THEN [fox EXCEPT ![Head(wanted)].wave = WaveTime] ELSE fox
  /\ UNCHANGED <<input, welcomed, drift, going, broadcasts, emotes>>

ClipBySpeed(clip, speed) ==
  CASE clip = "Wave" -> IF speed > 4 THEN "Run" ELSE IF speed > 1 THEN "Walk" ELSE "Idle"
    [] clip = "Idle" /\ speed > 2 -> "Walk"
    [] clip = "Walk" /\ speed < 1 -> "Idle"
    [] clip = "Walk" /\ speed > 5 -> "Run"
    [] clip = "Run" /\ speed < 4 -> "Walk"
    [] OTHER -> clip

\* The estimate goes towards the speed of this frame, and arrives if it stays.
Smoothed(speed, raw) ==
  IF speed < raw THEN (speed + 1)..raw ELSE IF speed > raw THEN raw..(speed - 1) ELSE {raw}

\* One frame of a fox: its smoothed speed, the running wave, the clip.
Animated(f, speed) ==
  LET wave == IF f.wave > 0 THEN f.wave - 1 ELSE 0
  IN [f EXCEPT !.speed = speed, !.wave = wave,
               !.clip = IF wave > 0 THEN "Wave" ELSE ClipBySpeed(f.clip, speed)]

Abs(n) == IF n < 0 THEN -n ELSE n

\* The local character: a large disagreement snaps, otherwise the input moves it and
\* the server pulls it back; a wall the client does not know makes them disagree.
PredictLocalMovement ==
  LET snaps == drift > SnapDistance
      apart == Abs((IF input # "still" THEN 1 ELSE 0) - (IF Own \in going THEN 1 ELSE 0))
  IN /\ drift' \in IF snaps THEN {apart}
                   ELSE IF apart = 0 THEN {IF drift > 0 THEN drift - 1 ELSE 0}
                   ELSE {drift, drift + 1}
     /\ \E raw \in (IF snaps THEN {RunSpeed} ELSE IF drift > 0 THEN {1, WalkSpeed} ELSE {})
                     \cup {IF input = "still" THEN 0
                           ELSE IF input = "run" THEN RunSpeed ELSE WalkSpeed},
           speed \in Speed :
          /\ speed \in Smoothed(fox[Own].speed, raw)
          /\ fox' = [fox EXCEPT ![Own] = Animated(@, speed)]

\* A remote one is where the server has it, a little later.
SyncPosition(c) ==
  \E raw \in IF c \in going THEN {WalkSpeed, RunSpeed} ELSE {0}, speed \in Speed :
    /\ speed \in Smoothed(fox[c].speed, raw)
    /\ fox' = [fox EXCEPT ![c] = Animated(@, speed)]
    /\ UNCHANGED drift

\* PostUpdate: predict or follow the server, then animate.
AnimateFox(c) ==
  /\ fox[c].visual
  /\ IF c = Own THEN PredictLocalMovement ELSE SyncPosition(c)
  /\ UNCHANGED <<input, welcomed, going, broadcasts, wanted, emotes>>

\* follow_local_player: the camera stays where it is without exactly one.
Followed == {c \in Character : fox[c].local /\ fox[c].visual}

FoxSystems ==
  \/ \E c \in Character : AttachPlayerVisuals(c) \/ SetupFoxAnimators(c) \/ AnimateFox(c)
  \/ MarkLocalPlayerVisuals \/ ReceiveEmoteBroadcast \/ TriggerWave
FoxWorld ==
  \/ \E c \in Character :
       Replicate(c) \/ ServerMoves(c) \/ EmoteArrives(c) \/ SceneSpawns(c)
  \/ Welcomed \/ GatherMovement
FoxNext == FoxSystems \/ FoxWorld

\* Every frame runs every system; the asset loader spawns what it was asked for, and
\* the server goes on replicating what it was sent.
FoxFairness ==
  /\ \A c \in Character :
       /\ WF_foxVars(AttachPlayerVisuals(c)) /\ WF_foxVars(SetupFoxAnimators(c))
       /\ WF_foxVars(AnimateFox(c)) /\ WF_foxVars(SceneSpawns(c))
  /\ WF_foxVars(ServerMoves(Own))
  /\ WF_foxVars(ReceiveEmoteBroadcast) /\ WF_foxVars(TriggerWave)

FoxSpec == FoxInit /\ [][FoxNext]_foxVars /\ FoxFairness

FoxTypeOK ==
  /\ input \in {"still", "walk", "run"}
  /\ fox \in [Character -> FoxStates]
  /\ welcomed \in BOOLEAN /\ drift \in 0..(SnapDistance + 1)
  /\ going \subseteq Character
  /\ broadcasts \in Seq(Character) /\ wanted \in Seq(Character) /\ Len(wanted) <= 1
  /\ emotes \in 0..MaxEmotes

\* The camera follows nobody else, nothing moves before the character is drawn, and the
\* clip fits: a wave only while it runs, standing and running at the speed of it.
ClipFits ==
  /\ Followed \subseteq {Own}
  /\ \A c \in Character :
       /\ ~fox[c].visual => fox[c].clip = "Idle" /\ fox[c].wave = 0
       /\ fox[c].clip = "Wave" => fox[c].wave > 0
       /\ fox[c].clip = "Idle" => fox[c].speed <= 2
       /\ fox[c].clip = "Run" => fox[c].speed >= 4

-----------------------------------------------------------------------------
\* predict_local_movement and animate_foxes: whatever happened before - a wave, a run, a
\* wall that only the server knows, a snap - the own fox ends up standing idle when the
\* input stays still.
StillFoxIdles ==
  <>[](input = "still") => <>[](fox[Own].visual => fox[Own].clip = "Idle")
=============================================================================
