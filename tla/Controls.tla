------------------------------- MODULE Controls -------------------------------
(***************************************************************************)
(* What the player does with keys and one finger, what the client believes *)
(* is pressed, and what its systems make of it in every frame: the input   *)
(* that is sent to the server and drives the prediction, and the distance  *)
(* of the camera.  A page that is hidden sees no key go up and no finger   *)
(* lift.                                                                   *)
(***************************************************************************)
EXTENDS Integers

CONSTANTS
  Keys,         \* those that are bound: a direction, Shift and Space
  MaxRadius     \* MAX_ZOOM_RADIUS in steps above MIN_ZOOM_RADIUS, twice CAMERA_RADIUS

ASSUME ControlsAssumption ==
  Keys \subseteq {"move", "run", "space"} /\ MaxRadius \in Nat

\* TouchRole, by where a touch starts; a movement touch also by how far it was dragged.
Areas == {"movement", "camera", "jump"}
Drags == {"movement", "walk", "run"}
Touches == Drags \cup {"camera", "jump", "nothing", "none"}

VARIABLES
  held,          \* keys that are physically down
  finger,        \* the finger on the screen
  pressed,       \* ButtonInput: keys the client believes down
  touch,         \* Touches: the touch the client believes there
  touchJump,     \* TouchJump
  detected,      \* TouchDetected
  watched,       \* the page is visible, and gets events
  pendingEvent,  \* PAGE_EVENT
  sent,          \* the latest ClientInput; its movement is the InputState
  radius,        \* target_radius of the CameraOrbit
  dragging       \* touch_camera_input saw the camera touch in the last frame

device == <<held, finger, watched>>
believed == <<pressed, touch, touchJump, detected>>
camera == <<radius, dragging>>
controls == <<device, believed, pendingEvent, sent, camera>>

ControlsTypeOK ==
  /\ held \subseteq Keys /\ pressed \subseteq Keys
  /\ {finger, touch} \subseteq Touches
  /\ {watched, touchJump, detected, dragging} \subseteq BOOLEAN
  /\ pendingEvent \in {"none", "hidden", "visible"}
  /\ sent \in [moving : BOOLEAN, running : BOOLEAN, jump : BOOLEAN]
  /\ radius \in 0..MaxRadius

ControlsInit ==
  /\ held = {} /\ finger = "none" /\ watched = TRUE
  /\ pressed = {} /\ touch = "none" /\ touchJump = FALSE /\ detected = FALSE
  /\ pendingEvent = "none"
  /\ sent = [moving |-> FALSE, running |-> FALSE, jump |-> FALSE]
  /\ radius = MaxRadius \div 2 /\ dragging = FALSE

-----------------------------------------------------------------------------
(* The player and the browser *)

\* A key goes down, or repeats.
KeyDown(k) ==
  /\ watched
  /\ held' = held \cup {k} /\ pressed' = pressed \cup {k}
  /\ UNCHANGED <<finger, watched, touch, touchJump, detected, pendingEvent, sent, camera>>

KeyUp(k) ==
  /\ k \in held
  /\ held' = held \ {k}
  /\ pressed' = IF watched THEN pressed \ {k} ELSE pressed
  /\ UNCHANGED <<finger, watched, touch, touchJump, detected, pendingEvent, sent, camera>>

\* touch_ui_visibility: only who has touched the screen sees the button.
JumpButtonShown == detected

\* A press on the place of a button that is not shown drives nothing.
TouchDown(area) ==
  /\ watched /\ finger = "none"
  /\ finger' = IF area = "jump" /\ ~JumpButtonShown THEN "nothing" ELSE area
  /\ touch' = finger'
  /\ UNCHANGED <<held, watched, pressed, touchJump, detected, pendingEvent, sent, camera>>

\* The client does not follow a touch that it has forgotten.
Drag(d) ==
  /\ watched /\ finger \in Drags
  /\ finger' = d
  /\ touch' = IF touch = "none" THEN touch ELSE finger'
  /\ UNCHANGED <<held, watched, pressed, touchJump, detected, pendingEvent, sent, camera>>

TouchUp ==
  /\ finger # "none"
  /\ finger' = "none"
  /\ touch' = IF watched THEN "none" ELSE touch
  /\ UNCHANGED <<held, watched, pressed, touchJump, detected, pendingEvent, sent, camera>>

\* The listener overwrites an event that no frame has read.
PageTurns ==
  /\ watched' = ~watched
  /\ pendingEvent' = IF watched THEN "hidden" ELSE "visible"
  /\ UNCHANGED <<held, finger, believed, sent, camera>>

-----------------------------------------------------------------------------
(* The systems of a frame *)

\* Mutant: only when the page was hidden.
ResetWhenHidden ==
  /\ pendingEvent # "none"
  /\ pendingEvent' = "none"
  /\ IF pendingEvent = "hidden" THEN pressed' = {} /\ touch' = "none" /\ touchJump' = FALSE
     ELSE UNCHANGED <<pressed, touch, touchJump>>
  /\ UNCHANGED <<device, detected, sent, camera>>
\* Whichever event it is, everything is let go.
ResetInput ==
  /\ pendingEvent # "none"
  /\ pendingEvent' = "none"
  /\ pressed' = {} /\ touch' = "none" /\ touchJump' = FALSE
  /\ UNCHANGED <<device, detected, sent, camera>>

DetectTouch ==
  /\ touch # "none" /\ ~detected
  /\ detected' = TRUE
  /\ UNCHANGED <<device, pressed, touch, touchJump, pendingEvent, sent, camera>>

\* The Interaction of the button follows the touches: a finger that was reset is none
\* here, and lets go of the button.
JumpButtonInput ==
  /\ touchJump' = (touch = "jump")
  /\ UNCHANGED <<device, pressed, touch, detected, pendingEvent, sent, camera>>

SwipeDirection ==
  [moving |-> TRUE, running |-> touch = "run"]

\* Only in the game, where Controls is: in the menu the system returns at once.
\* The keyboard wins over the joystick, and Shift counts where neither moves.
GatherInput ==
  /\ LET steer == IF "move" \notin pressed /\ touch \in {"walk", "run"} THEN SwipeDirection
                  ELSE [moving |-> "move" \in pressed, running |-> "run" \in pressed]
     IN sent' = [moving |-> steer.moving, running |-> steer.running,
                 jump |-> "space" \in pressed \/ touchJump]
  /\ UNCHANGED <<device, believed, pendingEvent, camera>>

\* Mutant: no bounds.
ClampNot(r) == r
Clamp(r) == IF r < 0 THEN 0 ELSE IF r > MaxRadius THEN MaxRadius ELSE r

ZoomCamera ==
  /\ \E lines \in {-1, 1} : radius' = Clamp(radius - lines)
  /\ UNCHANGED <<device, believed, pendingEvent, sent, dragging>>

\* Only a touch seen in the frame before moves the camera, so a new one never jumps.
TouchCamera ==
  /\ dragging' = (touch = "camera")
  /\ \/ dragging /\ dragging' /\ \E zoom \in {-1, 1} : radius' = Clamp(radius - zoom)
     \/ radius' = radius
  /\ UNCHANGED <<device, believed, pendingEvent, sent>>

Player ==
  \/ \E k \in Keys : KeyDown(k) \/ KeyUp(k)
  \/ \E a \in Areas : TouchDown(a)
  \/ \E d \in Drags : Drag(d)
  \/ TouchUp \/ PageTurns
InputSystems ==
  ResetInput \/ DetectTouch \/ JumpButtonInput \/ GatherInput \/ ZoomCamera \/ TouchCamera
ControlsNext == Player \/ InputSystems

\* Every frame runs every system.
ControlsFairness ==
  /\ WF_controls(ResetInput) /\ WF_controls(DetectTouch)
  /\ WF_controls(JumpButtonInput) /\ WF_controls(GatherInput)

-----------------------------------------------------------------------------
\* While the page is visible and no event waits, nothing is believed pressed that is not:
\* no key that went up and no finger that lifted while the page was hidden.
NothingStaysPressed ==
  watched /\ pendingEvent = "none" => pressed \subseteq held /\ touch \in {finger, "none"}

\* handle_page_visibility: keys that went up and fingers that lifted while the page was
\* hidden do not go on moving the character once the page is visible for good.
LetGoStops ==
  <>[](held = {} /\ finger = "none" /\ watched) => <>[](~sent.moving /\ ~sent.jump)
=============================================================================
