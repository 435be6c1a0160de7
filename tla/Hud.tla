---------------------------------- MODULE Hud ----------------------------------
(***************************************************************************)
(* What the client shows around the world: the menu with its graphics      *)
(* button, the gameplay panels, the bar of the build mode, the bonds, the   *)
(* answer to a refused action, and the button that Tab has brought into     *)
(* focus.  Each is kept by a system of every frame, in an order the         *)
(* schedule leaves open, that looks at resources and entities others        *)
(* change.                                                                  *)
(***************************************************************************)
EXTENDS FiniteSets, Integers

VARIABLES
  screen,    \* AppFlow, once loading is done
  scene,     \* what Startup spawned - camera, lights, panels - exists
  quality,   \* GraphicsQuality
  label,     \* the label of the menu's graphics button
  look,      \* the preset the camera and the lights have
  buttons,   \* the entities with a Button
  focused,   \* FocusState: 0 for none, -1 for an entity that is no more
  outlined,  \* the buttons with an Outline
  building,  \* BuildMode
  panels,    \* the gameplay panels are visible
  bonds,     \* ClientBonds
  display,   \* the bonds on the screen
  refusals,  \* an ActionRejected is in the receiver
  feedback   \* ClientActionFeedback is visible

graphics == <<quality, label, look>>
focus == <<focused, outlined>>
bondVars == <<bonds, display>>
refusalVars == <<refusals, feedback>>
hudVars == <<screen, scene, graphics, buttons, focus, building, panels, bondVars, refusalVars>>

\* The buttons in the order of their entities.  (The one that closes a rejection and the
\* jump button come and go as those of the bar do, and are left out.)
HudButtons == {1, 2}
MenuButtons == {3, 4}
BarButtons == {5, 6}
AnyButton == HudButtons \cup MenuButtons \cup BarButtons

\* Lists of bonds, the empty one and two others.
Bonds == {"none", "few", "many"}

HudInit ==
  /\ screen = "Menu" /\ scene = TRUE
  /\ quality = "High" /\ label = "High" /\ look = "High"
  /\ buttons = HudButtons \cup MenuButtons /\ focused = 0 /\ outlined = {}
  /\ building = FALSE /\ panels = FALSE
  /\ bonds = "none" /\ display = "none"
  /\ refusals = FALSE /\ feedback = FALSE

\* Entities that are despawned take their outlines along.
ReplaceButtons(gone, new) ==
  /\ buttons' = (buttons \ gone) \cup new
  /\ outlined' = outlined \ gone
  /\ focused' = IF focused \in gone THEN -1 ELSE focused

-----------------------------------------------------------------------------
(* From the menu to the game and back *)

EnterGame ==
  /\ screen = "Menu" /\ scene
  /\ screen' = "InGame" /\ label' = "none"
  /\ ReplaceButtons(MenuButtons, {})
  /\ UNCHANGED <<scene, quality, look, building, panels, bondVars, refusalVars>>

\* A dismissed rejection: despawn_ingame leaves nothing, then spawn_menu comes with the
\* label of the default quality.  The messages go with the client entity.
LeaveGame ==
  /\ screen = "InGame"
  /\ screen' = "Menu" /\ scene' = FALSE /\ label' = "High" /\ look' = "none"
  /\ ReplaceButtons(buttons, MenuButtons)
  /\ panels' = FALSE /\ display' = "none" /\ refusals' = FALSE
  /\ UNCHANGED <<quality, building, bonds, feedback>>

-----------------------------------------------------------------------------
(* Graphics quality *)

\* The quality and the label change together.  Without a camera no button is pressed.
GraphicsToggleButton ==
  /\ screen = "Menu" /\ scene
  /\ quality' = IF quality = "High" THEN "Low" ELSE "High"
  /\ label' = quality'
  /\ UNCHANGED <<screen, scene, look, buttons, focus, building, panels, bondVars,
                 refusalVars>>

ApplyGraphicsQuality ==
  /\ screen = "Menu" /\ scene
  /\ look' = quality
  /\ UNCHANGED <<screen, scene, quality, label, buttons, focus, building, panels,
                 bondVars, refusalVars>>

-----------------------------------------------------------------------------
(* Keyboard focus *)

NextOf(b) ==
  LET after == {c \in buttons : c > b}
      candidates == IF after # {} THEN after ELSE buttons
  IN CHOOSE c \in candidates : \A d \in candidates : c <= d

PreviousOf(b) ==
  LET before == {c \in buttons : c < b}
      candidates == IF before # {} THEN before ELSE buttons
  IN CHOOSE c \in candidates : \A d \in candidates : d <= c

\* Tab, or Shift and Tab: a focus that is gone starts again at the first button.
ManageFocus ==
  /\ buttons # {}
  /\ focused' \in {NextOf(focused)} \cup (IF focused \in buttons THEN {PreviousOf(focused)} ELSE {})
  /\ outlined' = (outlined \ {focused}) \cup {focused'}
  /\ UNCHANGED <<screen, scene, graphics, buttons, building, panels, bondVars, refusalVars>>

ClearStaleFocus ==
  /\ focused \notin buttons
  /\ focused' = 0
  /\ UNCHANGED <<screen, scene, graphics, buttons, outlined, building, panels, bondVars,
                 refusalVars>>

-----------------------------------------------------------------------------
(* Panels of the game *)

ToggleGameplayPanels ==
  /\ scene
  /\ panels' = (screen = "InGame")
  /\ UNCHANGED <<screen, scene, graphics, buttons, focus, building, bondVars, refusalVars>>

ToggleBuildMode ==
  /\ screen = "InGame"
  /\ building' = ~building
  /\ UNCHANGED <<screen, scene, graphics, buttons, focus, panels, bondVars, refusalVars>>

\* The bar and its buttons follow the mode, in the game only.
BuildControlsUi ==
  /\ screen = "InGame"
  /\ IF building THEN ReplaceButtons({}, BarButtons) ELSE ReplaceButtons(BarButtons, {})
  /\ UNCHANGED <<screen, scene, graphics, building, panels, bondVars, refusalVars>>

HandleBondSnapshot ==
  /\ screen = "InGame"
  /\ bonds' \in Bonds
  /\ UNCHANGED <<screen, scene, graphics, buttons, focus, building, panels, display,
                 refusalVars>>

\* A display that is there is not written again until it has been empty.
ShowBondDisplay ==
  /\ screen = "InGame"
  /\ display' = IF bonds = "none" \/ display = "none" THEN bonds ELSE display
  /\ UNCHANGED <<screen, scene, graphics, buttons, focus, building, panels, bonds,
                 refusalVars>>

-----------------------------------------------------------------------------
(* Refused actions *)

ActionRejected ==
  /\ screen = "InGame"
  /\ refusals' = TRUE
  /\ UNCHANGED <<screen, scene, graphics, buttons, focus, building, panels, bondVars,
                 feedback>>

\* Two systems drain the one receiver, and only the second one tells the player.
HandleActionRejected ==
  /\ refusals
  /\ refusals' = FALSE
  /\ UNCHANGED <<screen, scene, graphics, buttons, focus, building, panels, bondVars,
                 feedback>>

ReceiveActionRejected ==
  /\ refusals
  /\ refusals' = FALSE /\ feedback' = TRUE
  /\ UNCHANGED <<screen, scene, graphics, buttons, focus, building, panels, bondVars>>

\* In the frame of the message or in the next one.
ClearActionFeedback ==
  /\ feedback
  /\ feedback' = FALSE
  /\ UNCHANGED <<screen, scene, graphics, buttons, focus, building, panels, bondVars,
                 refusals>>

HudNext ==
  \/ EnterGame \/ LeaveGame \/ GraphicsToggleButton \/ ApplyGraphicsQuality
  \/ ManageFocus \/ ClearStaleFocus \/ ToggleGameplayPanels
  \/ ToggleBuildMode \/ BuildControlsUi \/ HandleBondSnapshot \/ ShowBondDisplay
  \/ ActionRejected \/ HandleActionRejected \/ ReceiveActionRejected \/ ClearActionFeedback

HudSpec == HudInit /\ [][HudNext]_hudVars

-----------------------------------------------------------------------------
HudTypeOK ==
  /\ screen \in {"Menu", "InGame"}
  /\ {scene, building, panels, refusals, feedback} \subseteq BOOLEAN
  /\ quality \in {"High", "Low"} /\ {label, look} \subseteq {"High", "Low", "none"}
  /\ buttons \subseteq AnyButton /\ focused \in AnyButton \cup {0, -1}
  /\ {bonds, display} \subseteq Bonds

\* What keyboard users steer by: at most one button has an outline, and it is the one
\* in focus, through every menu, bar and panel that comes and goes.
OneOutline ==
  outlined = {focused} \cap buttons
=============================================================================
