---------------------------- MODULE VirtualInput ----------------------------
(***************************************************************************)
(* The virtual mouse and keyboard (src/input/virtual_input.cpp).  Every    *)
(* command of a phone becomes a sequence of key events, which the kernel   *)
(* applies to the set of keys and buttons it takes to be down; movements   *)
(* and the wheel press nothing.  The daemon keeps no record of what it has *)
(* pressed, and the devices are those of all sessions.                     *)
(***************************************************************************)
EXTENDS Sequences, SequencesExt

CONSTANTS
  AsciiMap,   \* m_asciiMap: character -> [code, shift]; no entry: code 0
  KeyCode,    \* getKeyCodeFromName: key name -> code; no entry: code 0
  Buttons,    \* the names getButtonCode knows
  Left,       \* the one it takes for any other name
  Shift,      \* KEY_LEFTSHIFT
  Initialized \* m_initialized: init() has made both devices

ASSUME InputAssumption == Left \in Buttons /\ Initialized \in BOOLEAN

(* The tables give keys KEY_ codes, and buttons are BTN_ codes.            *)
ASSUME KeyAssumption ==
  /\ Shift \notin Buttons
  /\ \A character \in DOMAIN AsciiMap : AsciiMap[character].code \notin Buttons
  /\ \A name \in DOMAIN KeyCode : KeyCode[name] \notin Buttons

Down(code) == <<code, "down">>
Up(code) == <<code, "up">>
Strike(code) == <<Down(code), Up(code)>>

ButtonCode(name) == IF name \in Buttons THEN name ELSE Left

TypeKeyCode_ShiftStays(key) ==
  IF key.shift THEN <<Down(Shift)>> \o Strike(key.code) ELSE Strike(key.code)
TypeKeyCode(key) ==
  IF key.shift THEN <<Down(Shift)>> \o Strike(key.code) \o <<Up(Shift)>>
  ELSE Strike(key.code)

TypeText(text) ==
  FlattenSeq([i \in DOMAIN text |->
                IF text[i] \in DOMAIN AsciiMap THEN TypeKeyCode(AsciiMap[text[i]]) ELSE << >>])

PressKey(name) == IF name \in DOMAIN KeyCode THEN Strike(KeyCode[name]) ELSE << >>

ClickMouse_Holds(name) == <<Down(ButtonCode(name))>>
ClickMouse(name) == Strike(ButtonCode(name))

(* The events of a command <<kind, argument>>. *)
Emits(cmd) ==
  CASE cmd[1] = "MOUSE_DOWN"  -> <<Down(ButtonCode(cmd[2]))>>
    [] cmd[1] = "MOUSE_UP"    -> <<Up(ButtonCode(cmd[2]))>>
    [] cmd[1] = "MOUSE_CLICK" -> ClickMouse(cmd[2])
    [] cmd[1] = "KEY_TYPE"    -> TypeText(cmd[2])
    [] cmd[1] = "KEY_PRESS"   -> PressKey(cmd[2])
    [] OTHER                  -> << >>

(* What the kernel makes of them. *)
Apply(held, event) == IF event[2] = "down" THEN held \union {event[1]} ELSE held \ {event[1]}

(* A command without working devices (init() needs both) does nothing. *)
After(held, cmd) ==
  IF Initialized THEN FoldLeft(Apply, held, Emits(cmd)) ELSE held
=============================================================================
