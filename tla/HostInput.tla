------------------------------- MODULE HostInput -------------------------------
(***************************************************************************)
(* Input of the macOS viewer: from the events AppKit delivers              *)
(* (apc-host/src/app/view.rs, app/delegate.rs), through duplicate          *)
(* suppression and the two device queues (input/mod.rs, input/types.rs),   *)
(* to what the guest takes to be pressed.                                  *)
(*                                                                         *)
(* `buttons`, `keys` and `mods` are what the user really holds.  AppKit    *)
(* delivers a button's release to the view that got its press; keys and    *)
(* modifiers only while the view has the keyboard.  libkrun polls each     *)
(* queue's pipe and takes single events.  The SYN_REPORT after each batch, *)
(* wheel and caps lock, which keep no state on the host, are left out.     *)
(***************************************************************************)
EXTENDS Integers, Sequences

CONSTANTS Buttons,     \* AppKit's button numbers
          Keys,        \* Linux codes of ordinary keys
          Flags,       \* the modifier flags the user uses
          Positions,   \* positions in the view, as ABS values
          MaxQueue     \* bound on the events in a queue

ASSUME HostInputAssumption ==
  /\ Buttons \subseteq Nat /\ Keys \subseteq Nat \ {0} /\ Positions \subseteq Nat
  /\ Flags \subseteq {"shift", "control", "option", "command"}
  /\ MaxQueue \in Nat

VARIABLES
  buttons,      \* the code each button was pressed with, 0 while it is up
  keys, mods,   \* keys and modifiers the user holds
  cursor,       \* where the user's cursor is
  focused,      \* the view gets the keyboard's events
  lastButtons,  \* LAST_MOUSE_BUTTONS, as a set of bits
  lastAbs,      \* LAST_MOUSE_ABS, -1 for u64::MAX
  lastFlags,    \* LAST_MODIFIER_FLAGS
  pressedKeys,  \* PRESSED_KEYS
  queue,        \* DeviceQueue.events of each device
  readable,     \* a byte is in the pipe of each device
  down,         \* codes the guest takes to be pressed
  pointer,      \* the guest's pointer
  mixed,        \* history: two buttons overlapped, or one was released under
                \* another code than it was pressed with
  missed,       \* history: the view did not get a change of keys or modifiers
  toolMoved     \* history: an MCP tool has moved the pointer since the user did

userVars  == <<buttons, keys, mods, cursor, focused>>
hostVars  == <<lastButtons, lastAbs, lastFlags, pressedKeys>>
queueVars == <<queue, readable>>
guestVars == <<down, pointer, toolMoved>>
inputVars == <<userVars, hostVars, queueVars, guestVars, mixed, missed>>

Devices == {"keyboard", "mouse"}
BTN_LEFT == 272
BTN_RIGHT == 273
BTN_MIDDLE == 274
ButtonCodes == {BTN_LEFT, BTN_RIGHT, BTN_MIDDLE}

\* An event; `at` is a history of where the user's cursor was at a click.
Event(type, code, value, at) == [type |-> type, code |-> code, value |-> value, at |-> at]
KeyEvent(code, value) == Event("key", code, value, 0)

InputInit ==
  /\ buttons = [b \in Buttons |-> 0]
  /\ keys = {} /\ mods = {} /\ cursor \in Positions /\ focused = TRUE
  /\ lastButtons = {} /\ lastAbs = -1 /\ lastFlags = {} /\ pressedKeys = {}
  /\ queue = [d \in Devices |-> <<>>] /\ readable = [d \in Devices |-> FALSE]
  /\ down = {} /\ pointer = -1
  /\ mixed = FALSE /\ missed = FALSE /\ toolMoved = FALSE

-----------------------------------------------------------------------------
\* DeviceQueue::push_batch, for the batches of one handler: the events and a
\* byte in the pipe, in one critical section.
Push(device, events) ==
  /\ Len(queue[device]) + Len(events) <= MaxQueue
  /\ queue' = [queue EXCEPT ![device] = @ \o events]
  /\ readable' = [readable EXCEPT ![device] = @ \/ events # <<>>]

\* send_mouse_move_abs: what it queues.
MoveBatch(position) ==
  IF lastAbs = position THEN <<>> ELSE << Event("abs", 0, position, position) >>

\* send_mouse_button: what it queues, and LAST_MOUSE_BUTTONS after it.  The
\* codes of all buttons are beyond 15 and share that bit.
Bit(code) == IF code < 15 THEN code ELSE 15
ButtonBatch(code, pressed) ==
  IF (Bit(code) \in lastButtons) = pressed THEN <<>>
  ELSE << Event("key", code, IF pressed THEN 1 ELSE 0, cursor) >>
ButtonsAfterNeverCleared(code, pressed) == lastButtons \union {Bit(code)}
ButtonsAfter(code, pressed) ==
  IF pressed THEN lastButtons \union {Bit(code)} ELSE lastButtons \ {Bit(code)}

\* forward_mouse_button_event with macos_mouse_button_to_linux: the left
\* button with control is the right one, by the flags of this very event.
LinuxButton(button) ==
  IF button = 1 \/ (button = 0 /\ "control" \in mods) THEN BTN_RIGHT
  ELSE IF button = 2 THEN BTN_MIDDLE ELSE BTN_LEFT

\* MODIFIER_MAP, and the events for the flags that change.
MODIFIER_MAP == << [flag |-> "shift", code |-> 42], [flag |-> "control", code |-> 29],
                   [flag |-> "option", code |-> 56], [flag |-> "command", code |-> 125] >>

\* AppKit reports modifiers by flagsChanged and never by keyDown; the codes of
\* buttons are beyond those of keys.
ASSUME KeysAssumption ==
  Keys \intersect (ButtonCodes \union {MODIFIER_MAP[i].code : i \in DOMAIN MODIFIER_MAP}) = {}

ModifierBatch(changed, flags) ==
  LET Events(m) == IF m.flag \in changed
                   THEN << KeyEvent(m.code, IF m.flag \in flags THEN 1 ELSE 0) >>
                   ELSE <<>>
  IN Events(MODIFIER_MAP[1]) \o Events(MODIFIER_MAP[2])
       \o Events(MODIFIER_MAP[3]) \o Events(MODIFIER_MAP[4])

-----------------------------------------------------------------------------
\* mouseDown, mouseUp and their other forms: the position is forwarded before
\* the button.
ForwardButtonFirst(button, pressed) ==
  /\ Push("mouse", ButtonBatch(LinuxButton(button), pressed) \o MoveBatch(cursor))
  /\ lastAbs' = cursor
  /\ lastButtons' = ButtonsAfter(LinuxButton(button), pressed)
  /\ UNCHANGED <<lastFlags, pressedKeys>>

ForwardButton(button, pressed) ==
  /\ Push("mouse", MoveBatch(cursor) \o ButtonBatch(LinuxButton(button), pressed))
  /\ lastAbs' = cursor
  /\ lastButtons' = ButtonsAfter(LinuxButton(button), pressed)
  /\ UNCHANGED <<lastFlags, pressedKeys>>

MouseDown(button) ==
  /\ buttons[button] = 0
  /\ buttons' = [buttons EXCEPT ![button] = LinuxButton(button)]
  /\ focused' = TRUE
  /\ mixed' = (mixed \/ \E b \in Buttons : buttons[b] # 0)
  /\ ForwardButton(button, TRUE)
  /\ UNCHANGED <<keys, mods, cursor, guestVars, missed>>

MouseUp(button) ==
  /\ buttons[button] # 0
  /\ buttons' = [buttons EXCEPT ![button] = 0]
  /\ mixed' = (mixed \/ LinuxButton(button) # buttons[button])
  /\ ForwardButton(button, FALSE)
  /\ UNCHANGED <<keys, mods, cursor, focused, guestVars, missed>>

\* mouseMoved and the dragged forms.
MouseMoved(position) ==
  /\ cursor' = position
  /\ Push("mouse", MoveBatch(position))
  /\ lastAbs' = position
  /\ UNCHANGED <<buttons, keys, mods, focused, lastButtons, lastFlags, pressedKeys,
                 guestVars, mixed, missed>>

\* keyDown, the first time or repeated while the key is held.
KeyDown(key) ==
  /\ focused
  /\ keys' = keys \union {key}
  /\ pressedKeys' = pressedKeys \union {key}
  /\ Push("keyboard", << KeyEvent(key, IF key \in pressedKeys THEN 2 ELSE 1) >>)
  /\ UNCHANGED <<buttons, mods, cursor, focused, lastButtons, lastAbs, lastFlags,
                 guestVars, mixed, missed>>

KeyUp(key) ==
  /\ focused
  /\ key \in keys /\ keys' = keys \ {key}
  /\ pressedKeys' = pressedKeys \ {key}
  /\ Push("keyboard", << KeyEvent(key, 0) >>)
  /\ UNCHANGED <<buttons, mods, cursor, focused, lastButtons, lastAbs, lastFlags,
                 guestVars, mixed, missed>>

\* flagsChanged: sync_modifiers.
FlagsChanged(flags) ==
  /\ focused
  /\ mods' = flags
  /\ lastFlags' = flags
  /\ Push("keyboard", ModifierBatch((flags \ lastFlags) \union (lastFlags \ flags), flags))
  /\ UNCHANGED <<buttons, keys, cursor, focused, lastButtons, lastAbs, pressedKeys,
                 guestVars, mixed, missed>>

\* Without the keyboard, keys, modifiers and the cursor change behind the
\* view's back.
ChangeUnseen(key, flags) ==
  /\ ~ focused
  /\ keys' \in {keys, keys \ {key}}
  /\ mods' = flags
  /\ cursor' \in Positions
  /\ missed' = (missed \/ keys' # keys \/ mods' # mods)
  /\ UNCHANGED <<buttons, focused, hostVars, queueVars, guestVars, mixed>>

\* The application is deactivated: no handler of the view runs.
Deactivate ==
  /\ focused /\ focused' = FALSE
  /\ UNCHANGED <<buttons, keys, mods, cursor, hostVars, queueVars, guestVars, mixed, missed>>

\* resignFirstResponder: release_all_modifiers, whatever was pressed.
ResignFirstResponder ==
  /\ focused /\ focused' = FALSE
  /\ lastFlags' = {}
  /\ Push("keyboard", ModifierBatch(Flags, {}))
  /\ missed' = (missed \/ mods # {})
  /\ UNCHANGED <<buttons, keys, mods, cursor, lastButtons, lastAbs, pressedKeys,
                 guestVars, mixed>>

\* applicationDidBecomeActive and mouseEntered.
FocusViewer ==
  /\ ~ focused /\ focused' = TRUE
  /\ UNCHANGED <<buttons, keys, mods, cursor, hostVars, queueVars, guestVars, mixed, missed>>

-----------------------------------------------------------------------------
\* DeviceQueue::pop, called by libkrun while the pipe is readable: the pipe is
\* drained only when there is no event, in the same critical section.
PopDrainsFirst(device) ==
  /\ readable[device]
  /\ readable' = [readable EXCEPT ![device] = FALSE]
  /\ IF queue[device] = <<>>
     THEN UNCHANGED queue
     ELSE queue' = [queue EXCEPT ![device] = Tail(@)]

Pop(device) ==
  /\ readable[device]
  /\ IF queue[device] = <<>>
     THEN /\ readable' = [readable EXCEPT ![device] = FALSE]
          /\ UNCHANGED queue
     ELSE /\ queue' = [queue EXCEPT ![device] = Tail(@)]
          /\ UNCHANGED readable

\* The guest's input core: a repeat changes nothing.
GuestHandles(event) ==
  \/ /\ event.type = "abs"
     /\ pointer' = event.value /\ toolMoved' = FALSE
     /\ UNCHANGED down
  \/ /\ event.type = "key"
     /\ down' = CASE event.value = 0 -> down \ {event.code}
                  [] event.value = 1 -> down \union {event.code}
                  [] event.value = 2 -> down
     /\ UNCHANGED <<pointer, toolMoved>>

NextEvent(device) ==
  /\ Pop(device)
  /\ IF queue[device] = <<>> THEN UNCHANGED guestVars ELSE GuestHandles(Head(queue[device]))
  /\ UNCHANGED <<userVars, hostVars, mixed, missed>>

\* mouse_move and mouse_click move the guest's pointer by themselves.
ToolMoves(position) ==
  /\ pointer' = position /\ toolMoved' = TRUE
  /\ UNCHANGED <<userVars, hostVars, queueVars, down, mixed, missed>>

InputNext ==
  \/ \E b \in Buttons : MouseDown(b) \/ MouseUp(b)
  \/ \E p \in Positions : MouseMoved(p) \/ ToolMoves(p)
  \/ \E k \in Keys : KeyDown(k) \/ KeyUp(k)
  \/ \E flags \in SUBSET Flags : FlagsChanged(flags)
  \/ \E k \in Keys, flags \in SUBSET Flags : ChangeUnseen(k, flags)
  \/ Deactivate \/ ResignFirstResponder \/ FocusViewer
  \/ \E d \in Devices : NextEvent(d)

InputSpec == InputInit /\ [][InputNext]_inputVars

-----------------------------------------------------------------------------
(* Properties *)

CodesOf(flags) ==
  {MODIFIER_MAP[i].code : i \in {j \in DOMAIN MODIFIER_MAP : MODIFIER_MAP[j].flag \in flags}}

\* libkrun polls the pipe, not the queue: while events are queued, the pipe
\* is readable, or they would stay until the next input of the user.
NoLostWakeup == \A d \in Devices : queue[d] # <<>> => readable[d]

\* Once the queues are empty, the guest holds the buttons, keys and modifiers
\* the user holds, neither fewer nor more, through duplicate suppression,
\* repeats and control-clicks, unless button codes overlapped (they share one
\* bit of LAST_MOUSE_BUTTONS) or the view missed a change of the keyboard.
NothingStuck ==
  (\A d \in Devices : queue[d] = <<>>) =>
    /\ ~ mixed => down \cap ButtonCodes = {buttons[b] : b \in Buttons} \ {0}
    /\ ~ missed => /\ down \cap Keys = keys
                   /\ down \ (ButtonCodes \union Keys) = CodesOf(mods)

\* A press reaches the guest when its pointer is where the user clicked, though
\* unchanged positions are not sent, unless a tool has moved the pointer since.
ClickOnTarget ==
  \A i \in DOMAIN queue["mouse"] :
    LET event == queue["mouse"][i]
        moves == {j \in 1..(i - 1) : queue["mouse"][j].type = "abs"}
    IN event.type = "key" =>
         \/ \E j \in moves : /\ \A k \in moves : k <= j
                             /\ queue["mouse"][j].value = event.at
         \/ moves = {} /\ (pointer = event.at \/ toolMoved)
=============================================================================
