------------------------------ MODULE Controls ------------------------------
(***************************************************************************)
(* From the keyboard and the mouse to the player: the event callbacks and  *)
(* updateState of src/src/input.zig, the panels that switch them off       *)
(* (ui/controllers/panel_controller.zig, ui/panels), and the screens they  *)
(* act on (switchScreen and deinit of ui/controllers/screen_controller.zig,*)
(* disconnect of src/src/main.zig).                                        *)
(*                                                                         *)
(* The window thread handles one event at a time; the network thread may   *)
(* disconnect meanwhile, and both then write the same variables without a  *)
(* lock.  A screen has a number, so that one that was destroyed can be     *)
(* told from its successor.  One direction stands for all; the others, and *)
(* shooting, are set and unset in the same places.                         *)
(***************************************************************************)
EXTENDS Naturals, FiniteSets

CONSTANTS
  MaxEvents,   \* bound on the keys and buttons pressed
  MaxScreens,  \* bound on the screens: one with this number is not left
  MaxWorld     \* bound on what happens to the player

ASSUME ControlsAssumption == MaxEvents \in Nat /\ MaxScreens \in Nat /\ MaxWorld \in Nat

\* w moves up unless that is bound to another; esc opens the options, enter
\* the chat; a press of the mouse may hit an element.
Keys == {"w", "esc", "enter", "mouse"}
Kinds == {"main_menu", "char_select", "game", "editor"}
Locking == Kinds \ {"editor"}     \* their deinit takes ui_lock
Elements == {"editor", "login", "box", "field", "mapper", "continue", "disconnect", "open"}
Nothing == "none"

VARIABLES
  screen,   \* current_screen: kind, id
  freed,    \* the screens that were destroyed
  panels,   \* of the game screen: options, basic: are they visible; shown, the
            \* large panels that are
  input,    \* up (move_up), disabled (disable_input); field and mapper, the
            \* screen of the selected one or 0; key, what moves up
  near,     \* the class of the interactive object the player stands at
  walker,   \* here; walking: move_angle is not NaN; paralysed
  session,  \* network.connected
  held,     \* the keys and buttons that are down
  pc,       \* of each thread: at, the key or element, the screen to switch to
  lock,     \* ui_lock: who holds it
  history,  \* unseen: why the last event did not reach the player; opened: open was
            \* pressed in this screen; raced: the network thread disconnected
            \* while the window thread was in an event or a frame; twice: a
            \* screen was destroyed twice; both: both threads were switching;
            \* dead: what of a destroyed screen was used; wrong: a screen taken
            \* for another; kept: a field was selected when the network thread
            \* disconnected
  count     \* events, world

controlsVars == <<screen, freed, panels, input, near, walker, session, held, pc, lock, history, count>>

Thread == {"win", "net"}
Idle == [at |-> "idle", what |-> Nothing, to |-> Nothing]
Hidden == [options |-> FALSE, basic |-> FALSE, shown |-> {}]
Large == {"vault_chest", "wiki"}       \* classes with a large panel
Playable == screen.kind \in {"game", "editor"}
Switching(t) == pc[t].at \in {"drop", "clear", "reset", "enable", "deinit", "destroy", "init"}
At(t, label) == pc[t].at = label
Goto(t, label) == pc' = [pc EXCEPT ![t].at = label]
GotoWith(t, label, what) == pc' = [pc EXCEPT ![t] = [@ EXCEPT !.at = label, !.what = what]]
Ready == At("win", "idle")

\* The network thread switches while the window thread is in an event.
Noted(h) == [h EXCEPT !.raced = @ \/ (Switching("net") /\ ~Ready),
                      !.both = @ \/ (Switching("net") /\ Switching("win"))]
Use(h, what, id) == IF id \in freed THEN [h EXCEPT !.dead = @ \cup {what}] ELSE h

ControlsInit ==
  /\ screen = [kind |-> "main_menu", id |-> 1]
  /\ freed = {} /\ panels = Hidden
  /\ input = [up |-> FALSE, disabled |-> FALSE, field |-> 0, mapper |-> 0, key |-> "w"]
  /\ near = Nothing
  /\ walker = [here |-> FALSE, walking |-> FALSE, paralysed |-> FALSE]
  /\ session = FALSE /\ held = {}
  /\ pc = [t \in Thread |-> Idle]
  /\ lock = Nothing
  /\ history = [unseen |-> {}, opened |-> FALSE, raced |-> FALSE, twice |-> FALSE,
                both |-> FALSE, dead |-> {}, wrong |-> {}, kept |-> FALSE]
  /\ count = [events |-> 0, world |-> 0]

-----------------------------------------------------------------------------
(* disconnect and switchScreen, of either thread.                          *)

\* The connection is closed.
Drop(t) ==
  /\ At(t, "drop")
  /\ session' = FALSE
  /\ history' = Noted(history)
  /\ Goto(t, "clear")
  /\ UNCHANGED <<screen, freed, panels, input, near, walker, held, lock, count>>

\* map.dispose.
ClearMap(t) ==
  /\ At(t, "clear")
  /\ walker' = [walker EXCEPT !.here = FALSE]
  /\ near' = Nothing
  /\ history' = Noted(history)
  /\ Goto(t, "reset")
  /\ UNCHANGED <<screen, freed, panels, input, session, held, lock, count>>

reset(in) == [in EXCEPT !.up = FALSE]

Reset(t) ==
  /\ At(t, "reset")
  /\ input' = reset(input)
  /\ history' = Noted(history)
  /\ Goto(t, "enable")
  /\ UNCHANGED <<screen, freed, panels, near, walker, session, held, lock, count>>

\* Mutant of Enable: input stays disabled.
EnableNot(t) ==
  /\ At(t, "enable")
  /\ input' = [input EXCEPT !.mapper = 0]
  /\ history' = Noted(history)
  /\ Goto(t, "deinit")
  /\ UNCHANGED <<screen, freed, panels, near, walker, session, held, lock, count>>

Enable(t) ==
  /\ At(t, "enable")
  /\ input' = [input EXCEPT !.disabled = FALSE, !.mapper = 0]
  /\ history' = Noted(history)
  /\ Goto(t, "deinit")
  /\ UNCHANGED <<screen, freed, panels, near, walker, session, held, lock, count>>

\* The screen's deinit, with ui_lock: the screen is asked for before the lock.
Deinit(t) ==
  /\ At(t, "deinit")
  /\ screen.kind \in Locking => lock = Nothing
  /\ lock' = IF screen.kind \in Locking THEN t ELSE lock
  /\ GotoWith(t, "destroy", screen.id)
  /\ history' = Noted(history)
  /\ UNCHANGED <<screen, freed, panels, input, near, walker, session, held, count>>

\* Mutant of Destroy: the lock is not given back.
DestroyLocked(t) ==
  LET id == pc[t].what IN
  /\ At(t, "destroy")
  /\ freed' = freed \cup {id}
  /\ history' = [Noted(history) EXCEPT !.twice = @ \/ id \in freed]
  /\ GotoWith(t, "init", Nothing)
  /\ UNCHANGED <<screen, panels, input, near, walker, session, held, lock, count>>

Destroy(t) ==
  LET id == pc[t].what IN
  /\ At(t, "destroy")
  /\ freed' = freed \cup {id}
  /\ lock' = IF lock = t THEN Nothing ELSE lock
  /\ history' = [Noted(history) EXCEPT !.twice = @ \/ id \in freed]
  /\ GotoWith(t, "init", Nothing)
  /\ UNCHANGED <<screen, panels, input, near, walker, session, held, count>>

NewScreen(t, id) ==
  /\ screen' = [kind |-> pc[t].to, id |-> id]
  /\ panels' = Hidden
  /\ history' = [Noted(history) EXCEPT !.opened = FALSE]
  /\ pc' = [pc EXCEPT ![t] = IF t = "win" THEN [Idle EXCEPT !.at = "state"] ELSE Idle]
  /\ UNCHANGED <<freed, input, near, walker, session, held, lock, count>>

\* Mutant of InitScreen: the new screen takes the number, and the place, of
\* the old one.
InitSame(t) == At(t, "init") /\ NewScreen(t, screen.id)

InitScreen(t) == At(t, "init") /\ NewScreen(t, screen.id + 1)

Switch(t) ==
  \/ Drop(t) \/ ClearMap(t) \/ Reset(t) \/ Enable(t) \/ Deinit(t) \/ Destroy(t) \/ InitScreen(t)

\* The network thread waits for a packet; it is joined before the last screen goes.
Receives == At("net", "idle") /\ ~At("win", "last") /\ ~At("win", "closed")

\* handleDeath, handleFailure and onError: the network thread disconnects.
disconnect ==
  /\ Receives /\ session /\ screen.id < MaxScreens
  /\ pc' = [pc EXCEPT !["net"] = [at |-> "drop", what |-> Nothing, to |-> "char_select"]]
  /\ history' = [history EXCEPT !.raced = @ \/ ~Ready, !.kept = @ \/ input.field # 0]
  /\ UNCHANGED <<screen, freed, panels, input, near, walker, session, held, lock, count>>

-----------------------------------------------------------------------------
(* The panels.                                                             *)

hidePanels(p) == [p EXCEPT !.basic = FALSE, !.shown = {}]
setOptionsVisible(vis) ==
  /\ panels' = [panels EXCEPT !.options = vis]
  /\ input' = [input EXCEPT !.disabled = vis]

\* Mutant of showPanel: what is held when input is disabled stays set.
showPanelHeld == input' = [input EXCEPT !.disabled = TRUE]

\* basicPanelCallback shows the panel of the class and hides all panels.
showPanel == input' = [reset(input) EXCEPT !.disabled = TRUE]

basicPanelCallback ==
  /\ showPanel
  /\ panels' = hidePanels([panels EXCEPT !.shown = {near} \cap Large])

\* map.update, once a frame: the panel of the interactive object, or none.
PanelFrame ==
  /\ Ready /\ screen.kind = "game"
  /\ panels' = IF near = Nothing THEN hidePanels(panels) ELSE [panels EXCEPT !.basic = TRUE]
  /\ panels' # panels
  /\ history' = Use([history EXCEPT !.raced = @ \/ Switching("net")], "frame", screen.id)
  /\ UNCHANGED <<screen, freed, input, near, walker, session, held, pc, lock, count>>

-----------------------------------------------------------------------------
(* Keys.                                                                   *)

Handle(label, what) == pc' = [pc EXCEPT !["win"] = [at |-> label, what |-> what, to |-> Nothing]]

\* A key that moves nothing is let go at once: its release would do nothing
\* but call updateState.
Down(k) ==
  /\ Ready /\ k \notin held /\ count.events < MaxEvents
  /\ held' = IF input'.key = k THEN held \cup {k} ELSE held
  /\ count' = [count EXCEPT !.events = @ + 1]

\* Of what waits for a key: a mapper takes it, and escape unbinds.
Bound(in, k) ==
  IF in.mapper = 0 THEN in
  ELSE [in EXCEPT !.mapper = 0, !.key = IF k = "esc" THEN Nothing ELSE k]

Rebound(h, in, k) ==
  IF in.mapper # 0 /\ in.key \in held THEN [h EXCEPT !.unseen = @ \cup {"rebound"}] ELSE h

\* keyEvent, of a press; the selected field swallows it.
PressKey(k) ==
  LET in == Bound(input, k)
      h == Rebound(Use(history, "mapper", input.mapper), input, k) IN
  /\ k # "mouse"
  /\ screen.kind = "editor" => screen.id < MaxScreens
  /\ IF in.field # 0
     THEN /\ input' = IF k = "enter" THEN [in EXCEPT !.field = 0] ELSE in
          /\ history' = Use(h, "field", in.field)
          /\ UNCHANGED pc
     ELSE /\ input' = in
          /\ history' = h
          /\ Handle("press", k)
  /\ Down(k)
  /\ UNCHANGED <<screen, freed, panels, near, walker, session, lock>>

\* keyPress and mousePress: nothing on other screens, or if disabled.
Ignored == ~Playable \/ input.disabled

PressIgnored ==
  /\ At("win", "press") /\ Ignored
  /\ history' = Noted(history)
  /\ Goto("win", "state")
  /\ UNCHANGED <<screen, freed, panels, input, near, walker, session, held, lock, count>>

PressTaken ==
  /\ At("win", "press") /\ ~Ignored
  /\ history' = Noted(history)
  /\ Goto("win", "pressed")
  /\ UNCHANGED <<screen, freed, panels, input, near, walker, session, held, lock, count>>

Pressed == At("win", "pressed")

MoveUp ==
  /\ Pressed /\ pc["win"].what = input.key
  /\ input' = [input EXCEPT !.up = TRUE]
  /\ history' = Noted(history)
  /\ Goto("win", "state")
  /\ UNCHANGED <<screen, freed, panels, near, walker, session, held, lock, count>>

\* The options key: options in the game, the exit of the editor.
OpenOptions ==
  /\ Pressed /\ pc["win"].what = "esc" /\ input.key # "esc"
  /\ IF screen.kind = "editor"
     THEN /\ pc' = [pc EXCEPT !["win"] = [at |-> "enable", what |-> Nothing, to |-> "main_menu"]]
          /\ history' = Noted(history)
          /\ UNCHANGED <<panels, input>>
     ELSE /\ IF screen.kind = "game" THEN setOptionsVisible(TRUE) ELSE UNCHANGED <<panels, input>>
          /\ history' = Use(Noted(history), "options", screen.id)
          /\ Goto("win", "state")
  /\ UNCHANGED <<screen, freed, near, walker, session, held, lock, count>>

\* The chat key takes the screen for the game's without asking.
OpenChat ==
  /\ Pressed /\ pc["win"].what = "enter" /\ input.key # "enter"
  /\ IF screen.kind = "game"
     THEN /\ input' = [input EXCEPT !.field = screen.id]
          /\ history' = Use(Noted(history), "chat", screen.id)
     ELSE /\ history' = [Noted(history) EXCEPT !.wrong = @ \cup {<<"chat", screen.kind>>}]
          /\ UNCHANGED input
  /\ Goto("win", "state")
  /\ UNCHANGED <<screen, freed, panels, near, walker, session, held, lock, count>>

PressOther ==
  /\ Pressed /\ pc["win"].what \notin {"esc", "enter", input.key}
  /\ history' = Noted(history)
  /\ Goto("win", "state")
  /\ UNCHANGED <<screen, freed, panels, input, near, walker, session, held, lock, count>>

\* keyEvent and mouseEvent, of a release, which passes any field.
Release(k) ==
  /\ Ready /\ k \in held
  /\ held' = held \ {k}
  /\ Handle("release", k)
  /\ UNCHANGED <<screen, freed, panels, input, near, walker, session, lock, history, count>>

\* What keeps a release from being acted on, seen from outside the input code.
Blind == (IF panels.options THEN {"options"} ELSE {}) \cup (IF Playable THEN {} ELSE {"screen"})

ReleaseIgnored ==
  /\ At("win", "release") /\ Ignored
  /\ history' = [Noted(history) EXCEPT !.unseen = IF pc["win"].what = input.key THEN Blind ELSE @]
  /\ Goto("win", "state")
  /\ UNCHANGED <<screen, freed, panels, input, near, walker, session, held, lock, count>>

ReleaseTaken ==
  LET moves == pc["win"].what = input.key IN
  /\ At("win", "release") /\ ~Ignored
  /\ input' = IF moves THEN [input EXCEPT !.up = FALSE] ELSE input
  /\ history' = [Noted(history) EXCEPT !.unseen = IF moves THEN Blind ELSE @]
  /\ Goto("win", "state")
  /\ UNCHANGED <<screen, freed, panels, near, walker, session, held, lock, count>>

\* updateState: the player walks as the keys say, unless it cannot.
updateState ==
  /\ At("win", "state")
  /\ IF walker.here /\ ~walker.paralysed
     THEN /\ walker' = [walker EXCEPT !.walking = input.up]
          /\ history' = [Noted(history) EXCEPT !.unseen = @ \ {"paralysed"}]
     ELSE /\ UNCHANGED walker
          /\ history' = [Noted(history) EXCEPT !.unseen =
                           IF walker.paralysed THEN @ \cup {"paralysed"} ELSE @]
  /\ pc' = [pc EXCEPT !["win"] = Idle]
  /\ UNCHANGED <<screen, freed, panels, input, near, session, held, lock, count>>

-----------------------------------------------------------------------------
(* The mouse.                                                              *)

\* The elements of the current screen that can be hit; none of the last
\* screen, which is a bound.
Shown ==
  IF screen.id \in freed \/ screen.id >= MaxScreens THEN {}
  ELSE CASE screen.kind = "main_menu"   -> {"editor", "login"}
         [] screen.kind = "char_select" -> {"box"}
         [] screen.kind = "editor"      -> {}
         [] OTHER -> {"field"} \cup (IF panels.basic THEN {"open"} ELSE {})
                     \cup (IF panels.options THEN {"continue", "disconnect", "mapper"} ELSE {})

\* screen_controller.mousePress: a field is given up, a mapper takes the
\* button, then an element is looked for; else it is a press like a key's.
PressMouse(e) ==
  /\ e \in Shown \cup {Nothing}
  /\ input' = [Bound(input, "mouse") EXCEPT !.field = 0]
  /\ history' = Rebound(Use(Use(history, "field", input.field), "mapper", input.mapper), input, "mouse")
  /\ Down("mouse")
  /\ IF e = Nothing THEN Handle("press", "mouse") ELSE Handle("click", e)
  /\ UNCHANGED <<screen, freed, panels, near, walker, session, lock>>

Clicked(e) == At("win", "click") /\ pc["win"].what = e

\* The elements that switch the screen; the box selects a server too.
ClickSwitch(e, to) ==
  /\ Clicked(e)
  /\ session' = (session \/ e = "box")
  /\ pc' = [pc EXCEPT !["win"] = [at |-> "enable", what |-> Nothing, to |-> to]]
  /\ history' = Noted(history)
  /\ UNCHANGED <<screen, freed, panels, input, near, walker, held, lock, count>>

\* Fields and mappers are told by their pointers, of a screen that may be gone.
ClickSelect ==
  /\ Clicked("field") \/ Clicked("mapper")
  /\ input' = IF Clicked("field") THEN [input EXCEPT !.field = screen.id] ELSE [input EXCEPT !.mapper = screen.id]
  /\ history' = Use(Noted(history), "click", screen.id)
  /\ Goto("win", "state")
  /\ UNCHANGED <<screen, freed, panels, near, walker, session, held, lock, count>>

\* A callback takes the screen for the game's.
ClickWrong ==
  /\ \E e \in {"open", "continue", "disconnect"} : Clicked(e)
  /\ screen.kind # "game"
  /\ history' = [Noted(history) EXCEPT !.wrong = @ \cup {<<"click", screen.kind>>}]
  /\ Goto("win", "state")
  /\ UNCHANGED <<screen, freed, panels, input, near, walker, session, held, lock, count>>

ClickOpen ==
  /\ Clicked("open") /\ screen.kind = "game"
  /\ basicPanelCallback
  /\ history' = [Use(Noted(history), "click", screen.id) EXCEPT !.opened = TRUE]
  /\ Goto("win", "state")
  /\ UNCHANGED <<screen, freed, near, walker, session, held, lock, count>>

\* closeCallback, and disconnectCallback, which goes on to disconnect.
ClickClose ==
  /\ Clicked("continue") \/ Clicked("disconnect")
  /\ screen.kind = "game"
  /\ setOptionsVisible(FALSE)
  /\ history' = Use(Noted(history), "click", screen.id)
  /\ pc' = [pc EXCEPT !["win"] = IF Clicked("continue") THEN [Idle EXCEPT !.at = "state"]
                                 ELSE [at |-> "drop", what |-> Nothing, to |-> "char_select"]]
  /\ UNCHANGED <<screen, freed, near, walker, session, held, lock, count>>

-----------------------------------------------------------------------------
(* The window is closed: the network thread is joined, then                *)
(* screen_controller.deinit takes ui_lock and destroys the screen.         *)

Close ==
  /\ Ready
  /\ Goto("win", "join")
  /\ UNCHANGED <<screen, freed, panels, input, near, walker, session, held, lock, history, count>>

Joined ==
  /\ At("win", "join") /\ At("net", "idle") /\ lock = Nothing
  /\ lock' = "win"
  /\ Goto("win", "last")
  /\ UNCHANGED <<screen, freed, panels, input, near, walker, session, held, history, count>>

\* A screen whose deinit takes the lock waits for itself.
LastDeinit ==
  /\ At("win", "last") /\ screen.kind \notin Locking
  /\ freed' = freed \cup {screen.id}
  /\ lock' = Nothing
  /\ Goto("win", "closed")
  /\ UNCHANGED <<screen, panels, input, near, walker, session, held, history, count>>

-----------------------------------------------------------------------------
(* The server and the map.                                                 *)

World == count.world < MaxWorld /\ count' = [count EXCEPT !.world = @ + 1]

\* createPlayer sees the player's own id, with the input of then.
Arrive ==
  /\ session /\ Receives /\ ~walker.here /\ screen.kind = "game"
  /\ walker' = [here |-> TRUE, walking |-> FALSE, paralysed |-> FALSE]
  /\ UNCHANGED <<screen, freed, panels, input, near, session, held, pc, lock, history, count>>

Paralyse ==
  /\ walker.here /\ Receives
  /\ walker' = [walker EXCEPT !.paralysed = ~@]
  /\ IF walker.paralysed THEN UNCHANGED count ELSE World
  /\ UNCHANGED <<screen, freed, panels, input, near, session, held, pc, lock, history>>

Approach ==
  /\ World /\ walker.here /\ Ready
  /\ near' \in {Nothing, "vault_chest", "guild_board"} \ {near}
  /\ UNCHANGED <<screen, freed, panels, input, walker, session, held, pc, lock, history>>

-----------------------------------------------------------------------------
Handling ==
  \/ PressIgnored \/ PressTaken \/ MoveUp \/ OpenOptions \/ OpenChat \/ PressOther
  \/ ReleaseIgnored \/ ReleaseTaken \/ updateState
  \/ ClickSwitch("editor", "editor") \/ ClickSwitch("login", "char_select")
  \/ ClickSwitch("box", "game")
  \/ ClickSelect \/ ClickWrong \/ ClickOpen \/ ClickClose
  \/ Switch("win") \/ Joined \/ LastDeinit

User == Close \/ \E k \in Keys : PressKey(k) \/ Release(k) \/ \E e \in Elements \cup {Nothing} : PressMouse(e)

ControlsNext ==
  \/ User \/ Handling \/ PanelFrame
  \/ disconnect \/ Switch("net")
  \/ Arrive \/ Paralyse \/ Approach

\* Both threads go on; nothing makes the user, the server or the map act.
ControlsSpec == ControlsInit /\ [][ControlsNext]_controlsVars /\ WF_controlsVars(Handling) /\ WF_controlsVars(Switch("net"))
-----------------------------------------------------------------------------
(* Properties.                                                             *)

\* Every variable is in its range; what is selected is of a screen there was.
ControlsTypeOK ==
  /\ screen \in [kind : Kinds, id : 1 .. MaxScreens + 1]
  /\ freed \subseteq 1..screen.id
  /\ panels.options \in BOOLEAN /\ panels.basic \in BOOLEAN /\ panels.shown \subseteq Large
  /\ input \in [up : BOOLEAN, disabled : BOOLEAN, field : 0..screen.id, mapper : 0..screen.id,
               key : Keys \cup {Nothing}]
  /\ near \in {Nothing, "vault_chest", "guild_board"}
  /\ walker \in [here : BOOLEAN, walking : BOOLEAN, paralysed : BOOLEAN]
  /\ session \in BOOLEAN /\ held \subseteq Keys /\ lock \in Thread \cup {Nothing}
  /\ \A t \in Thread : Switching(t) => pc[t].to \in Kinds
  /\ At("net", "idle") \/ Switching("net")

\* The player walks while the key is held, and otherwise only if its release
\* went unseen: the options were open, another screen was up, the player was
\* paralysed, or the key was given to something else; or if the network
\* thread disconnected in the middle of an event.  An open panel or a selected
\* field is no reason.  (input.zig 34-43, 149-175, 474-501)
WalksByKey ==
  (Ready /\ screen.kind = "game" /\ walker.here /\ walker.walking /\ ~walker.paralysed) =>
    input.key \in held \/ history.unseen # {} \/ history.raced

\* Input is disabled only while the options are open, and from a press of
\* open to the end of the screen: that button hides the panel it has shown,
\* and nothing enables input again.  (panel_controller.zig 90-130)
DisabledForReason ==
  (Ready /\ input.disabled) => panels.options \/ history.opened \/ history.raced

\* A screen is destroyed once, unless both threads were switching; and of a
\* destroyed one only the selected chat field is used, which switchScreen
\* does not give up, unless the threads raced.  The chat key in the editor is
\* the only event that takes a screen for another.
\* (screen_controller.zig 76-124, input.zig 105-111)
ScreensLive ==
  /\ ControlsTypeOK
  /\ history.twice => history.both
  /\ history.dead \subseteq {"field"} \/ history.raced
  /\ "field" \in history.dead => history.kept \/ history.raced
  /\ history.wrong \subseteq {<<"chat", "editor">>} \/ history.raced

\* Once the user closes the window it goes, or hangs in one way: the lock is
\* had, and the screen's own deinit asks for it again.
\* (screen_controller.zig 62-74)
ClosesOrHangs ==
  At("win", "join") ~> (At("win", "closed") \/ (At("win", "last") /\ screen.kind \in Locking))
=============================================================================
