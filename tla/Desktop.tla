------------------------------ MODULE Desktop ------------------------------
(***************************************************************************)
(* The desktop: the window manager (gui/wm.c), the window registry, the    *)
(* keyboard focus and the dispatch of events (gui/core.c), the task bar    *)
(* with its start menu and date menu (gui/taskbar.c), the shutdown dialog  *)
(* (gui/shutdown.c), and the main loop's own keyboard handler              *)
(* (kernel/main.c), which runs after gui_handle_event on the same event.   *)
(*                                                                         *)
(* The C functions call each other and share gui_state, so they are        *)
(* operators from one value of that state to the next; an action is what   *)
(* the main loop does with one event, or one call of the window API.       *)
(*                                                                         *)
(* A window is named by its address, which kmalloc may hand out again      *)
(* after kfree.  Rectangles are members of Geoms, or FULL for the screen   *)
(* less the task bar.  Every window with something to click has one widget *)
(* that takes the keyboard focus, named by its window.                     *)
(***************************************************************************)
EXTENDS Integers, FiniteSets, SequencesExt

CONSTANTS
  Addr,         \* where a Window can be allocated
  NULL,
  Geoms, FULL,
  RegistrySize, \* WINDOW_REGISTRY_SIZE
  MaxWindows,   \* the limit of wm_create_window
  MaxButtons,   \* MAX_TASKBAR_BUTTONS
  Dark,         \* the darken_level of the dialog, in steps of the animation
  MaxId         \* bound: window ids handed out

ASSUME RegistryAssumption == RegistrySize \in Nat \ {0}
ASSUME ButtonAssumption == MaxButtons \in Nat /\ MaxWindows \in 1..MaxButtons
ASSUME AddrAssumption == Cardinality(Addr) > MaxWindows /\ NULL \notin Addr
ASSUME GeomAssumption == FULL \notin Geoms
ASSUME DarkAssumption == Dark \in Nat \ {0}
ASSUME BoundAssumption == MaxId \in Nat

VARIABLES
  gui,  \* gui_state, the windows it links, and taskbar.c's variables
  off,  \* shutdown.c: shutdown_state, darken_level, original_windows
  held  \* the left mouse button is down

vars == <<gui, off, held>>

-----------------------------------------------------------------------------
(* Windows                                                                 *)

(* app: all of wm_create_window's flags.  menu, date, dialog: the start    *)
(* menu, the date menu and the shutdown dialog, which clear closable and   *)
(* minimizable and never were resizable or maximizable.                    *)
Kinds == {"app", "menu", "date", "dialog"}

Window == [id : Nat, kind : Kinds, visible : BOOLEAN, minimized : BOOLEAN,
           maximized : BOOLEAN, focused : BOOLEAN, resizing : BOOLEAN,
           free : BOOLEAN, orig_free : BOOLEAN, in_taskbar : BOOLEAN,
           geom : Geoms \cup {FULL}, normal : Geoms, orig : Geoms]

(* What kfree leaves: wm_destroy_window has set the id to 0.               *)
Freed == [id |-> 0]

(* free stands for the flags movable and resizable, which maximising takes *)
(* away together; orig_free for orig_movable and orig_resizable.           *)
NewWindow(id, kind, g) ==
  [id |-> id, kind |-> kind, visible |-> TRUE, minimized |-> FALSE,
   maximized |-> FALSE, focused |-> FALSE, resizing |-> FALSE,
   free |-> TRUE, orig_free |-> TRUE, in_taskbar |-> TRUE,
   geom |-> g, normal |-> g, orig |-> g]

Live(g) == {a \in Addr : g.win[a] # Freed}

(* IS_VALID_WINDOW_PTR                                                     *)
Valid(g, w) ==
  /\ w # NULL
  /\ g.win[w].id # 0
  /\ g.registry[g.win[w].id % RegistrySize] = w

Movable(g, w) == g.win[w].free /\ g.win[w].kind \in {"app", "date", "dialog"}
Resizable(g, w) == g.win[w].free /\ g.win[w].kind = "app"

(* A window the walks over the list take for shown.                        *)
Shown(g, w) == Valid(g, w) /\ g.win[w].visible /\ ~g.win[w].minimized

SetFocus(g, widget) == [g EXCEPT !.focus_widget = widget]

-----------------------------------------------------------------------------
(* Task bar buttons                                                        *)

AddButton(g, w) ==
  IF /\ Valid(g, w) /\ g.win[w].in_taskbar
     /\ w \notin g.buttons /\ Cardinality(g.buttons) < MaxButtons
    THEN [g EXCEPT !.buttons = @ \cup {w}]
    ELSE g

RemoveButton(g, w) == [g EXCEPT !.buttons = @ \ {w}]

-----------------------------------------------------------------------------
(* wm.c                                                                    *)

(* Mutant: the window is appended without being unlinked;   *)
(* and the window that loses the focus keeps its flag.                     *)
FocusShownTwice(g, w) ==
  [g EXCEPT !.win[w].focused = TRUE, !.focused_window = w, !.order = Append(@, w)]
FocusShownNoBlur(g, w) ==
  [g EXCEPT !.win[w].focused = TRUE, !.focused_window = w,
            !.order = Append(RemoveFirst(@, w), w)]

(* wm_focus_window on a window that is not minimised, with the             *)
(* wm_bring_to_front it calls: the call that one makes in turn finds the   *)
(* window at the end of the list and changes nothing.                      *)
FocusShown(g, w) ==
  LET blurred == IF Valid(g, g.focused_window)
                   THEN [g EXCEPT !.win[g.focused_window].focused = FALSE]
                   ELSE g
  IN [blurred EXCEPT !.win[w].focused = TRUE, !.focused_window = w,
                     !.order = Append(RemoveFirst(@, w), w)]

Restore(g, w) ==
  LET win == g.win[w] IN
  CASE ~Valid(g, w) -> g
    [] Valid(g, w) /\ win.minimized ->
         LET full == win.normal = FULL IN
         FocusShown([g EXCEPT !.win[w] =
           [win EXCEPT !.visible = TRUE, !.minimized = FALSE,
                       !.geom = win.orig, !.maximized = full,
                       !.free = ~full /\ win.orig_free]], w)
    [] Valid(g, w) /\ ~win.minimized /\ win.maximized ->
         FocusShown([g EXCEPT !.win[w] =
           [win EXCEPT !.geom = win.normal, !.maximized = FALSE,
                       !.free = win.orig_free]], w)
    [] OTHER -> g

Focus(g, w) ==
  IF ~Valid(g, w) THEN g
  ELSE IF g.win[w].minimized THEN Restore(g, w) ELSE FocusShown(g, w)

Create(g, a, kind, geom) ==
  IF Len(g.order) >= MaxWindows THEN g
  ELSE LET id == g.next_window_id
           new == [g EXCEPT !.win[a] = NewWindow(id, kind, geom),
                            !.next_window_id = id + 1,
                            !.registry[id % RegistrySize] = a,
                            !.order = Append(@, a)]
       IN Focus(AddButton(new, a), a)

(* Mutant: the drag is not ended; and the id is cleared     *)
(* before the window is unregistered by it.                                *)
DestroyDragged(g, w) ==
  [g EXCEPT !.buttons = @ \ {w}, !.order = RemoveFirst(@, w), !.win[w] = Freed,
            !.focused_window = IF @ = w THEN NULL ELSE @,
            !.focus_widget = IF @ = w THEN NULL ELSE @,
            !.registry[g.win[w].id % RegistrySize] = NULL]
DestroyZeroId(g, w) ==
  [g EXCEPT !.buttons = @ \ {w}, !.order = RemoveFirst(@, w), !.win[w] = Freed,
            !.focused_window = IF @ = w THEN NULL ELSE @,
            !.focus_widget = IF @ = w THEN NULL ELSE @,
            !.registry[0] = NULL]

(* The window leaves everything that names it, then its memory.            *)
Destroy(g, w) ==
  LET bar == IF g.win[w].in_taskbar THEN RemoveButton(g, w) ELSE g
      Unless(p) == IF p = w THEN NULL ELSE p
  IN [bar EXCEPT !.focused_window = Unless(@), !.dragging_window = Unless(@),
                 !.focus_widget = Unless(@), !.order = RemoveFirst(@, w),
                 !.registry[g.win[w].id % RegistrySize] = NULL,
                 !.win[w] = Freed]

Close(g, w) ==
  IF Valid(g, w) /\ g.win[w].kind = "app" THEN Destroy(g, w) ELSE g

Maximize(g, w) ==
  LET win == g.win[w] IN
  IF ~Valid(g, w) \/ win.maximized \/ win.kind # "app" THEN g
  ELSE [g EXCEPT !.win[w] =
         [win EXCEPT !.normal = win.geom, !.orig_free = win.free,
                     !.geom = FULL, !.maximized = TRUE, !.free = FALSE]]

(* The focus goes to the first window of the list, the one furthest back,  *)
(* that is not minimised.                                                  *)
Minimize(g, w) ==
  LET win == g.win[w]
      hidden == [g EXCEPT !.win[w] =
                  [win EXCEPT !.orig = IF win.maximized THEN win.normal ELSE win.geom,
                              !.visible = FALSE, !.minimized = TRUE]]
      other == SelectInSeq(g.order, LAMBDA v : /\ Valid(hidden, v) /\ v # w
                                               /\ ~hidden.win[v].minimized)
      unfocused == [hidden EXCEPT !.win[w].focused = FALSE, !.focused_window = NULL]
      passed == IF g.focused_window # w THEN hidden
                ELSE IF other = 0 THEN unfocused
                ELSE Focus(unfocused, g.order[other])
  IN IF ~Valid(g, w) \/ win.kind # "app" \/ win.minimized THEN g
     ELSE IF g.focus_widget = w THEN SetFocus(passed, NULL) ELSE passed

Toggle(g, w) == IF g.win[w].maximized THEN Restore(g, w) ELSE Maximize(g, w)

(* The rectangle after wm_move_window, and after wm_end_resize.            *)
Settle(g, w, r) ==
  [g EXCEPT !.win[w] = [@ EXCEPT !.geom = r, !.normal = r, !.orig = r]]

-----------------------------------------------------------------------------
(* The menus of the task bar                                               *)

(* Mutant: the flag is cleared, the button stays.           *)
CreateMenuOnBar(g, a, kind, geom) ==
  LET made == Create(g, a, kind, geom) IN
  IF made = g THEN g ELSE Focus([made EXCEPT !.win[a].in_taskbar = FALSE], a)

(* A menu is created as any window, then taken off the task bar.           *)
CreateMenu(g, a, kind, geom) ==
  LET made == Create(g, a, kind, geom) IN
  IF made = g THEN g
  ELSE Focus(RemoveButton([made EXCEPT !.win[a].in_taskbar = FALSE], a), a)

Created(g, made, a) == IF made = g THEN NULL ELSE a

StartMenuClose(g) ==
  LET w == g.start_menu IN
  [(IF Valid(g, w) THEN Destroy(g, w) ELSE g) EXCEPT !.start_menu = NULL]

StartMenuToggle(g, a, geom) ==
  LET made == CreateMenu(g, a, "menu", geom) IN
  IF g.start_menu # NULL THEN StartMenuClose(g)
  ELSE [made EXCEPT !.start_menu = Created(g, made, a)]

DateMenuToggle(g, a, geom) ==
  LET w == g.date_menu
      made == CreateMenu(g, a, "date", geom)
  IN IF w # NULL
       THEN [(IF Valid(g, w) THEN Destroy(g, w) ELSE g) EXCEPT !.date_menu = NULL]
       ELSE [made EXCEPT !.date_menu = Created(g, made, a)]

-----------------------------------------------------------------------------
(* The shutdown dialog                                                     *)

States == {"IDLE", "DIALOG", "CANCELING", "CONFIRMING", "OFF"}

Show(g, ws, b) ==
  [g EXCEPT !.win = [a \in Addr |->
     IF a \in ws /\ Valid(g, a) THEN [@[a] EXCEPT !.visible = b] ELSE @[a]]]

Visible(g) == {w \in ToSet(g.order) : Valid(g, w) /\ g.win[w].visible}

(* Mutant: the windows are remembered once they are hidden. *)
OpenDialogForgets(g, o, a, geom) ==
  LET bare == StartMenuClose(Show(g, Visible(g), FALSE))
      made == CreateMenu(bare, a, "dialog", geom)
  IN [gui |-> made,
      off |-> [state |-> "DIALOG", dark |-> 0, dialog |-> a, originals |-> Visible(bare)]]

(* shutdown_dialog_callback: the windows that were visible are remembered  *)
(* and hidden, the start menu, which is one of them, is destroyed.         *)
OpenDialog(g, o, a, geom) ==
  LET bare == StartMenuClose(Show(g, Visible(g), FALSE))
      made == CreateMenu(bare, a, "dialog", geom)
  IN IF made = bare
       THEN [gui |-> Show(bare, Visible(g), TRUE), off |-> [o EXCEPT !.dark = 0, !.originals = {}]]
       ELSE [gui |-> made,
             off |-> [state |-> "DIALOG", dark |-> 0, dialog |-> a, originals |-> Visible(g)]]

(* The dialog goes, whichever button it was.                               *)
LeaveDialog(state) ==
  /\ gui' = Destroy(gui, off.dialog)
  /\ off' = [off EXCEPT !.state = state, !.dialog = NULL]

-----------------------------------------------------------------------------
Init ==
  /\ gui = [win |-> [a \in Addr |-> Freed], order |-> <<>>, next_window_id |-> 1,
            registry |-> [i \in 0..RegistrySize - 1 |-> NULL], buttons |-> {},
            focused_window |-> NULL, dragging_window |-> NULL, focus_widget |-> NULL,
            start_menu |-> NULL, date_menu |-> NULL]
  /\ off = [state |-> "IDLE", dark |-> 0, dialog |-> NULL, originals |-> {}]
  /\ held = FALSE

Free == {a \in Addr : gui.win[a] = Freed}
Idle == off.state = "IDLE"
MayCreate == gui.next_window_id <= MaxId

(* A program's call of wm_create_window.                                   *)
CreateWindow ==
  /\ Idle /\ MayCreate
  /\ \E a \in Free, r \in Geoms : gui' = Create(gui, a, "app", r)
  /\ UNCHANGED <<off, held>>

-----------------------------------------------------------------------------
(* A key goes to gui_handle_event, which ignores it while the shutdown     *)
(* dialog is up, and then to handle_keyboard_events, which does not.       *)

Escape(g) == IF g.focused_window # NULL THEN Close(g, g.focused_window) ELSE g

ToggleMaximized(g) ==
  LET w == g.focused_window IN
  IF Valid(g, w) /\ g.win[w].kind = "app" THEN Toggle(g, w) ELSE g

(* build_focus_chain, over the list: the places of the windows whose       *)
(* widget can take the focus.                                              *)
FocusChain(g) ==
  {i \in DOMAIN g.order : Shown(g, g.order[i]) /\ g.win[g.order[i]].kind # "date"}

(* A focus that is not in the chain counts as its first place.             *)
CurrentPlace(g) ==
  IF \E i \in FocusChain(g) : g.order[i] = g.focus_widget
    THEN CHOOSE i \in FocusChain(g) : g.order[i] = g.focus_widget
    ELSE Min(FocusChain(g))

FocusNext(g) ==
  LET chain == FocusChain(g)
      after == {i \in chain : i > CurrentPlace(g)}
  IN IF chain = {} THEN g
     ELSE SetFocus(g, g.order[Min(IF after = {} THEN chain ELSE after)])

FocusPrev(g) ==
  LET chain == FocusChain(g)
      before == {i \in chain : i < CurrentPlace(g)}
  IN IF chain = {} THEN g
     ELSE SetFocus(g, g.order[Max(IF before = {} THEN chain ELSE before)])

Handlers(Op(_)) == gui' = IF Idle THEN Op(Op(gui)) ELSE Op(gui)

KeyEscape == off.state # "OFF" /\ Handlers(Escape) /\ UNCHANGED <<off, held>>
KeyF11 == off.state # "OFF" /\ Handlers(ToggleMaximized) /\ UNCHANGED <<off, held>>
KeyTab ==
  /\ off.state # "OFF"
  /\ Handlers(FocusNext) \/ Handlers(FocusPrev)
  /\ UNCHANGED <<off, held>>

KeyWin ==
  /\ off.state # "OFF" /\ MayCreate
  /\ \E a \in Free, r \in Geoms : gui' = StartMenuToggle(gui, a, r)
  /\ UNCHANGED <<off, held>>

-----------------------------------------------------------------------------
(* The mouse.  A window being dragged takes every event, then a focused    *)
(* window being resized, then the task bar, then the start menu.           *)

Resized(g) ==
  LET w == g.focused_window IN Valid(g, w) /\ g.win[w].resizing /\ Resizable(g, w)

Captured == gui.dragging_window # NULL \/ Resized(gui)

(* Some point of the window is not under a maximised one in front of it.   *)
Reachable(g, w) ==
  /\ Shown(g, w)
  /\ \A i, j \in DOMAIN g.order :
       g.order[i] = w /\ i < j /\ Shown(g, g.order[j]) => ~g.win[g.order[j]].maximized

Press == ~held /\ held' = TRUE

PressCaptured ==
  /\ Press /\ Idle /\ Captured
  /\ gui' = IF Valid(gui, gui.dragging_window) \/ gui.dragging_window = NULL THEN gui
            ELSE [gui EXCEPT !.dragging_window = NULL]
  /\ UNCHANGED off

(* A button whose window is gone is only made invalid: the count of buttons*)
(* stays too high.  The count decides how far the bar scrolls, no more, and*)
(* is left out.                                                            *)
PressTaskbarButton(w) ==
  /\ Press /\ Idle /\ ~Captured /\ w \in gui.buttons
  /\ gui' = CASE ~Valid(gui, w) -> RemoveButton(gui, w)
              [] Valid(gui, w) /\ gui.win[w].minimized -> Restore(gui, w)
              [] Valid(gui, w) /\ ~gui.win[w].minimized /\ gui.win[w].focused -> Minimize(gui, w)
              [] OTHER -> Focus(gui, w)
  /\ UNCHANGED off

PressStartButton ==
  /\ Press /\ Idle /\ ~Captured /\ MayCreate
  /\ \E a \in Free, r \in Geoms : gui' = StartMenuToggle(gui, a, r)
  /\ UNCHANGED off

PressClock ==
  /\ Press /\ Idle /\ ~Captured /\ MayCreate
  /\ \E a \in Free, r \in Geoms : gui' = DateMenuToggle(gui, a, r)
  /\ UNCHANGED off

(* The start menu's button: Shutdown Computer.                             *)
PressShutdown ==
  /\ Press /\ Idle /\ ~Captured /\ Valid(gui, gui.start_menu) /\ MayCreate
  /\ LET focused == Focus(gui, gui.start_menu) IN
     \E a \in Free \cup {gui.start_menu}, r \in Geoms :
       LET opened == OpenDialog(focused, off, a, r) IN
       gui' = opened.gui /\ off' = opened.off

(* What a press on window w, already focused, does on its widget, on its   *)
(* title bar with the three buttons, and on its edges.                     *)
OnWidget(g, w) == gui' = IF g.win[w].kind = "app" THEN SetFocus(g, w) ELSE g

OnTitle(g, w) ==
  \/ gui' \in {Close(g, w), Minimize(g, w), Toggle(g, w)} /\ g.win[w].kind = "app"
  \/ gui' = IF Movable(g, w) /\ ~g.win[w].maximized
              THEN [g EXCEPT !.dragging_window = w] ELSE g

OnEdge(g, w) ==
  /\ Resizable(g, w) /\ ~g.win[w].maximized
  /\ gui' = [g EXCEPT !.win[w].resizing = TRUE]

PressWindow(w) ==
  /\ Press /\ Idle /\ ~Captured /\ Reachable(gui, w)
  /\ LET g == Focus(gui, w) IN OnWidget(g, w) \/ OnTitle(g, w) \/ OnEdge(g, w)
  /\ UNCHANGED off

(* Nothing is under the pointer: no window keeps the focus.                *)
PressNothing ==
  /\ Press /\ Idle /\ ~Captured
  /\ \A w \in Addr : Shown(gui, w) => ~gui.win[w].maximized
  /\ LET w == gui.focused_window
         g == IF Valid(gui, w) THEN [gui EXCEPT !.win[w].focused = FALSE] ELSE gui
     IN gui' = [g EXCEPT !.focused_window = NULL, !.focus_widget = NULL]
  /\ UNCHANGED off

MoveDragged ==
  LET w == gui.dragging_window IN
  /\ Idle /\ w # NULL
  /\ IF ~Valid(gui, w) \/ gui.win[w].maximized
       THEN gui' = [gui EXCEPT !.dragging_window = NULL]
       ELSE /\ Movable(gui, w) /\ ~gui.win[w].minimized
            /\ \E r \in Geoms : gui' = Settle(gui, w, r)
  /\ UNCHANGED <<off, held>>

MoveResized ==
  /\ Idle /\ gui.dragging_window = NULL /\ Resized(gui)
  /\ \E r \in Geoms : gui' = [gui EXCEPT !.win[gui.focused_window].geom = r]
  /\ UNCHANGED <<off, held>>

(* The pointer over the start menu brings it to the front.                 *)
MoveOverStartMenu ==
  /\ Idle /\ ~Captured /\ Valid(gui, gui.start_menu)
  /\ gui' = Focus(gui, gui.start_menu)
  /\ UNCHANGED <<off, held>>

(* Mutant: only one of the two saved rectangles is kept.    *)
EndResizeNormal(g, w) ==
  [g EXCEPT !.win[w] = [@ EXCEPT !.resizing = FALSE, !.normal = g.win[w].geom]]

EndResize(g, w) ==
  LET done == [g EXCEPT !.win[w].resizing = FALSE] IN
  IF g.win[w].maximized THEN done ELSE Settle(done, w, g.win[w].geom)

(* Mutant: the task bar takes the release first.            *)
ReleaseOverTaskbar ==
  held /\ off.state # "OFF" /\ held' = FALSE /\ UNCHANGED <<gui, off>>

Release ==
  /\ held /\ off.state # "OFF" /\ held' = FALSE
  /\ gui' = CASE Idle /\ gui.dragging_window # NULL -> [gui EXCEPT !.dragging_window = NULL]
              [] Idle /\ gui.dragging_window = NULL /\ Resized(gui) ->
                   EndResize(gui, gui.focused_window)
              [] OTHER -> gui
  /\ UNCHANGED off

-----------------------------------------------------------------------------
(* While the dialog is up the mouse reaches only its two buttons.          *)

PressDialog ==
  /\ Press /\ off.state = "DIALOG"
  /\ IF Valid(gui, off.dialog)
       THEN LeaveDialog("CONFIRMING") \/ LeaveDialog("CANCELING")
       ELSE UNCHANGED <<gui, off>>

(* update_shutdown_animation, called by the main loop.                     *)
Darken ==
  /\ off.state = "DIALOG" /\ off.dark < Dark
  /\ off' = [off EXCEPT !.dark = @ + 1]
  /\ UNCHANGED <<gui, held>>

Lighten ==
  LET level == IF off.dark = 0 THEN 0 ELSE off.dark - 1 IN
  /\ off.state = "CANCELING"
  /\ IF level # 0
       THEN off' = [off EXCEPT !.dark = level] /\ UNCHANGED gui
       ELSE /\ gui' = Show(gui, off.originals, TRUE)
            /\ off' = [state |-> "IDLE", dark |-> 0, dialog |-> NULL, originals |-> {}]
  /\ UNCHANGED held

Blacken ==
  /\ off.state = "CONFIRMING"
  /\ off' = [off EXCEPT !.dark = @ + 1, !.state = IF off.dark + 1 >= 2 * Dark THEN "OFF" ELSE @]
  /\ UNCHANGED <<gui, held>>

Next ==
  \/ CreateWindow \/ KeyEscape \/ KeyF11 \/ KeyTab \/ KeyWin
  \/ PressCaptured \/ PressStartButton \/ PressClock \/ PressShutdown \/ PressNothing
  \/ \E w \in Addr : PressTaskbarButton(w) \/ PressWindow(w)
  \/ MoveDragged \/ MoveResized \/ MoveOverStartMenu \/ Release
  \/ PressDialog \/ Darken \/ Lighten \/ Blacken

Spec == Init /\ [][Next]_vars

-----------------------------------------------------------------------------
Pointer == Addr \cup {NULL}

(* Every part of the desktop's state has its type.                         *)
TypeOK ==
  /\ gui.win \in [Addr -> Window \cup {Freed}]
  /\ gui.order \in Seq(Addr) /\ IsInjective(gui.order)
  /\ gui.registry \in [0..RegistrySize - 1 -> Pointer]
  /\ gui.buttons \subseteq Addr /\ gui.next_window_id \in 1..MaxId + 1
  /\ {gui.focused_window, gui.dragging_window, gui.focus_widget,
      gui.start_menu, gui.date_menu} \subseteq Pointer
  /\ off \in [state : States, dark : 0..2 * Dark, dialog : Pointer, originals : SUBSET Addr]
  /\ held \in BOOLEAN

(* No pointer the window manager, the focus, the menus or the task bar     *)
(* keep is to a window that was freed, and every window that was not freed *)
(* is in the list (wm_destroy_window and its callers).                     *)
NoDangling ==
  /\ ToSet(gui.order) = Live(gui)
  /\ {gui.focused_window, gui.dragging_window, gui.focus_widget, gui.start_menu,
      gui.date_menu, off.dialog} \subseteq Live(gui) \cup {NULL}
  /\ Range(gui.registry) \subseteq Live(gui) \cup {NULL}

(* Each window of the task bar keeps its button for as long as it exists,  *)
(* so that a minimised window can be brought back, and a menu or dialog    *)
(* leaves none behind (taskbar_add_window, taskbar_remove_window).         *)
ButtonForEachWindow ==
  \A w \in Live(gui) : Valid(gui, w) => (w \in gui.buttons <=> gui.win[w].in_taskbar)

(* A window stays usable until RegistrySize further ids were handed out:   *)
(* only then can a younger window have taken its slot of the registry.     *)
RegisteredForAWhile ==
  \A w \in Live(gui) :
    Valid(gui, w) \/ gui.next_window_id > gui.win[w].id + RegistrySize

(* Whatever sequence of maximising, minimising, moving and resizing led    *)
(* here, a window that is not being resized has one rectangle to come back *)
(* to, and is free to move and to resize exactly when it is not maximised. *)
OneRectangle ==
  \A w \in Live(gui) :
    LET win == gui.win[w] IN
    /\ ~win.resizing => win.normal = win.orig /\ win.geom \in {win.normal, FULL}
    /\ ~win.minimized => (win.maximized <=> win.geom = FULL) /\ win.free = ~win.maximized

(* A window is dragged only while the button is held: no release goes past *)
(* it, whatever was closed, created or maximised during the drag.  (For a  *)
(* window being resized this is not so: see the README.)                   *)
DraggedOnlyWhileHeld == ~held /\ Idle => gui.dragging_window = NULL

(* When the shutdown was cancelled the desktop is as before: a window is   *)
(* visible unless it is minimised (hide_all_windows, restore_all_windows). *)
CancelShowsAll ==
  Idle => \A w \in Live(gui) :
            Valid(gui, w) => gui.win[w].visible = ~gui.win[w].minimized

(* The focused flag, by which the task bar decides between minimising and  *)
(* focusing, is that of gui_state.focused_window.                          *)
OneFocused ==
  \A w \in Live(gui) :
    Valid(gui, w) /\ gui.win[w].focused => gui.focused_window = w
=============================================================================
