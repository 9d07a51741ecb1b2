--------------------------- MODULE DesktopProofs ---------------------------
(***************************************************************************)
(* Proofs about Desktop, for any number of windows, any size of the        *)
(* registry and any rectangles.                                            *)
(*                                                                         *)
(* The C functions are operators from one value of gui_state to the next,  *)
(* and one event calls several of them, so what they preserve is stated of *)
(* such a value: Good(g, hidden, dlg), where hidden are the windows the    *)
(* shutdown dialog has hidden and dlg is the dialog.  Its parts are Links, *)
(* what names a window, and Looks, what a window shows.  One lemma for     *)
(* each function says that it takes good states to good states; a step is  *)
(* then a chain of those, and the properties are read off the invariant.   *)
(*                                                                         *)
(* Good says more than the properties do: that a slot of the registry      *)
(* agrees with the id of its window (Registered), that ids grow            *)
(* (Numbered), what kind of window the menus and the dialog are (Menus),   *)
(* and that a window that can be restored may move again (WellShaped).     *)
(***************************************************************************)
EXTENDS Desktop, FiniteSetTheorems, WellFoundedInduction, TLAPS

(* A set of numbers has a least member, and a bounded one a greatest.      *)
LEMMA LeastExists ==
  ASSUME NEW T \in SUBSET Nat, T # {}
  PROVE  \E x \in T : \A y \in T : x <= y
<1> DEFINE Less == {p \in Nat \X Nat : p[1] < p[2]}
<1>1. IsWellFoundedOn(Less, Nat)
  BY NatLessThanWellFounded, Zenon DEF OpToRel
<1>2. \E x \in T : \A y \in T : ~(<<y, x>> \in Less)
  <2> HIDE DEF Less
  <2> QED BY <1>1, WFMin
<1>3. \A x \in Nat, y \in Nat : x <= y \/ <<y, x>> \in Less
  OBVIOUS
<1> HIDE DEF Less
<1> QED BY <1>2, <1>3

LEMMA MinIn ==
  ASSUME NEW T \in SUBSET Nat, T # {}
  PROVE  Min(T) \in T
BY LeastExists DEF Min

LEMMA MaxIn ==
  ASSUME NEW n \in Nat, NEW T \in SUBSET (1..n), T # {}
  PROVE  Max(T) \in T
<1> DEFINE Mirror == {n - i : i \in T}
<1>1. Mirror \in SUBSET Nat /\ Mirror # {}
  <2>1. \A i \in T : n - i \in Nat
    OBVIOUS
  <2> QED BY <2>1
<1>2. PICK y \in Mirror : \A z \in Mirror : y <= z
  BY <1>1, LeastExists
<1>3. PICK m \in T : y = n - m
  OBVIOUS
<1>4. \A i \in T : m >= i
  <2> SUFFICES ASSUME NEW i \in T PROVE m >= i
    OBVIOUS
  <2>1. n - m <= n - i
    BY <1>2, <1>3
  <2> QED BY <2>1
<1> QED BY <1>4 DEF Max

(* safe_remove_window_from_list takes the window out, and only it.         *)
LEMMA Unlinked ==
  ASSUME NEW S, NEW s \in Seq(S), IsInjective(s), NEW w
  PROVE  /\ RemoveFirst(s, w) \in Seq(S)
         /\ IsInjective(RemoveFirst(s, w))
         /\ ToSet(RemoveFirst(s, w)) = ToSet(s) \ {w}
<1>1. CASE ~\E i \in 1..Len(s) : s[i] = w
  BY <1>1 DEF RemoveFirst, ToSet
<1>2. ASSUME NEW i \in 1..Len(s), s[i] = w
      PROVE  RemoveFirst(s, w) = RemoveAt(s, i)
  <2>1. {j \in 1..Len(s) : s[j] = w} = {i}
    BY <1>2 DEF IsInjective
  <2>2. Min({i}) = i
    BY DEF Min
  <2>3. SelectInSeq(s, LAMBDA v : v = w) = i
    BY <2>1, <2>2 DEF SelectInSeq
  <2> QED BY <1>2, <2>3 DEF RemoveFirst
<1>3. CASE \E i \in 1..Len(s) : s[i] = w
  <2>1. PICK i \in 1..Len(s) : s[i] = w
    BY <1>3
  <2> DEFINE r == RemoveAt(s, i)
  <2>2. /\ r \in Seq(S) /\ Len(r) = Len(s) - 1
        /\ \A j \in 1..Len(r) : r[j] = IF j < i THEN s[j] ELSE s[j + 1]
    <3> DEFINE front == SubSeq(s, 1, i - 1)
               back == SubSeq(s, i + 1, Len(s))
    <3>1. /\ front \in Seq(S) /\ Len(front) = i - 1
          /\ \A j \in 1..(i - 1) : front[j] = s[j]
      OBVIOUS
    <3>2. /\ back \in Seq(S) /\ Len(back) = Len(s) - i
          /\ \A j \in 1..(Len(s) - i) : back[j] = s[j + i]
      OBVIOUS
    <3>3. r = front \o back
      BY DEF RemoveAt
    <3> HIDE DEF front, back, r
    <3>4. /\ r \in Seq(S) /\ Len(r) = Len(s) - 1
          /\ \A j \in 1..Len(r) : r[j] = IF j <= i - 1 THEN front[j] ELSE back[j - (i - 1)]
      BY <3>1, <3>2, <3>3
    <3> QED BY <3>1, <3>2, <3>4
  <2>3. r = RemoveFirst(s, w)
    BY <1>2, <2>1
  <2> HIDE DEF r
  <2>4. ASSUME NEW j \in 1..Len(r), NEW k \in 1..Len(r), r[j] = r[k] PROVE j = k
    <3> DEFINE At(n) == IF n < i THEN n ELSE n + 1
    <3>1. /\ At(j) \in 1..Len(s) /\ At(k) \in 1..Len(s)
          /\ r[j] = s[At(j)] /\ r[k] = s[At(k)]
      BY <2>2
    <3>2. \A m, n \in 1..Len(s) : s[m] = s[n] => m = n
      BY DEF IsInjective
    <3>3. s[At(j)] = s[At(k)]
      BY <2>4, <3>1
    <3>4. At(j) = At(k)
      <4> HIDE DEF At
      <4> QED BY <3>1, <3>2, <3>3
    <3> QED BY <3>4, <2>2
  <2>5. IsInjective(r)
    BY <2>2, <2>4 DEF IsInjective
  <2>6. ToSet(r) \subseteq ToSet(s) \ {w}
    BY <2>1, <2>2 DEF ToSet, IsInjective
  <2>7. ASSUME NEW j \in 1..Len(s), s[j] # w PROVE s[j] \in ToSet(r)
    <3>1. CASE j < i
      BY <2>2, <3>1 DEF ToSet
    <3>2. CASE j > i
      <4>1. j - 1 \in 1..Len(r) /\ r[j - 1] = s[j]
        BY <2>2, <3>2
      <4> QED BY <4>1, <2>2 DEF ToSet
    <3> QED BY <2>1, <2>7, <3>1, <3>2
  <2>8. ToSet(s) \ {w} \subseteq ToSet(r)
    BY <2>7 DEF ToSet
  <2> QED BY <2>2, <2>3, <2>5, <2>6, <2>8
<1> QED BY <1>1, <1>3

(* safe_add_window_to_list puts the window at the end.                     *)
LEMMA Linked ==
  ASSUME NEW S, NEW s \in Seq(S), IsInjective(s), NEW w \in S, w \notin ToSet(s)
  PROVE  /\ Append(s, w) \in Seq(S)
         /\ IsInjective(Append(s, w))
         /\ ToSet(Append(s, w)) = ToSet(s) \cup {w}
<1> DEFINE r == Append(s, w)
<1>1. r \in Seq(S) /\ Len(r) = Len(s) + 1
  OBVIOUS
<1>2. \A j \in 1..Len(s) : r[j] = s[j] /\ s[j] # w
  BY DEF ToSet
<1>3. r[Len(s) + 1] = w
  OBVIOUS
<1> HIDE DEF r
<1>4. IsInjective(r)
  BY <1>1, <1>2, <1>3 DEF IsInjective
<1>5. ToSet(r) = ToSet(s) \cup {w}
  BY <1>1, <1>2, <1>3 DEF ToSet
<1> QED BY <1>1, <1>4, <1>5 DEF r

-----------------------------------------------------------------------------
(* The invariant, of a value g of gui_state.  hidden are the windows the   *)
(* shutdown dialog has hidden, dlg is the dialog.                          *)

GuiType ==
  [win : [Addr -> Window \cup {Freed}], order : Seq(Addr), next_window_id : Nat,
   registry : [0..RegistrySize - 1 -> Pointer], buttons : SUBSET Addr,
   focused_window : Pointer, dragging_window : Pointer, focus_widget : Pointer,
   start_menu : Pointer, date_menu : Pointer]

Listed(g) == IsInjective(g.order) /\ ToSet(g.order) = Live(g)

Numbered(g) ==
  g.next_window_id >= 1 /\ \A w \in Live(g) : g.win[w].id \in 1..(g.next_window_id - 1)

Registered(g) ==
  \A i \in 0..RegistrySize - 1 : LET w == g.registry[i] IN
    w # NULL => w \in Live(g) /\ g.win[w].id % RegistrySize = i

Recent(g) ==
  \A w \in Live(g) : Valid(g, w) \/ g.next_window_id > g.win[w].id + RegistrySize

Pointing(g) ==
  {g.focused_window, g.dragging_window, g.focus_widget} \subseteq Live(g) \cup {NULL}

Named(g, p, kind) == p # NULL => p \in Live(g) /\ g.win[p].kind = kind

Menus(g, dlg) ==
  Named(g, g.start_menu, "menu") /\ Named(g, g.date_menu, "date") /\ Named(g, dlg, "dialog")

Barred(g) ==
  /\ \A w \in g.buttons : w \in Live(g) /\ g.win[w].in_taskbar
  /\ \A w \in Live(g) : Valid(g, w) /\ g.win[w].in_taskbar => w \in g.buttons

WellShaped(win) ==
  /\ win.orig_free = TRUE
  /\ ~win.resizing => win.normal = win.orig /\ win.geom \in {win.normal, FULL}
  /\ ~win.minimized => (win.maximized <=> win.geom = FULL) /\ win.free = ~win.maximized

Shaped(g) == \A w \in Live(g) : WellShaped(g.win[w])

Focused(g) ==
  /\ \A w \in Live(g) : Valid(g, w) /\ g.win[w].focused => g.focused_window = w
  /\ g.focused_window # NULL => ~g.win[g.focused_window].minimized

SeenAs(win, hidden) ==
  IF hidden THEN ~win.minimized ELSE win.visible = ~win.minimized

Seen(g, hidden) == \A w \in Live(g) : Valid(g, w) => SeenAs(g.win[w], w \in hidden)

Links(g, dlg) ==
  /\ Listed(g) /\ Numbered(g) /\ Registered(g) /\ Recent(g)
  /\ Pointing(g) /\ Menus(g, dlg) /\ Barred(g)

Looks(g, hidden) == Shaped(g) /\ Focused(g) /\ Seen(g, hidden)

Good(g, hidden, dlg) == g \in GuiType /\ Links(g, dlg) /\ Looks(g, hidden)

(* h has the windows, the registry, the buttons and the menus of g.        *)
Same(g, h) ==
  /\ Live(h) = Live(g)
  /\ \A w \in Live(g) : /\ h.win[w].id = g.win[w].id /\ h.win[w].kind = g.win[w].kind
                        /\ h.win[w].in_taskbar = g.win[w].in_taskbar
  /\ h.registry = g.registry /\ h.next_window_id = g.next_window_id
  /\ h.buttons = g.buttons /\ h.start_menu = g.start_menu /\ h.date_menu = g.date_menu

(* The drag of g goes on in h, or has ended.                               *)
Drags(g, h) == h.dragging_window \in {g.dragging_window, NULL}

-----------------------------------------------------------------------------
(* Steps that leave the windows where they are                             *)

LEMMA SameTransitive ==
  ASSUME NEW g, NEW h, NEW k, Same(g, h), Same(h, k)
  PROVE  Same(g, k)
BY DEF Same

LEMMA FreedIsNoWindow == Freed \notin Window
BY DEF Freed, Window

LEMMA LiveIsWindow ==
  ASSUME NEW g \in GuiType, NEW w
  PROVE  w \in Live(g) <=> w \in Addr /\ g.win[w] \in Window
BY FreedIsNoWindow DEF Live, GuiType

LEMMA SlotOf ==
  ASSUME NEW n \in Nat
  PROVE  n % RegistrySize \in 0..RegistrySize - 1
BY RegistryAssumption

(* A pointer that is valid is to a live window.                            *)
LEMMA ValidIsLive ==
  ASSUME NEW g \in GuiType, NEW w \in Pointer, Valid(g, w)
  PROVE  w \in Live(g)
<1>1. w \in Addr
  BY DEF Valid, Pointer
<1>2. g.win[w] # Freed
  BY <1>1 DEF Valid, Freed
<1> QED BY <1>1, <1>2 DEF Live

LEMMA SameLinks ==
  ASSUME NEW g \in GuiType, NEW dlg, Links(g, dlg), NEW h \in GuiType, Same(g, h),
         Listed(h), Pointing(h)
  PROVE  /\ Links(h, dlg)
         /\ \A w \in Live(g) : Valid(h, w) <=> Valid(g, w)
<1>1. \A w \in Live(g) : Valid(h, w) <=> Valid(g, w)
  BY DEF Same, Valid
<1>2. Numbered(h)
  BY DEF Links, Numbered, Same
<1>3. Registered(h)
  <2> SUFFICES ASSUME NEW i \in 0..RegistrySize - 1, h.registry[i] # NULL
               PROVE  /\ h.registry[i] \in Live(h)
                      /\ h.win[h.registry[i]].id % RegistrySize = i
    BY DEF Registered
  <2>1. h.registry[i] = g.registry[i] /\ h.registry[i] \in Live(g)
    BY DEF Links, Registered, Same
  <2> QED BY <2>1 DEF Links, Registered, Same
<1>4. Recent(h)
  BY <1>1 DEF Links, Recent, Same
<1>5. Menus(h, dlg)
  BY DEF Links, Menus, Named, Same
<1>6. Barred(h)
  BY <1>1 DEF Links, Barred, Same
<1> QED BY <1>1, <1>2, <1>3, <1>4, <1>5, <1>6 DEF Links

(* A window changes its looks.                                             *)
LEMMA WindowChanges ==
  ASSUME NEW g, NEW hidden, NEW dlg, Good(g, hidden, dlg), NEW w \in Live(g),
         NEW win \in Window,
         win.id = g.win[w].id, win.kind = g.win[w].kind,
         win.in_taskbar = g.win[w].in_taskbar,
         WellShaped(win), Valid(g, w) => SeenAs(win, w \in hidden),
         win.focused => g.win[w].focused, g.focused_window = w => ~win.minimized
  PROVE  /\ Good([g EXCEPT !.win[w] = win], hidden, dlg)
         /\ Same(g, [g EXCEPT !.win[w] = win])
<1> DEFINE h == [g EXCEPT !.win[w] = win]
<1>1. g \in GuiType /\ w \in Addr
  BY DEF Good, Live
<1>2. /\ h \in GuiType
      /\ h.win = [g.win EXCEPT ![w] = win]
      /\ h.order = g.order /\ h.registry = g.registry /\ h.buttons = g.buttons
      /\ h.next_window_id = g.next_window_id
      /\ h.focused_window = g.focused_window /\ h.dragging_window = g.dragging_window
      /\ h.focus_widget = g.focus_widget
      /\ h.start_menu = g.start_menu /\ h.date_menu = g.date_menu
  BY <1>1 DEF GuiType
<1> HIDE DEF h
<1>3. \A v \in Addr : h.win[v] = IF v = w THEN win ELSE g.win[v]
  BY <1>1, <1>2 DEF GuiType
<1>4. Live(h) = Live(g)
  BY <1>1, <1>3, FreedIsNoWindow DEF Live
<1>5. Same(g, h)
  BY <1>2, <1>3, <1>4 DEF Same, Live
<1>6. Listed(h) /\ Pointing(h)
  BY <1>2, <1>4 DEF Good, Links, Listed, Pointing
<1>7. Links(h, dlg) /\ \A v \in Live(g) : Valid(h, v) <=> Valid(g, v)
  BY <1>1, <1>2, <1>5, <1>6, SameLinks DEF Good
<1>8. Shaped(h)
  BY <1>3, <1>4 DEF Good, Looks, Shaped, Live
<1>9. Focused(h)
  <2>1. \A v \in Live(g) : h.win[v].focused => g.win[v].focused
    BY <1>3 DEF Live
  <2>2. h.focused_window # NULL => ~h.win[h.focused_window].minimized
    BY <1>2, <1>3 DEF Good, Looks, Focused, Links, Pointing, Live
  <2> QED BY <1>2, <1>4, <1>7, <2>1, <2>2 DEF Good, Looks, Focused
<1>10. Seen(h, hidden)
  BY <1>3, <1>4, <1>7 DEF Good, Looks, Seen, Live
<1> QED BY <1>2, <1>5, <1>7, <1>8, <1>9, <1>10 DEF Good, Looks, h

(* The window that had the focus gives it up.                              *)
LEMMA FocusGivenUp ==
  ASSUME NEW g, NEW hidden, NEW dlg, Good(g, hidden, dlg)
  PROVE  LET h == IF Valid(g, g.focused_window)
                    THEN [g EXCEPT !.win[g.focused_window].focused = FALSE] ELSE g
         IN /\ Good(h, hidden, dlg) /\ Same(g, h)
            /\ h.order = g.order /\ h.focused_window = g.focused_window
            /\ h.dragging_window = g.dragging_window /\ h.focus_widget = g.focus_widget
            /\ \A v \in Live(g) : /\ Valid(g, v) => ~h.win[v].focused
                                  /\ h.win[v].minimized = g.win[v].minimized
<1>1. CASE ~Valid(g, g.focused_window)
  BY <1>1 DEF Good, Looks, Focused, Same
<1>2. CASE Valid(g, g.focused_window)
  <2> DEFINE w == g.focused_window
             win == [g.win[w] EXCEPT !.focused = FALSE]
             h == [g EXCEPT !.win[w] = win]
  <2>1. g \in GuiType /\ w \in Live(g) /\ w \in Addr
    BY <1>2, ValidIsLive DEF Good, Links, GuiType, Live
  <2>2. g.win[w] \in Window
    BY <2>1, LiveIsWindow
  <2>3. /\ win \in Window /\ win.focused = FALSE /\ win.id = g.win[w].id
        /\ win.kind = g.win[w].kind /\ win.in_taskbar = g.win[w].in_taskbar
        /\ win.minimized = g.win[w].minimized /\ win.visible = g.win[w].visible
    BY <2>2 DEF Window
  <2>4. WellShaped(win)
    BY <2>1, <2>2 DEF Good, Looks, Shaped, WellShaped, Window
  <2>5. Valid(g, w) => SeenAs(win, w \in hidden)
    BY <2>1, <2>3 DEF Good, Looks, Seen, SeenAs
  <2>6. ~win.minimized
    BY <2>1, <2>3, <1>2 DEF Good, Looks, Focused, Valid
  <2>7. Good(h, hidden, dlg) /\ Same(g, h)
    <3> HIDE DEF win
    <3> QED BY <2>1, <2>3, <2>4, <2>5, <2>6, WindowChanges
  <2>8. /\ h.win = [g.win EXCEPT ![w] = win] /\ h.order = g.order
        /\ h.focused_window = w /\ h.dragging_window = g.dragging_window
        /\ h.focus_widget = g.focus_widget
    BY <2>1 DEF GuiType
  <2>9. \A v \in Live(g) : h.win[v] = IF v = w THEN win ELSE g.win[v]
    BY <2>1, <2>8 DEF GuiType, Live
  <2>10. \A v \in Live(g) : /\ Valid(g, v) => ~h.win[v].focused
                            /\ h.win[v].minimized = g.win[v].minimized
    BY <2>3, <2>9 DEF Good, Looks, Focused
  <2>11. h = [g EXCEPT !.win[g.focused_window].focused = FALSE]
    OBVIOUS
  <2> QED BY <1>2, <2>7, <2>8, <2>10, <2>11
<1> QED BY <1>1, <1>2

(* wm_focus_window on a window that is not minimised.                      *)
LEMMA GoodFocusShown ==
  ASSUME NEW g, NEW hidden, NEW dlg, Good(g, hidden, dlg),
         NEW w \in Live(g), Valid(g, w), ~g.win[w].minimized
  PROVE  LET h == FocusShown(g, w)
         IN /\ Good(h, hidden, dlg) /\ Same(g, h)
            /\ h.dragging_window = g.dragging_window /\ h.focused_window = w
<1> DEFINE b == IF Valid(g, g.focused_window)
                  THEN [g EXCEPT !.win[g.focused_window].focused = FALSE] ELSE g
           win == [b.win[w] EXCEPT !.focused = TRUE]
           h == [b EXCEPT !.win[w].focused = TRUE, !.focused_window = w,
                          !.order = Append(RemoveFirst(b.order, w), w)]
<1>1. /\ Good(b, hidden, dlg) /\ Same(g, b)
      /\ b.dragging_window = g.dragging_window /\ b.focus_widget = g.focus_widget
      /\ \A v \in Live(g) : /\ Valid(g, v) => ~b.win[v].focused
                            /\ b.win[v].minimized = g.win[v].minimized
  BY FocusGivenUp
<1>2. FocusShown(g, w) = h
  BY DEF FocusShown
<1> HIDE DEF b
<1>3. b \in GuiType /\ w \in Addr /\ w \in Live(b) /\ b.win[w] \in Window
  BY <1>1, LiveIsWindow DEF Good, Same, Live
<1>4. /\ win \in Window /\ win.id = b.win[w].id /\ win.kind = b.win[w].kind
      /\ win.in_taskbar = b.win[w].in_taskbar
      /\ win.minimized = b.win[w].minimized /\ win.visible = b.win[w].visible
  BY <1>3 DEF Window
<1>5. LET order == Append(RemoveFirst(b.order, w), w)
      IN order \in Seq(Addr) /\ IsInjective(order) /\ ToSet(order) = ToSet(b.order)
  <2>1. b.order \in Seq(Addr) /\ IsInjective(b.order) /\ w \in ToSet(b.order)
    BY <1>1, <1>3 DEF Good, GuiType, Links, Listed
  <2> DEFINE cut == RemoveFirst(b.order, w)
  <2>2. cut \in Seq(Addr) /\ IsInjective(cut) /\ ToSet(cut) = ToSet(b.order) \ {w}
    BY <2>1, Unlinked
  <2> HIDE DEF cut
  <2>3. /\ Append(cut, w) \in Seq(Addr) /\ IsInjective(Append(cut, w))
        /\ ToSet(Append(cut, w)) = ToSet(cut) \cup {w}
    BY <2>2, <1>3, Linked
  <2> QED BY <2>1, <2>2, <2>3 DEF cut
<1>6. /\ h \in GuiType /\ h.win = [b.win EXCEPT ![w] = win]
      /\ h.order = Append(RemoveFirst(b.order, w), w)
      /\ h.registry = b.registry /\ h.buttons = b.buttons
      /\ h.next_window_id = b.next_window_id /\ h.focused_window = w
      /\ h.dragging_window = b.dragging_window /\ h.focus_widget = b.focus_widget
      /\ h.start_menu = b.start_menu /\ h.date_menu = b.date_menu
  BY <1>3, <1>4, <1>5 DEF GuiType, Pointer
<1> HIDE DEF h
<1>7. \A v \in Addr : h.win[v] = IF v = w THEN win ELSE b.win[v]
  BY <1>3, <1>6 DEF GuiType
<1>8. Live(h) = Live(b)
  BY <1>3, <1>4, <1>7, FreedIsNoWindow DEF Live
<1>9. Same(b, h)
  BY <1>4, <1>6, <1>7, <1>8 DEF Same, Live
<1>10. Listed(h) /\ Pointing(h)
  BY <1>1, <1>3, <1>5, <1>6, <1>8 DEF Good, Links, Listed, Pointing
<1>11. Links(h, dlg) /\ \A v \in Live(b) : Valid(h, v) <=> Valid(b, v)
  BY <1>1, <1>3, <1>6, <1>9, <1>10, SameLinks DEF Good
<1>12. \A v \in Live(b) : Valid(b, v) <=> Valid(g, v)
  BY <1>1 DEF Same, Valid
<1>13. Shaped(h)
  <2>1. WellShaped(win)
    BY <1>1, <1>3 DEF Good, Looks, Shaped, WellShaped, Window
  <2> QED BY <1>1, <1>7, <1>8, <2>1 DEF Good, Looks, Shaped, Live
<1>14. Focused(h)
  <2>1. \A v \in Live(h) : Valid(h, v) /\ h.win[v].focused => v = w
    BY <1>1, <1>7, <1>8, <1>11, <1>12 DEF Live, Same
  <2> QED BY <1>1, <1>3, <1>4, <1>6, <1>7, <2>1 DEF Focused, Same
<1>15. Seen(h, hidden)
  <2>1. Valid(b, w) => SeenAs(win, w \in hidden)
    BY <1>1, <1>3, <1>4 DEF Good, Looks, Seen, SeenAs
  <2> QED BY <1>1, <1>7, <1>8, <1>11, <2>1 DEF Good, Looks, Seen, Live
<1>16. Same(g, h)
  BY <1>1, <1>9 DEF Same
<1> QED BY <1>1, <1>2, <1>6, <1>11, <1>13, <1>14, <1>15, <1>16 DEF Good, Looks

(* A pointer other than the focused window moves to a live window, or none. *)
LEMMA PointersMove ==
  ASSUME NEW g, NEW hidden, NEW dlg, Good(g, hidden, dlg), NEW p \in Live(g) \cup {NULL}
  PROVE  /\ Good(SetFocus(g, p), hidden, dlg) /\ Same(g, SetFocus(g, p))
         /\ SetFocus(g, p).dragging_window = g.dragging_window
         /\ Good([g EXCEPT !.dragging_window = p], hidden, dlg)
         /\ Same(g, [g EXCEPT !.dragging_window = p])
         /\ [g EXCEPT !.dragging_window = p].dragging_window = p
<1>1. g \in GuiType /\ p \in Pointer
  BY DEF Good, Live, Pointer
<1>2. ASSUME NEW h \in {SetFocus(g, p), [g EXCEPT !.dragging_window = p]}
      PROVE  Good(h, hidden, dlg) /\ Same(g, h)
  <2>1. /\ h \in GuiType /\ h.win = g.win /\ h.order = g.order
        /\ h.registry = g.registry /\ h.buttons = g.buttons
        /\ h.next_window_id = g.next_window_id /\ h.focused_window = g.focused_window
        /\ h.dragging_window \in {g.dragging_window, p}
        /\ h.focus_widget \in {g.focus_widget, p}
        /\ h.start_menu = g.start_menu /\ h.date_menu = g.date_menu
    BY <1>1 DEF GuiType, SetFocus
  <2> HIDE DEF GuiType
  <2>2. Live(h) = Live(g) /\ Same(g, h)
    BY <2>1 DEF Same, Live
  <2>3. Listed(h) /\ Pointing(h)
    BY <2>1, <2>2 DEF Good, Links, Listed, Pointing
  <2>4. Links(h, dlg) /\ \A v \in Live(g) : Valid(h, v) <=> Valid(g, v)
    BY <1>1, <2>1, <2>2, <2>3, SameLinks DEF Good
  <2>5. Looks(h, hidden)
    BY <2>1, <2>2, <2>4 DEF Good, Looks, Shaped, Focused, Seen
  <2> QED BY <2>1, <2>2, <2>4, <2>5 DEF Good
<1>3. /\ SetFocus(g, p).dragging_window = g.dragging_window
      /\ [g EXCEPT !.dragging_window = p].dragging_window = p
  BY <1>1 DEF GuiType, SetFocus
<1> QED BY <1>2, <1>3

(* What WindowChanges says of the fields that do not belong to windows.    *)
LEMMA OnlyTheWindow ==
  ASSUME NEW g \in GuiType, NEW w \in Addr, NEW win
  PROVE  LET h == [g EXCEPT !.win[w] = win]
         IN /\ h.win[w] = win
            /\ \A v \in Addr : v # w => h.win[v] = g.win[v]
            /\ h.order = g.order
            /\ h.focused_window = g.focused_window
            /\ h.dragging_window = g.dragging_window /\ h.focus_widget = g.focus_widget
BY DEF GuiType

LEMMA GoodRestore ==
  ASSUME NEW g, NEW hidden, NEW dlg, Good(g, hidden, dlg), NEW w \in Pointer
  PROVE  LET h == Restore(g, w)
         IN /\ Good(h, hidden, dlg) /\ Same(g, h) /\ h.dragging_window = g.dragging_window
            /\ Valid(g, w) /\ g.win[w].minimized => h.focused_window = w
<1>1. CASE ~Valid(g, w)
  BY <1>1 DEF Restore, Same
<1>2. ASSUME Valid(g, w)
      PROVE  /\ g \in GuiType /\ w \in Live(g) /\ w \in Addr /\ g.win[w] \in Window
             /\ WellShaped(g.win[w]) /\ SeenAs(g.win[w], w \in hidden)
  BY <1>2, ValidIsLive, LiveIsWindow DEF Good, Links, Looks, Shaped, Seen, Live
<1>3. ASSUME Valid(g, w), NEW win \in Window,
             win.id = g.win[w].id, win.kind = g.win[w].kind,
             win.in_taskbar = g.win[w].in_taskbar, win.focused = g.win[w].focused,
             WellShaped(win), SeenAs(win, w \in hidden), ~win.minimized
      PROVE  LET h == FocusShown([g EXCEPT !.win[w] = win], w)
             IN /\ Good(h, hidden, dlg) /\ Same(g, h)
                /\ h.dragging_window = g.dragging_window /\ h.focused_window = w
  <2> DEFINE m == [g EXCEPT !.win[w] = win]
  <2>1. Good(m, hidden, dlg) /\ Same(g, m)
    BY <1>2, <1>3, WindowChanges
  <2>2. m.win[w] = win /\ m.dragging_window = g.dragging_window
    BY <1>2, <1>3, OnlyTheWindow
  <2> HIDE DEF m
  <2>3. w \in Live(m) /\ Valid(m, w)
    BY <1>2, <1>3, <2>1 DEF Same, Valid
  <2>4. LET h == FocusShown(m, w)
        IN /\ Good(h, hidden, dlg) /\ Same(m, h)
           /\ h.dragging_window = m.dragging_window /\ h.focused_window = w
    BY <1>3, <2>1, <2>2, <2>3, GoodFocusShown
  <2> QED BY <2>1, <2>2, <2>4 DEF Same, m
<1>4. CASE Valid(g, w) /\ g.win[w].minimized
  <2> DEFINE win == [g.win[w] EXCEPT !.visible = TRUE, !.minimized = FALSE,
                        !.geom = g.win[w].orig, !.maximized = FALSE, !.free = TRUE]
  <2>1. (g.win[w].normal = FULL) = FALSE /\ g.win[w].orig # FULL
    BY <1>2, <1>4, GeomAssumption DEF Window
  <2>2. /\ win \in Window /\ win.id = g.win[w].id /\ win.kind = g.win[w].kind
        /\ win.in_taskbar = g.win[w].in_taskbar /\ win.focused = g.win[w].focused
        /\ win.visible = TRUE /\ win.minimized = FALSE /\ win.maximized = FALSE
        /\ win.free = TRUE
        /\ win.geom = g.win[w].orig /\ win.orig = g.win[w].orig
        /\ win.normal = g.win[w].normal /\ win.orig_free = g.win[w].orig_free
        /\ win.resizing = g.win[w].resizing
    BY <1>2, <1>4 DEF Window
  <2>3. WellShaped(win) /\ SeenAs(win, w \in hidden)
    BY <1>2, <1>4, <2>1, <2>2 DEF WellShaped, SeenAs
  <2>4. (~(g.win[w].normal = FULL) /\ g.win[w].orig_free) = TRUE
    BY <1>2, <1>4, <2>1 DEF WellShaped
  <2>5. Restore(g, w) = FocusShown([g EXCEPT !.win[w] = win], w)
    BY <1>4, <2>1, <2>4 DEF Restore
  <2> HIDE DEF win
  <2> QED BY <1>3, <1>4, <2>2, <2>3, <2>5
<1>5. CASE Valid(g, w) /\ ~g.win[w].minimized /\ g.win[w].maximized
  <2> DEFINE win == [g.win[w] EXCEPT !.geom = g.win[w].normal, !.maximized = FALSE,
                                     !.free = g.win[w].orig_free]
  <2>1. /\ win \in Window /\ win.id = g.win[w].id /\ win.kind = g.win[w].kind
        /\ win.in_taskbar = g.win[w].in_taskbar /\ win.focused = g.win[w].focused
        /\ win.visible = g.win[w].visible /\ win.minimized = g.win[w].minimized /\ win.maximized = FALSE
        /\ win.free = g.win[w].orig_free
        /\ win.geom = g.win[w].normal /\ win.orig = g.win[w].orig
        /\ win.normal = g.win[w].normal /\ win.orig_free = g.win[w].orig_free
        /\ win.resizing = g.win[w].resizing
    BY <1>2, <1>5 DEF Window
  <2>2. g.win[w].normal # FULL
    BY <1>2, <1>5, GeomAssumption DEF Window
  <2>3. WellShaped(win)
    <3> HIDE DEF win
    <3> QED BY <1>2, <1>5, <2>1, <2>2 DEF WellShaped
  <2>4. SeenAs(win, w \in hidden)
    <3> HIDE DEF win
    <3> QED BY <1>2, <1>5, <2>1 DEF SeenAs
  <2>5. Restore(g, w) = FocusShown([g EXCEPT !.win[w] = win], w)
    BY <1>5 DEF Restore
  <2> HIDE DEF win
  <2> QED BY <1>3, <1>5, <2>1, <2>3, <2>4, <2>5
<1>6. CASE Valid(g, w) /\ ~g.win[w].minimized /\ ~g.win[w].maximized
  BY <1>6 DEF Restore, Same
<1> QED BY <1>1, <1>4, <1>5, <1>6

LEMMA GoodFocus ==
  ASSUME NEW g, NEW hidden, NEW dlg, Good(g, hidden, dlg), NEW w \in Pointer
  PROVE  LET h == Focus(g, w)
         IN /\ Good(h, hidden, dlg) /\ Same(g, h) /\ h.dragging_window = g.dragging_window
            /\ Valid(g, w) => h.focused_window = w
<1>1. CASE ~Valid(g, w)
  BY <1>1 DEF Focus, Same
<1>2. CASE Valid(g, w) /\ g.win[w].minimized
  BY <1>2, GoodRestore DEF Focus
<1>3. CASE Valid(g, w) /\ ~g.win[w].minimized
  <2>1. w \in Live(g)
    BY <1>3, ValidIsLive DEF Good, Links
  <2> QED BY <1>3, <2>1, GoodFocusShown DEF Focus
<1> QED BY <1>1, <1>2, <1>3

LEMMA GoodMaximize ==
  ASSUME NEW g, NEW hidden, NEW dlg, Good(g, hidden, dlg), NEW w \in Pointer,
         Valid(g, w) => ~g.win[w].minimized
  PROVE  LET h == Maximize(g, w)
         IN /\ Good(h, hidden, dlg) /\ Same(g, h) /\ h.dragging_window = g.dragging_window
<1>1. CASE ~Valid(g, w) \/ g.win[w].maximized \/ g.win[w].kind # "app"
  BY <1>1 DEF Maximize, Same
<1>2. CASE Valid(g, w) /\ ~g.win[w].maximized /\ g.win[w].kind = "app"
  <2> DEFINE win == [g.win[w] EXCEPT !.normal = g.win[w].geom, !.orig_free = g.win[w].free,
                                     !.geom = FULL, !.maximized = TRUE, !.free = FALSE]
  <2>1. /\ g \in GuiType /\ w \in Live(g) /\ w \in Addr /\ g.win[w] \in Window
        /\ WellShaped(g.win[w]) /\ SeenAs(g.win[w], w \in hidden)
    BY <1>2, ValidIsLive, LiveIsWindow DEF Good, Links, Looks, Shaped, Seen, Live
  <2>2. g.win[w].geom \in Geoms /\ g.win[w].free = TRUE
    BY <1>2, <2>1 DEF Window, WellShaped
  <2>3. /\ win \in Window /\ win.id = g.win[w].id /\ win.kind = g.win[w].kind
        /\ win.in_taskbar = g.win[w].in_taskbar /\ win.focused = g.win[w].focused
        /\ win.visible = g.win[w].visible /\ win.minimized = g.win[w].minimized
        /\ win.maximized = TRUE /\ win.free = FALSE /\ win.orig_free = TRUE
        /\ win.geom = FULL /\ win.normal = g.win[w].geom /\ win.orig = g.win[w].orig
        /\ win.resizing = g.win[w].resizing
    BY <2>1, <2>2 DEF Window
  <2>4. Maximize(g, w) = [g EXCEPT !.win[w] = win]
    BY <1>2 DEF Maximize
  <2> HIDE DEF win
  <2>5. WellShaped(win)
    BY <1>2, <2>1, <2>2, <2>3, GeomAssumption DEF WellShaped
  <2>6. SeenAs(win, w \in hidden)
    BY <2>1, <2>3 DEF SeenAs
  <2> QED BY <1>2, <2>1, <2>3, <2>4, <2>5, <2>6, WindowChanges, OnlyTheWindow
<1> QED BY <1>1, <1>2

LEMMA GoodToggle ==
  ASSUME NEW g, NEW hidden, NEW dlg, Good(g, hidden, dlg), NEW w \in Pointer,
         Valid(g, w) => ~g.win[w].minimized
  PROVE  LET h == Toggle(g, w)
         IN /\ Good(h, hidden, dlg) /\ Same(g, h) /\ h.dragging_window = g.dragging_window
BY GoodMaximize, GoodRestore DEF Toggle

LEMMA NoneFocused ==
  ASSUME NEW g, NEW hidden, NEW dlg, Good(g, hidden, dlg),
         \A v \in Live(g) : Valid(g, v) => ~g.win[v].focused
  PROVE  LET h == [g EXCEPT !.focused_window = NULL]
         IN /\ Good(h, hidden, dlg) /\ Same(g, h) /\ h.dragging_window = g.dragging_window
<1> DEFINE h == [g EXCEPT !.focused_window = NULL]
<1>1. g \in GuiType
  BY DEF Good
<1>2. /\ h \in GuiType /\ h.win = g.win /\ h.order = g.order
      /\ h.registry = g.registry /\ h.buttons = g.buttons
      /\ h.next_window_id = g.next_window_id /\ h.focused_window = NULL
      /\ h.dragging_window = g.dragging_window /\ h.focus_widget = g.focus_widget
      /\ h.start_menu = g.start_menu /\ h.date_menu = g.date_menu
  BY <1>1 DEF GuiType, Pointer
<1> HIDE DEF h
<1>3. Live(h) = Live(g) /\ Same(g, h)
  BY <1>2 DEF Same, Live
<1>4. Listed(h) /\ Pointing(h)
  BY <1>2, <1>3 DEF Good, Links, Listed, Pointing
<1>5. Links(h, dlg) /\ \A v \in Live(g) : Valid(h, v) <=> Valid(g, v)
  BY <1>1, <1>2, <1>3, <1>4, SameLinks DEF Good
<1>6. Looks(h, hidden)
  BY <1>2, <1>3, <1>5 DEF Good, Looks, Shaped, Focused, Seen
<1> QED BY <1>2, <1>3, <1>5, <1>6 DEF Good, h

LEMMA GoodMinimize ==
  ASSUME NEW g, NEW dlg, Good(g, {}, dlg), NEW w \in Pointer
  PROVE  LET h == Minimize(g, w)
         IN /\ Good(h, {}, dlg) /\ Same(g, h) /\ h.dragging_window = g.dragging_window
<1> DEFINE win == [g.win[w] EXCEPT
                     !.orig = IF g.win[w].maximized THEN g.win[w].normal ELSE g.win[w].geom,
                     !.visible = FALSE, !.minimized = TRUE]
           blurred == [win EXCEPT !.focused = FALSE]
           hide == [g EXCEPT !.win[w] = win]
           unfocused == [hide EXCEPT !.win[w].focused = FALSE, !.focused_window = NULL]
           other == SelectInSeq(g.order, LAMBDA v : /\ Valid(hide, v) /\ v # w
                                                    /\ ~hide.win[v].minimized)
           passed == IF g.focused_window # w THEN hide
                     ELSE IF other = 0 THEN unfocused
                     ELSE Focus(unfocused, g.order[other])
<1>1. CASE ~Valid(g, w) \/ g.win[w].kind # "app" \/ g.win[w].minimized
  BY <1>1 DEF Minimize, Same
<1>2. CASE Valid(g, w) /\ g.win[w].kind = "app" /\ ~g.win[w].minimized
  <2>1. /\ g \in GuiType /\ w \in Live(g) /\ w \in Addr /\ g.win[w] \in Window
        /\ WellShaped(g.win[w]) /\ SeenAs(g.win[w], w \in {})
    BY <1>2, ValidIsLive, LiveIsWindow DEF Good, Links, Looks, Shaped, Seen, Live
  <2>2. g.win[w].maximized \/ g.win[w].geom \in Geoms
    BY <1>2, <2>1 DEF Window, WellShaped
  <2>3. /\ win \in Window /\ win.id = g.win[w].id /\ win.kind = g.win[w].kind
        /\ win.in_taskbar = g.win[w].in_taskbar /\ win.focused = g.win[w].focused
        /\ win.visible = FALSE /\ win.minimized = TRUE
        /\ win.orig = IF g.win[w].maximized THEN g.win[w].normal ELSE g.win[w].geom
        /\ win.normal = g.win[w].normal /\ win.geom = g.win[w].geom
        /\ win.resizing = g.win[w].resizing /\ win.orig_free = g.win[w].orig_free
    BY <2>1, <2>2 DEF Window
  <2>4. /\ blurred \in Window /\ blurred.id = win.id /\ blurred.kind = win.kind
        /\ blurred.in_taskbar = win.in_taskbar /\ blurred.focused = FALSE
        /\ blurred.visible = FALSE /\ blurred.minimized = TRUE
        /\ blurred.orig = win.orig /\ blurred.normal = win.normal
        /\ blurred.geom = win.geom /\ blurred.resizing = win.resizing
        /\ blurred.orig_free = win.orig_free
    <3> HIDE DEF win
    <3> QED BY <2>3 DEF Window
  <2>5. ASSUME NEW r, r \in {win, blurred} PROVE WellShaped(r) /\ SeenAs(r, w \in {})
    <3> HIDE DEF win, blurred
    <3>1. /\ r.visible = FALSE /\ r.minimized = TRUE /\ r.orig = win.orig
          /\ r.normal = win.normal /\ r.geom = win.geom /\ r.resizing = win.resizing
          /\ r.orig_free = win.orig_free
      BY <2>3, <2>4, <2>5
    <3>2. WellShaped(r)
      BY <1>2, <2>1, <2>3, <3>1, GeomAssumption DEF WellShaped, Window
    <3>3. SeenAs(r, w \in {})
      BY <3>1 DEF SeenAs
    <3> QED BY <3>2, <3>3
  <2>6. CASE g.focused_window # w
    <3>1. Good(hide, {}, dlg) /\ Same(g, hide)
      <4> HIDE DEF win
      <4> QED BY <2>1, <2>3, <2>5, <2>6, WindowChanges
    <3>2. hide.dragging_window = g.dragging_window
      BY <2>1, OnlyTheWindow
    <3>3. Minimize(g, w) = IF g.focus_widget = w THEN SetFocus(hide, NULL) ELSE hide
      BY <1>2, <2>6 DEF Minimize
    <3> HIDE DEF hide
    <3>4. /\ Good(SetFocus(hide, NULL), {}, dlg) /\ Same(hide, SetFocus(hide, NULL))
          /\ SetFocus(hide, NULL).dragging_window = hide.dragging_window
      BY <3>1, PointersMove
    <3> QED BY <3>1, <3>2, <3>3, <3>4, SameTransitive
  <2>7. CASE g.focused_window = w
    <3> DEFINE b == [g EXCEPT !.win[g.focused_window].focused = FALSE]
               n == [b EXCEPT !.focused_window = NULL]
    <3>1. /\ Good(b, {}, dlg) /\ Same(g, b) /\ b.dragging_window = g.dragging_window
          /\ \A v \in Live(g) : Valid(g, v) => ~b.win[v].focused
      BY <1>2, <2>7, FocusGivenUp
    <3>2. Good(n, {}, dlg) /\ Same(b, n) /\ n.dragging_window = b.dragging_window
      <4> HIDE DEF b
      <4>1. \A v \in Live(b) : Valid(b, v) => ~b.win[v].focused
        BY <3>1 DEF Same, Valid
      <4> QED BY <3>1, <4>1, NoneFocused
    <3>3. /\ unfocused = [n EXCEPT !.win[w] = blurred] /\ n.focused_window = NULL
          /\ n.win[w].id = g.win[w].id /\ n.win[w].kind = g.win[w].kind
          /\ n.win[w].in_taskbar = g.win[w].in_taskbar
      <4> HIDE DEF win
      <4> QED BY <2>1, <2>7 DEF GuiType, Window
    <3>4. Good(unfocused, {}, dlg) /\ Same(n, unfocused)
      <4> HIDE DEF n, blurred, unfocused
      <4>1. w \in Live(n) /\ n.focused_window # w
        BY <2>1, <3>1, <3>2, <3>3, AddrAssumption DEF Same
      <4> QED BY <2>3, <2>4, <2>5, <3>2, <3>3, <4>1, WindowChanges
    <3>5. unfocused.dragging_window = g.dragging_window
      BY <2>1, <2>7 DEF GuiType
    <3> HIDE DEF unfocused, hide
    <3>6. Good(passed, {}, dlg) /\ Same(g, passed)
          /\ passed.dragging_window = g.dragging_window
      <4>1. Same(g, unfocused)
        <5> HIDE DEF n, b
        <5> QED BY <3>1, <3>2, <3>4 DEF Same
      <4>2. CASE other = 0
        BY <2>7, <3>4, <3>5, <4>1, <4>2
      <4>3. CASE other # 0
        <5>1. other \in 1..Len(g.order)
          <6> DEFINE I == {i \in 1..Len(g.order) :
                             /\ Valid(hide, g.order[i]) /\ g.order[i] # w
                             /\ ~hide.win[g.order[i]].minimized}
          <6>1. other = IF I # {} THEN Min(I) ELSE 0
            BY DEF SelectInSeq
          <6>2. I \in SUBSET Nat
            OBVIOUS
          <6> QED BY <4>3, <6>1, <6>2, MinIn
        <5>2. g.order[other] \in Pointer
          BY <2>1, <5>1 DEF GuiType, Pointer
        <5> HIDE DEF other
        <5>3. LET h == Focus(unfocused, g.order[other])
              IN /\ Good(h, {}, dlg) /\ Same(unfocused, h)
                 /\ h.dragging_window = unfocused.dragging_window
          BY <3>4, <5>2, GoodFocus
        <5> QED BY <2>7, <3>5, <4>1, <4>3, <5>3 DEF Same
      <4> QED BY <4>2, <4>3
    <3>7. Minimize(g, w) = IF g.focus_widget = w THEN SetFocus(passed, NULL) ELSE passed
      BY <1>2 DEF Minimize, unfocused, hide
    <3> HIDE DEF passed
    <3>8. /\ Good(SetFocus(passed, NULL), {}, dlg) /\ Same(passed, SetFocus(passed, NULL))
          /\ SetFocus(passed, NULL).dragging_window = passed.dragging_window
      BY <3>6, PointersMove
    <3> QED BY <3>6, <3>7, <3>8, SameTransitive
  <2> QED BY <2>6, <2>7
<1> QED BY <1>1, <1>2

-----------------------------------------------------------------------------
(* Moving and resizing                                                     *)

LEMMA GoodSettle ==
  ASSUME NEW g, NEW hidden, NEW dlg, Good(g, hidden, dlg), NEW w \in Live(g),
         ~g.win[w].maximized, NEW r \in Geoms
  PROVE  LET h == Settle(g, w, r)
         IN /\ Good(h, hidden, dlg) /\ Same(g, h) /\ h.dragging_window = g.dragging_window
<1> DEFINE win == [g.win[w] EXCEPT !.geom = r, !.normal = r, !.orig = r]
<1>1. /\ g \in GuiType /\ w \in Addr /\ g.win[w] \in Window /\ WellShaped(g.win[w])
  BY LiveIsWindow DEF Good, Looks, Shaped, Live
<1>2. /\ win \in Window /\ win.id = g.win[w].id /\ win.kind = g.win[w].kind
      /\ win.in_taskbar = g.win[w].in_taskbar /\ win.focused = g.win[w].focused
      /\ win.visible = g.win[w].visible /\ win.minimized = g.win[w].minimized
      /\ win.maximized = g.win[w].maximized /\ win.free = g.win[w].free
      /\ win.orig_free = g.win[w].orig_free
      /\ win.geom = r /\ win.normal = r /\ win.orig = r
  BY <1>1 DEF Window
<1>3. Settle(g, w, r) = [g EXCEPT !.win[w] = win]
  BY DEF Settle
<1> HIDE DEF win
<1>4. WellShaped(win)
  BY <1>1, <1>2, GeomAssumption DEF WellShaped
<1>5. Valid(g, w) => SeenAs(win, w \in hidden)
  BY <1>2 DEF Good, Looks, Seen, SeenAs
<1>6. g.focused_window = w => ~win.minimized
  BY <1>1, <1>2, AddrAssumption DEF Good, Looks, Focused
<1> QED BY <1>1, <1>2, <1>3, <1>4, <1>5, <1>6, WindowChanges, OnlyTheWindow

(* Window w is being resized and has rectangle r.                          *)
Pulled(g, w, r) == [g EXCEPT !.win[w] = [@ EXCEPT !.resizing = TRUE, !.geom = r]]

LEMMA GoodResizing ==
  ASSUME NEW g, NEW hidden, NEW dlg, Good(g, hidden, dlg), NEW w \in Live(g),
         g.win[w].free, ~g.win[w].minimized, NEW r \in Geoms \cup {g.win[w].geom}
  PROVE  LET h == Pulled(g, w, r)
         IN /\ Good(h, hidden, dlg) /\ Same(g, h) /\ h.dragging_window = g.dragging_window
<1> DEFINE win == [g.win[w] EXCEPT !.resizing = TRUE, !.geom = r]
<1>1. /\ g \in GuiType /\ w \in Addr /\ g.win[w] \in Window /\ WellShaped(g.win[w])
  BY LiveIsWindow DEF Good, Looks, Shaped, Live
<1>2. ~g.win[w].maximized /\ r \in Geoms
  BY <1>1 DEF WellShaped, Window
<1>3. /\ win \in Window /\ win.id = g.win[w].id /\ win.kind = g.win[w].kind
      /\ win.in_taskbar = g.win[w].in_taskbar /\ win.focused = g.win[w].focused
      /\ win.visible = g.win[w].visible /\ win.minimized = g.win[w].minimized
      /\ win.maximized = g.win[w].maximized /\ win.free = g.win[w].free
      /\ win.orig_free = g.win[w].orig_free /\ win.geom = r /\ win.resizing = TRUE
  BY <1>1 DEF Window
<1>4. WellShaped(win)
  <2> HIDE DEF win
  <2> QED BY <1>1, <1>2, <1>3, GeomAssumption DEF WellShaped
<1>5. Valid(g, w) => SeenAs(win, w \in hidden)
  <2> HIDE DEF win
  <2> QED BY <1>3 DEF Good, Looks, Seen, SeenAs
<1>6. Pulled(g, w, r) = [g EXCEPT !.win[w] = win]
  BY DEF Pulled
<1> HIDE DEF win
<1> QED BY <1>1, <1>3, <1>4, <1>5, <1>6, WindowChanges, OnlyTheWindow

LEMMA GoodEndResize ==
  ASSUME NEW g, NEW hidden, NEW dlg, Good(g, hidden, dlg), NEW w \in Live(g),
         g.win[w].free, ~g.win[w].minimized
  PROVE  LET h == EndResize(g, w)
         IN /\ Good(h, hidden, dlg) /\ Same(g, h) /\ h.dragging_window = g.dragging_window
<1> DEFINE r == g.win[w].geom
           win == [g.win[w] EXCEPT !.resizing = FALSE, !.geom = r, !.normal = r, !.orig = r]
<1>1. /\ g \in GuiType /\ w \in Addr /\ g.win[w] \in Window /\ WellShaped(g.win[w])
  BY LiveIsWindow DEF Good, Looks, Shaped, Live
<1>2. ~g.win[w].maximized /\ r \in Geoms
  BY <1>1 DEF WellShaped, Window
<1>3. /\ win \in Window /\ win.id = g.win[w].id /\ win.kind = g.win[w].kind
      /\ win.in_taskbar = g.win[w].in_taskbar /\ win.focused = g.win[w].focused
      /\ win.visible = g.win[w].visible /\ win.minimized = g.win[w].minimized
      /\ win.maximized = g.win[w].maximized /\ win.free = g.win[w].free
      /\ win.orig_free = g.win[w].orig_free
      /\ win.geom = r /\ win.normal = r /\ win.orig = r
  BY <1>1, <1>2 DEF Window
<1>4. EndResize(g, w) = [g EXCEPT !.win[w] = win]
  BY <1>1, <1>2 DEF EndResize, Settle, GuiType, Window
<1> HIDE DEF win
<1>5. WellShaped(win)
  BY <1>1, <1>2, <1>3, GeomAssumption DEF WellShaped
<1>6. Valid(g, w) => SeenAs(win, w \in hidden)
  BY <1>3 DEF Good, Looks, Seen, SeenAs
<1> QED BY <1>1, <1>3, <1>4, <1>5, <1>6, WindowChanges, OnlyTheWindow

-----------------------------------------------------------------------------
(* A window goes                                                           *)

(* What wm_destroy_window and its callers leave of w.                      *)
After(g, w) ==
  {Destroy(g, w), [Destroy(g, w) EXCEPT !.start_menu = NULL],
   [Destroy(g, w) EXCEPT !.date_menu = NULL]}

LEMMA GoodDestroy ==
  ASSUME NEW g, NEW hidden, NEW dlg, Good(g, hidden, dlg), NEW w \in Live(g), Valid(g, w),
         NEW h \in After(g, w), w \notin {h.start_menu, h.date_menu, dlg}
  PROVE  /\ Good(h, hidden, dlg) /\ Drags(g, h) /\ Live(h) = Live(g) \ {w}
         /\ h.next_window_id = g.next_window_id
<1> DEFINE slot == g.win[w].id % RegistrySize
           cut == RemoveFirst(g.order, w)
           gone == Destroy(g, w)
<1>1. g \in GuiType /\ w \in Addr /\ g.win[w] \in Window
  BY LiveIsWindow DEF Good, Live
<1>2. slot \in 0..RegistrySize - 1
  <2>1. g.win[w].id \in Nat
    BY <1>1 DEF Window
  <2> QED BY <2>1, SlotOf
<1>3. cut \in Seq(Addr) /\ IsInjective(cut) /\ ToSet(cut) = ToSet(g.order) \ {w}
  <2>1. g.order \in Seq(Addr) /\ IsInjective(g.order)
    BY <1>1 DEF Good, GuiType, Links, Listed
  <2> QED BY <2>1, Unlinked
<1>4. /\ gone \in GuiType
      /\ gone.win = [g.win EXCEPT ![w] = Freed]
      /\ gone.order = cut /\ gone.registry = [g.registry EXCEPT ![slot] = NULL]
      /\ gone.buttons = g.buttons \ {w}
      /\ gone.next_window_id = g.next_window_id
      /\ gone.focused_window = IF g.focused_window = w THEN NULL ELSE g.focused_window
      /\ gone.dragging_window = IF g.dragging_window = w THEN NULL ELSE g.dragging_window
      /\ gone.focus_widget = IF g.focus_widget = w THEN NULL ELSE g.focus_widget
      /\ gone.start_menu = g.start_menu /\ gone.date_menu = g.date_menu
  <2> DEFINE bar == IF g.win[w].in_taskbar THEN RemoveButton(g, w) ELSE g
  <2>1. w \notin g.buttons \/ g.win[w].in_taskbar
    BY DEF Good, Links, Barred
  <2>2. bar = [g EXCEPT !.buttons = @ \ {w}]
    BY <1>1, <2>1 DEF RemoveButton, GuiType
  <2>3. gone = [bar EXCEPT !.focused_window = IF @ = w THEN NULL ELSE @,
                        !.dragging_window = IF @ = w THEN NULL ELSE @,
                        !.focus_widget = IF @ = w THEN NULL ELSE @,
                        !.order = RemoveFirst(@, w),
                        !.registry[slot] = NULL, !.win[w] = Freed]
    BY DEF Destroy
  <2> HIDE DEF bar, slot, gone
  <2>4. /\ bar \in GuiType /\ bar.win = g.win /\ bar.order = g.order
        /\ bar.registry = g.registry /\ bar.buttons = g.buttons \ {w}
        /\ bar.next_window_id = g.next_window_id
        /\ bar.focused_window = g.focused_window /\ bar.dragging_window = g.dragging_window
        /\ bar.focus_widget = g.focus_widget
        /\ bar.start_menu = g.start_menu /\ bar.date_menu = g.date_menu
    BY <1>1, <2>2 DEF GuiType
  <2> HIDE DEF cut
  <2>5. gone = [bar EXCEPT !.focused_window = IF @ = w THEN NULL ELSE @,
                        !.dragging_window = IF @ = w THEN NULL ELSE @,
                        !.focus_widget = IF @ = w THEN NULL ELSE @,
                        !.order = cut,
                        !.registry[slot] = NULL, !.win[w] = Freed]
    BY <2>3, <2>4 DEF cut
  <2>6. /\ gone.win = [g.win EXCEPT ![w] = Freed]
        /\ gone.order = cut /\ gone.registry = [g.registry EXCEPT ![slot] = NULL]
        /\ gone.buttons = g.buttons \ {w}
        /\ gone.next_window_id = g.next_window_id
        /\ gone.focused_window = IF g.focused_window = w THEN NULL ELSE g.focused_window
        /\ gone.dragging_window = IF g.dragging_window = w THEN NULL ELSE g.dragging_window
        /\ gone.focus_widget = IF g.focus_widget = w THEN NULL ELSE g.focus_widget
        /\ gone.start_menu = g.start_menu /\ gone.date_menu = g.date_menu
    BY <2>4, <2>5 DEF GuiType
  <2>7. /\ [g.win EXCEPT ![w] = Freed] \in [Addr -> Window \cup {Freed}]
        /\ [g.registry EXCEPT ![slot] = NULL] \in [0..RegistrySize - 1 -> Pointer]
    BY <1>1 DEF GuiType, Pointer
  <2>8. gone \in GuiType
    <3> DEFINE Unless(p) == IF p = w THEN NULL ELSE p
               focus == Unless(g.focused_window)
               drag == Unless(g.dragging_window)
               widget == Unless(g.focus_widget)
               registry == [g.registry EXCEPT ![slot] = NULL]
               win == [g.win EXCEPT ![w] = Freed]
    <3>1. gone = [bar EXCEPT !.focused_window = focus, !.dragging_window = drag,
                          !.focus_widget = widget, !.order = cut,
                          !.registry = registry, !.win = win]
      BY <2>4, <2>5
    <3>2. focus \in Pointer /\ drag \in Pointer /\ widget \in Pointer
      BY <1>1 DEF GuiType, Pointer
    <3> HIDE DEF Unless, focus, drag, widget, registry, win
    <3>3. /\ win \in [Addr -> Window \cup {Freed}]
          /\ registry \in [0..RegistrySize - 1 -> Pointer]
      BY <2>7 DEF win, registry
    <3> QED BY <1>3, <2>4, <3>1, <3>2, <3>3 DEF GuiType
  <2> QED BY <2>6, <2>8
<1> HIDE DEF gone, cut, slot
<1>5. /\ h \in GuiType
      /\ h.win = [g.win EXCEPT ![w] = Freed]
      /\ h.order = cut /\ h.registry = [g.registry EXCEPT ![slot] = NULL]
      /\ h.buttons = g.buttons \ {w}
      /\ h.next_window_id = g.next_window_id
      /\ h.focused_window = IF g.focused_window = w THEN NULL ELSE g.focused_window
      /\ h.dragging_window = IF g.dragging_window = w THEN NULL ELSE g.dragging_window
      /\ h.focus_widget = IF g.focus_widget = w THEN NULL ELSE g.focus_widget
      /\ h.start_menu \in {g.start_menu, NULL} /\ h.date_menu \in {g.date_menu, NULL}
  <2>1. h \in {gone, [gone EXCEPT !.start_menu = NULL], [gone EXCEPT !.date_menu = NULL]}
    BY DEF gone, After
  <2>2. h \in GuiType
    BY <1>4, <2>1 DEF GuiType, Pointer
  <2> QED BY <1>4, <2>1, <2>2 DEF GuiType
<1>6. /\ \A v \in Addr : h.win[v] = IF v = w THEN Freed ELSE g.win[v]
      /\ \A i \in 0..RegistrySize - 1 : h.registry[i] = IF i = slot THEN NULL ELSE g.registry[i]
  BY <1>1, <1>2, <1>5 DEF GuiType
<1>7. Live(h) = Live(g) \ {w}
  BY <1>6 DEF Live
<1>8. \A v \in Live(h) : v # w /\ h.win[v] = g.win[v]
  BY <1>6, <1>7 DEF Live
<1>9. g.registry[slot] = w /\ w # NULL
  BY DEF Valid, slot
<1>10. ASSUME NEW v \in Live(h) PROVE Valid(h, v) <=> Valid(g, v)
  <2>1. v \in Live(g) /\ v # w /\ h.win[v] = g.win[v]
    BY <1>7, <1>8
  <2>2. g.win[v].id % RegistrySize \in 0..RegistrySize - 1
    BY <2>1, <1>1, LiveIsWindow, SlotOf DEF Window
  <2>3. CASE g.win[v].id % RegistrySize = slot
    BY <1>6, <1>9, <2>1, <2>2, <2>3 DEF Valid
  <2>4. CASE g.win[v].id % RegistrySize # slot
    BY <1>6, <2>1, <2>2, <2>4 DEF Valid
  <2> QED BY <2>3, <2>4
<1>11. Listed(h)
  BY <1>3, <1>5, <1>7 DEF Good, Links, Listed
<1>12. Numbered(h)
  BY <1>5, <1>7, <1>8 DEF Good, Links, Numbered
<1>13. Registered(h)
  <2> SUFFICES ASSUME NEW i \in 0..RegistrySize - 1, h.registry[i] # NULL
               PROVE  /\ h.registry[i] \in Live(h)
                      /\ h.win[h.registry[i]].id % RegistrySize = i
    BY DEF Registered
  <2>1. i # slot /\ h.registry[i] = g.registry[i]
    BY <1>6
  <2>2. /\ g.registry[i] \in Live(g)
        /\ g.win[g.registry[i]].id % RegistrySize = i
    BY <2>1 DEF Good, Links, Registered
  <2>3. g.registry[i] # w
    BY <2>1, <2>2 DEF slot
  <2> QED BY <1>7, <1>8, <2>1, <2>2, <2>3
<1>14. Recent(h)
  BY <1>5, <1>7, <1>8, <1>10 DEF Good, Links, Recent
<1>15. Pointing(h)
  BY <1>5, <1>7 DEF Good, Links, Pointing
<1>16. Menus(h, dlg)
  BY <1>5, <1>7, <1>8 DEF Good, Links, Menus, Named
<1>17. Barred(h)
  BY <1>5, <1>7, <1>8, <1>10 DEF Good, Links, Barred
<1>18. Shaped(h) /\ Seen(h, hidden)
  BY <1>7, <1>8, <1>10 DEF Good, Looks, Shaped, Seen
<1>19. Focused(h)
  <2>1. \A v \in Live(h) : Valid(h, v) /\ h.win[v].focused => h.focused_window = v
    BY <1>5, <1>7, <1>8, <1>10 DEF Good, Looks, Focused
  <2>2. h.focused_window # NULL => ~h.win[h.focused_window].minimized
    <3>1. SUFFICES ASSUME h.focused_window # NULL PROVE ~h.win[h.focused_window].minimized
      OBVIOUS
    <3>2. h.focused_window = g.focused_window /\ h.focused_window \in Live(h)
      BY <1>5, <1>15, <3>1 DEF Pointing
    <3> QED BY <1>8, <3>1, <3>2 DEF Good, Looks, Focused
  <2> QED BY <2>1, <2>2 DEF Focused
<1>20. Drags(g, h)
  BY <1>5 DEF Drags
<1> QED BY <1>5, <1>7, <1>11, <1>12, <1>13, <1>14, <1>15, <1>16, <1>17, <1>18, <1>19, <1>20
        DEF Good, Links, Looks

LEMMA GoodClose ==
  ASSUME NEW g, NEW hidden, NEW dlg, Good(g, hidden, dlg), NEW w \in Pointer
  PROVE  LET h == Close(g, w)
         IN Good(h, hidden, dlg) /\ Drags(g, h) /\ h.next_window_id = g.next_window_id
<1>1. CASE Valid(g, w) /\ g.win[w].kind = "app"
  <2>1. w \in Live(g)
    BY <1>1, ValidIsLive DEF Good, Links
  <2>2. w \notin {g.start_menu, g.date_menu, dlg}
    BY <1>1, <2>1 DEF Good, Links, Menus, Named, Valid
  <2> DEFINE h == Destroy(g, w)
  <2>3. h.start_menu = g.start_menu /\ h.date_menu = g.date_menu
    BY <2>1 DEF Destroy, RemoveButton, Good, GuiType
  <2>4. w \notin {h.start_menu, h.date_menu, dlg}
    BY <2>2, <2>3
  <2>5. h \in After(g, w)
    BY DEF After
  <2> HIDE DEF h
  <2>6. Good(h, hidden, dlg) /\ Drags(g, h) /\ h.next_window_id = g.next_window_id
    BY <1>1, <2>1, <2>4, <2>5, GoodDestroy
  <2> QED BY <1>1, <2>6 DEF Close, h
<1>2. CASE ~(Valid(g, w) /\ g.win[w].kind = "app")
  BY <1>2 DEF Close, Drags
<1> QED BY <1>1, <1>2

-----------------------------------------------------------------------------
(* A window comes                                                          *)

(* Ids that share a slot of the registry are a round of it apart.          *)
LEMMA RoundApart ==
  ASSUME NEW m \in Nat, NEW n \in Nat, m < n, m % RegistrySize = n % RegistrySize
  PROVE  n >= m + RegistrySize
<1> DEFINE p == m \div RegistrySize
           q == n \div RegistrySize
           R == RegistrySize
<1>1. R \in Nat /\ R > 0 /\ p \in Int /\ q \in Int
  BY RegistryAssumption
<1>2. m = R * p + (m % R) /\ n = R * q + (n % R)
  BY RegistryAssumption
<1> HIDE DEF p, q
<1>3. n - m = R * q - R * p
  BY <1>1, <1>2
<1>4. R * q - R * p = R * (q - p)
  BY <1>1
<1>5. q - p >= 1
  <2> SUFFICES ASSUME q - p <= 0 PROVE FALSE
    BY <1>1
  <2>1. R * (q - p) <= 0
    BY <1>1
  <2> QED BY <1>1, <1>3, <1>4, <2>1
<1>6. R * (q - p) >= R
  BY <1>1, <1>5
<1> QED BY <1>1, <1>3, <1>4, <1>6

(* The task bar has a button left when the list has room for a window.     *)
LEMMA ButtonLeft ==
  ASSUME NEW g, NEW dlg, g \in GuiType, Links(g, dlg), Len(g.order) < MaxWindows
  PROVE  Cardinality(g.buttons) < MaxButtons
<1>1. g.order \in [1..Len(g.order) -> Live(g)] /\ Len(g.order) \in Nat
  BY DEF Links, Listed, GuiType, ToSet
<1>2. \A w \in Live(g) : \E i \in 1..Len(g.order) : g.order[i] = w
  BY <1>1 DEF Links, Listed, ToSet
<1>3. g.order \in Surjection(1..Len(g.order), Live(g))
  BY <1>1, <1>2 DEF Surjection
<1>4. IsFiniteSet(1..Len(g.order)) /\ Cardinality(1..Len(g.order)) = Len(g.order)
  <2> DEFINE n == Len(g.order)
  <2>1. n \in Nat
    BY <1>1
  <2> HIDE DEF n
  <2>2. IsFiniteSet(1..n) /\ Cardinality(1..n) = IF 1 > n THEN 0 ELSE n - 1 + 1
    BY <2>1, FS_Interval
  <2>3. Cardinality(1..n) = n
    BY <2>1, <2>2
  <2> QED BY <2>2, <2>3 DEF n
<1>5. IsFiniteSet(Live(g)) /\ Cardinality(Live(g)) <= Len(g.order)
  BY <1>3, <1>4, FS_Surjection
<1>6. g.buttons \subseteq Live(g)
  BY DEF Links, Barred
<1>7. Cardinality(g.buttons) <= Cardinality(Live(g))
  BY <1>5, <1>6, FS_Subset
<1>8. Cardinality(g.buttons) \in Nat /\ Cardinality(Live(g)) \in Nat
  BY <1>5, <1>6, FS_Subset, FS_CardinalityType
<1> QED BY <1>1, <1>5, <1>7, <1>8, ButtonAssumption

(* What a call that may have made window a of this kind has done.          *)
Grown(g, h, a, kind) ==
  /\ h.next_window_id \in {g.next_window_id, g.next_window_id + 1}
  /\ h.dragging_window = g.dragging_window
  /\ h.start_menu = g.start_menu /\ h.date_menu = g.date_menu
  /\ h = g \/ (a \in Live(h) /\ h.win[a].kind = kind)

(* wm_create_window up to its call of wm_focus_window.                     *)
Added(g, a, kind, r) ==
  AddButton([g EXCEPT !.win[a] = NewWindow(g.next_window_id, kind, r),
                      !.next_window_id = g.next_window_id + 1,
                      !.registry[g.next_window_id % RegistrySize] = a,
                      !.order = Append(@, a)], a)

LEMMA GoodAdded ==
  ASSUME NEW g, NEW hidden, NEW dlg, Good(g, hidden, dlg), NEW a \in Addr \ Live(g),
         NEW kind \in Kinds, NEW r \in Geoms, Len(g.order) < MaxWindows
  PROVE  LET id == g.next_window_id
             h == Added(g, a, kind, r)
         IN /\ Good(h, hidden, dlg) /\ h.dragging_window = g.dragging_window
            /\ h.start_menu = g.start_menu /\ h.date_menu = g.date_menu
            /\ h.next_window_id = id + 1 /\ Valid(h, a) /\ h.win[a].kind = kind
<1> DEFINE id == g.next_window_id
           slot == id % RegistrySize
           win == NewWindow(id, kind, r)
           order == Append(g.order, a)
           n == [g EXCEPT !.win[a] = win, !.next_window_id = id + 1,
                          !.registry[slot] = a, !.order = order]
           h == AddButton(n, a)
<1>1. g \in GuiType /\ a \in Addr /\ id \in Nat /\ id >= 1 /\ a # NULL
  BY AddrAssumption DEF Good, GuiType, Links, Numbered
<1>2. slot \in 0..RegistrySize - 1
  BY <1>1, SlotOf
<1>3. order \in Seq(Addr) /\ IsInjective(order) /\ ToSet(order) = Live(g) \cup {a}
  <2>1. /\ g.order \in Seq(Addr) /\ IsInjective(g.order)
        /\ ToSet(g.order) = Live(g) /\ a \notin ToSet(g.order)
    BY <1>1 DEF Good, GuiType, Links, Listed
  <2> QED BY <1>1, <2>1, Linked
<1>4. /\ win \in Window /\ win.id = id /\ win.kind = kind /\ win.in_taskbar = TRUE
      /\ win.focused = FALSE /\ win.visible = TRUE /\ win.minimized = FALSE
      /\ WellShaped(win)
  BY <1>1, GeomAssumption DEF NewWindow, Window, WellShaped
<1>5. /\ n.win = [g.win EXCEPT ![a] = win] /\ n.order = order
      /\ n.registry = [g.registry EXCEPT ![slot] = a] /\ n.buttons = g.buttons
      /\ n.next_window_id = id + 1
      /\ n.focused_window = g.focused_window /\ n.dragging_window = g.dragging_window
      /\ n.focus_widget = g.focus_widget
      /\ n.start_menu = g.start_menu /\ n.date_menu = g.date_menu
  BY <1>1 DEF GuiType
<1>6. n \in GuiType
  <2> DEFINE wins == [g.win EXCEPT ![a] = win]
             registry == [g.registry EXCEPT ![slot] = a]
  <2>1. wins \in [Addr -> Window \cup {Freed}]
    <3> HIDE DEF win
    <3> QED BY <1>1, <1>4 DEF GuiType
  <2>2. registry \in [0..RegistrySize - 1 -> Pointer]
    <3> HIDE DEF slot
    <3> QED BY <1>1, <1>2 DEF GuiType, Pointer
  <2>3. id + 1 \in Nat
    BY <1>1
  <2>4. n = [g EXCEPT !.win = wins, !.next_window_id = id + 1,
                      !.registry = registry, !.order = order]
    OBVIOUS
  <2> HIDE DEF wins, registry, order, n
  <2> QED BY <1>1, <1>3, <2>1, <2>2, <2>3, <2>4 DEF GuiType
<1> HIDE DEF n, win, order, slot
<1>7. /\ \A v \in Addr : n.win[v] = IF v = a THEN win ELSE g.win[v]
      /\ \A i \in 0..RegistrySize - 1 : n.registry[i] = IF i = slot THEN a ELSE g.registry[i]
  BY <1>1, <1>2, <1>5 DEF GuiType
<1>8. Valid(n, a)
  BY <1>1, <1>2, <1>4, <1>7 DEF Valid, slot
<1>9. h = [n EXCEPT !.buttons = @ \cup {a}]
  <2>1. a \notin n.buttons
    BY <1>5 DEF Good, Links, Barred
  <2>2. Cardinality(n.buttons) < MaxButtons
    BY <1>1, <1>5, ButtonLeft DEF Good
  <2> QED BY <1>4, <1>7, <1>8, <2>1, <2>2 DEF AddButton
<1>10. /\ h \in GuiType /\ h.win = n.win /\ h.order = order
       /\ h.registry = n.registry /\ h.buttons = g.buttons \cup {a}
       /\ h.next_window_id = id + 1
       /\ h.focused_window = g.focused_window /\ h.dragging_window = g.dragging_window
       /\ h.focus_widget = g.focus_widget
       /\ h.start_menu = g.start_menu /\ h.date_menu = g.date_menu
  <2>1. n.buttons \cup {a} \in SUBSET Addr
    BY <1>1, <1>6 DEF GuiType
  <2> HIDE DEF h
  <2>2. h \in GuiType
    BY <1>6, <1>9, <2>1 DEF GuiType
  <2> QED BY <1>5, <1>6, <1>9, <2>2 DEF GuiType
<1> HIDE DEF h
<1>11. Live(h) = Live(g) \cup {a}
  BY <1>1, <1>4, <1>7, <1>10, FreedIsNoWindow DEF Live
<1>12. h.win[a] = win /\ \A v \in Live(g) : v # a /\ h.win[v] = g.win[v]
  BY <1>1, <1>7, <1>10 DEF Live
<1>13. Valid(h, a)
  BY <1>8, <1>10 DEF Valid
<1>14. ASSUME NEW v \in Live(g)
       PROVE  /\ g.win[v].id \in Nat /\ g.win[v].id < id
              /\ g.win[v].id % RegistrySize \in 0..RegistrySize - 1
              /\ IF g.win[v].id % RegistrySize = slot THEN ~Valid(h, v)
                 ELSE Valid(h, v) <=> Valid(g, v)
  <2>1. g.win[v].id \in 1..id - 1
    BY DEF Good, Links, Numbered
  <2>2. g.win[v].id \in Nat /\ g.win[v].id < id
    BY <1>1, <2>1
  <2>3. g.win[v].id % RegistrySize \in 0..RegistrySize - 1
    BY <2>2, SlotOf
  <2> QED BY <1>7, <1>10, <1>12, <2>2, <2>3 DEF Valid
<1>15. Listed(h)
  BY <1>3, <1>10, <1>11 DEF Listed
<1>16. Numbered(h)
  <2>1. \A v \in Live(g) : g.win[v].id \in 1..id - 1
    BY DEF Good, Links, Numbered
  <2>2. h.next_window_id >= 1 /\ h.next_window_id - 1 = id
    BY <1>1, <1>10
  <2>3. \A v \in Live(h) : h.win[v].id \in 1..id
    <3> QED BY <1>1, <1>4, <1>11, <1>12, <2>1
  <2> QED BY <2>2, <2>3 DEF Numbered
<1>17. Registered(h)
  <2> SUFFICES ASSUME NEW i \in 0..RegistrySize - 1, h.registry[i] # NULL
               PROVE  /\ h.registry[i] \in Live(h)
                      /\ h.win[h.registry[i]].id % RegistrySize = i
    BY DEF Registered
  <2>1. CASE i = slot
    BY <1>4, <1>7, <1>10, <1>11, <1>12, <2>1 DEF slot
  <2>2. CASE i # slot
    <3>1. /\ h.registry[i] = g.registry[i] /\ g.registry[i] \in Live(g)
          /\ g.win[g.registry[i]].id % RegistrySize = i
      BY <1>7, <1>10, <2>2 DEF Good, Links, Registered
    <3> QED BY <1>11, <1>12, <3>1
  <2> QED BY <2>1, <2>2
<1>18. Recent(h)
  <2>1. ASSUME NEW v \in Live(g)
        PROVE  Valid(h, v) \/ id + 1 > g.win[v].id + RegistrySize
    <3>1. CASE g.win[v].id % RegistrySize = slot
      <4>1. id >= g.win[v].id + RegistrySize
        BY <1>1, <1>14, <3>1, RoundApart DEF slot
      <4> QED BY <1>1, <1>14, <4>1, RegistryAssumption
    <3>2. CASE g.win[v].id % RegistrySize # slot
      <4>1. Valid(h, v) <=> Valid(g, v)
        BY <1>14, <3>2
      <4>2. Valid(g, v) \/ id > g.win[v].id + RegistrySize
        BY DEF Good, Links, Recent
      <4> QED BY <1>1, <1>14, <4>1, <4>2, RegistryAssumption
    <3> QED BY <3>1, <3>2
  <2> QED BY <1>10, <1>11, <1>12, <1>13, <2>1 DEF Recent
<1>19. Pointing(h)
  BY <1>10, <1>11 DEF Good, Links, Pointing
<1>20. Menus(h, dlg)
  BY <1>10, <1>11, <1>12 DEF Good, Links, Menus, Named
<1>21. Barred(h)
  BY <1>4, <1>10, <1>11, <1>12, <1>14 DEF Good, Links, Barred
<1>22. Shaped(h)
  BY <1>4, <1>11, <1>12 DEF Good, Looks, Shaped
<1>23. Focused(h)
  <2>1. h.focused_window # NULL => h.focused_window \in Live(g)
    BY <1>10 DEF Good, Links, Pointing
  <2> QED BY <1>4, <1>10, <1>11, <1>12, <1>14, <2>1 DEF Good, Looks, Focused
<1>24. Seen(h, hidden)
  <2>1. SeenAs(win, a \in hidden)
    BY <1>4 DEF SeenAs
  <2> QED BY <1>11, <1>12, <1>14, <2>1 DEF Good, Looks, Seen
<1>25. h.win[a].kind = kind
  BY <1>4, <1>12
<1> QED BY <1>10, <1>13, <1>15, <1>16, <1>17, <1>18, <1>19, <1>20, <1>21, <1>22, <1>23, <1>24, <1>25
        DEF Good, Links, Looks, h, n, win, slot, order, Added

LEMMA GoodCreate ==
  ASSUME NEW g, NEW hidden, NEW dlg, Good(g, hidden, dlg), NEW a \in Addr \ Live(g),
         NEW kind \in Kinds, NEW r \in Geoms
  PROVE  LET h == Create(g, a, kind, r)
         IN /\ Good(h, hidden, dlg) /\ Grown(g, h, a, kind)
            /\ h = g \/ Valid(h, a)
<1>1. CASE Len(g.order) >= MaxWindows
  BY <1>1 DEF Create, Grown
<1>2. CASE Len(g.order) < MaxWindows
  <2> DEFINE id == g.next_window_id
             m == Added(g, a, kind, r)
             h == Focus(m, a)
  <2>1. /\ Good(m, hidden, dlg) /\ m.dragging_window = g.dragging_window
        /\ m.start_menu = g.start_menu /\ m.date_menu = g.date_menu
        /\ m.next_window_id = id + 1 /\ Valid(m, a) /\ m.win[a].kind = kind
    BY <1>2, GoodAdded
  <2>2. Len(g.order) \in Nat
    BY DEF Good, GuiType
  <2>3. Create(g, a, kind, r) = h
    BY <1>2, <2>2, ButtonAssumption DEF Create, Added
  <2> HIDE DEF m
  <2>4. a \in Pointer
    BY DEF Pointer
  <2>5. Good(h, hidden, dlg) /\ Same(m, h) /\ h.dragging_window = m.dragging_window
    BY <2>1, <2>4, GoodFocus
  <2>6. a \in Live(m)
    BY <2>1, <2>4, ValidIsLive DEF Good, Links
  <2> HIDE DEF h
  <2>7. a \in Live(h) /\ h.win[a].kind = kind /\ Valid(h, a)
    BY <2>1, <2>5, <2>6 DEF Same, Valid
  <2>8. Grown(g, h, a, kind)
    BY <2>1, <2>5, <2>7 DEF Grown, Same
  <2> QED BY <2>3, <2>5, <2>7, <2>8
<1>3. Len(g.order) \in Nat
  BY DEF Good, GuiType
<1> QED BY <1>1, <1>2, <1>3, ButtonAssumption

-----------------------------------------------------------------------------
(* The menus and the dialog                                                *)

(* A menu leaves the task bar.                                             *)
LEMMA GoodOffTheBar ==
  ASSUME NEW g, NEW hidden, NEW dlg, Good(g, hidden, dlg), NEW a \in Live(g)
  PROVE  LET h == RemoveButton([g EXCEPT !.win[a].in_taskbar = FALSE], a)
         IN /\ Good(h, hidden, dlg) /\ Live(h) = Live(g)
            /\ h.dragging_window = g.dragging_window
            /\ h.next_window_id = g.next_window_id
            /\ h.start_menu = g.start_menu /\ h.date_menu = g.date_menu
            /\ h.win[a].kind = g.win[a].kind
<1> DEFINE win == [g.win[a] EXCEPT !.in_taskbar = FALSE]
           h == RemoveButton([g EXCEPT !.win[a].in_taskbar = FALSE], a)
<1>1. g \in GuiType /\ a \in Addr /\ g.win[a] \in Window
  BY LiveIsWindow DEF Good, Live
<1>2. /\ win \in Window /\ win.id = g.win[a].id /\ win.kind = g.win[a].kind
      /\ win.in_taskbar = FALSE /\ win.focused = g.win[a].focused
      /\ win.visible = g.win[a].visible /\ win.minimized = g.win[a].minimized
      /\ WellShaped(win) <=> WellShaped(g.win[a])
  BY <1>1 DEF Window, WellShaped
<1>3. h = [g EXCEPT !.win = [g.win EXCEPT ![a] = win], !.buttons = g.buttons \ {a}]
  BY <1>1 DEF RemoveButton, GuiType
<1>4. [g.win EXCEPT ![a] = win] \in [Addr -> Window \cup {Freed}]
  <2> HIDE DEF win
  <2> QED BY <1>1, <1>2 DEF GuiType
<1> HIDE DEF h, win
<1>5. /\ h \in GuiType /\ h.win = [g.win EXCEPT ![a] = win]
      /\ h.order = g.order /\ h.registry = g.registry /\ h.buttons = g.buttons \ {a}
      /\ h.next_window_id = g.next_window_id
      /\ h.focused_window = g.focused_window /\ h.dragging_window = g.dragging_window
      /\ h.focus_widget = g.focus_widget
      /\ h.start_menu = g.start_menu /\ h.date_menu = g.date_menu
  BY <1>1, <1>3, <1>4 DEF GuiType
<1>6. \A v \in Addr : h.win[v] = IF v = a THEN win ELSE g.win[v]
  BY <1>1, <1>5 DEF GuiType
<1>7. Live(h) = Live(g)
  BY <1>1, <1>2, <1>6, FreedIsNoWindow DEF Live
<1>8. \A v \in Live(g) : /\ h.win[v].id = g.win[v].id /\ h.win[v].kind = g.win[v].kind
                         /\ h.win[v].focused = g.win[v].focused
                         /\ h.win[v].minimized = g.win[v].minimized
                         /\ h.win[v].visible = g.win[v].visible
                         /\ v # a => h.win[v].in_taskbar = g.win[v].in_taskbar
                         /\ WellShaped(h.win[v]) <=> WellShaped(g.win[v])
  BY <1>2, <1>6 DEF Live
<1>9. \A v \in Live(g) : Valid(h, v) <=> Valid(g, v)
  BY <1>5, <1>8 DEF Valid
<1>10. Listed(h) /\ Numbered(h) /\ Recent(h) /\ Pointing(h)
  BY <1>5, <1>7, <1>8, <1>9 DEF Good, Links, Listed, Numbered, Recent, Pointing
<1>11. Registered(h)
  BY <1>5, <1>7, <1>8 DEF Good, Links, Registered
<1>12. Menus(h, dlg)
  BY <1>5, <1>7, <1>8 DEF Good, Links, Menus, Named
<1>13. Barred(h)
  <2>1. h.win[a].in_taskbar = FALSE
    BY <1>1, <1>2, <1>6
  <2> QED BY <1>5, <1>7, <1>8, <1>9, <2>1 DEF Good, Links, Barred
<1>14. Shaped(h)
  BY <1>7, <1>8 DEF Good, Looks, Shaped
<1>15. Focused(h)
  <2>1. h.focused_window # NULL => h.focused_window \in Live(g)
    BY <1>5 DEF Good, Links, Pointing
  <2> QED BY <1>5, <1>7, <1>8, <1>9, <2>1 DEF Good, Looks, Focused
<1>16. Seen(h, hidden)
  BY <1>7, <1>8, <1>9 DEF Good, Looks, Seen, SeenAs
<1> QED BY <1>5, <1>7, <1>8, <1>10, <1>11, <1>12, <1>13, <1>14, <1>15, <1>16
        DEF Good, Links, Looks, h

LEMMA GoodCreateMenu ==
  ASSUME NEW g, NEW hidden, NEW dlg, Good(g, hidden, dlg), NEW a \in Addr \ Live(g),
         NEW kind \in Kinds, NEW r \in Geoms
  PROVE  LET h == CreateMenu(g, a, kind, r)
         IN Good(h, hidden, dlg) /\ Grown(g, h, a, kind)
<1> DEFINE m == Create(g, a, kind, r)
           n == RemoveButton([m EXCEPT !.win[a].in_taskbar = FALSE], a)
           h == Focus(n, a)
<1>1. Good(m, hidden, dlg) /\ Grown(g, m, a, kind)
  BY GoodCreate
<1>2. CreateMenu(g, a, kind, r) = IF m = g THEN g ELSE h
  BY DEF CreateMenu
<1> HIDE DEF m
<1>3. CASE m = g
  BY <1>1, <1>2, <1>3
<1>4. CASE m # g
  <2>1. a \in Live(m) /\ m.win[a].kind = kind
    BY <1>1, <1>4 DEF Grown
  <2>2. /\ Good(n, hidden, dlg) /\ Live(n) = Live(m)
        /\ n.dragging_window = m.dragging_window
        /\ n.next_window_id = m.next_window_id
        /\ n.start_menu = m.start_menu /\ n.date_menu = m.date_menu
        /\ n.win[a].kind = m.win[a].kind
    BY <1>1, <2>1, GoodOffTheBar
  <2> HIDE DEF n
  <2>3. a \in Pointer
    BY DEF Pointer
  <2>4. Good(h, hidden, dlg) /\ Same(n, h) /\ h.dragging_window = n.dragging_window
    BY <2>2, <2>3, GoodFocus
  <2> HIDE DEF h
  <2> QED BY <1>1, <1>2, <1>4, <2>1, <2>2, <2>4 DEF Grown, Same
<1> QED BY <1>3, <1>4

(* One of the two menus becomes p.                                         *)
WithMenu(g, p) == {[g EXCEPT !.start_menu = p], [g EXCEPT !.date_menu = p]}

LEMMA MenusChange ==
  ASSUME NEW g, NEW hidden, NEW dlg, Good(g, hidden, dlg), NEW p \in Pointer,
         NEW h \in WithMenu(g, p),
         Named(g, h.start_menu, "menu"), Named(g, h.date_menu, "date")
  PROVE  /\ Good(h, hidden, dlg) /\ Live(h) = Live(g)
         /\ h.dragging_window = g.dragging_window /\ h.next_window_id = g.next_window_id
<1>1. g \in GuiType
  BY DEF Good
<1>2. /\ h \in GuiType /\ h.win = g.win /\ h.order = g.order
      /\ h.registry = g.registry /\ h.buttons = g.buttons
      /\ h.next_window_id = g.next_window_id /\ h.focused_window = g.focused_window
      /\ h.dragging_window = g.dragging_window /\ h.focus_widget = g.focus_widget
  BY <1>1 DEF GuiType, WithMenu
<1>3. Live(h) = Live(g)
  BY <1>2 DEF Live
<1>4. \A v \in Live(g) : Valid(h, v) <=> Valid(g, v)
  BY <1>2 DEF Valid
<1>5. Listed(h) /\ Numbered(h) /\ Registered(h) /\ Recent(h) /\ Pointing(h) /\ Barred(h)
  BY <1>2, <1>3, <1>4
     DEF Good, Links, Listed, Numbered, Registered, Recent, Pointing, Barred
<1>6. Menus(h, dlg)
  BY <1>2, <1>3 DEF Good, Links, Menus, Named
<1>7. Looks(h, hidden)
  BY <1>2, <1>3, <1>4 DEF Good, Looks, Shaped, Focused, Seen
<1> QED BY <1>2, <1>3, <1>5, <1>6, <1>7 DEF Good, Links

LEMMA MenuForgotten ==
  ASSUME NEW g, NEW hidden, NEW dlg, Good(g, hidden, dlg),
         NEW h \in WithMenu(g, NULL)
  PROVE  /\ Good(h, hidden, dlg) /\ Live(h) = Live(g)
         /\ h.dragging_window = g.dragging_window /\ h.next_window_id = g.next_window_id
<1>1. h.start_menu \in {g.start_menu, NULL} /\ h.date_menu \in {g.date_menu, NULL}
  BY DEF Good, GuiType, WithMenu
<1>2. Named(g, h.start_menu, "menu") /\ Named(g, h.date_menu, "date")
  BY <1>1 DEF Good, Links, Menus, Named
<1>3. NULL \in Pointer
  BY DEF Pointer
<1> QED BY <1>2, <1>3, MenusChange

LEMMA GoodStartMenuClose ==
  ASSUME NEW g, NEW hidden, NEW dlg, Good(g, hidden, dlg)
  PROVE  LET h == StartMenuClose(g)
         IN /\ Good(h, hidden, dlg) /\ Drags(g, h) /\ h.next_window_id = g.next_window_id
            /\ Live(h) = IF Valid(g, g.start_menu) THEN Live(g) \ {g.start_menu} ELSE Live(g)
<1> DEFINE w == g.start_menu
           h == StartMenuClose(g)
<1>1. g \in GuiType
  BY DEF Good
<1>2. CASE ~Valid(g, w)
  BY <1>2, MenuForgotten DEF StartMenuClose, Drags, WithMenu
<1>3. CASE Valid(g, w)
  <2>1. w \in Live(g) /\ g.win[w].kind = "menu"
    BY <1>1, <1>3, ValidIsLive DEF Good, Links, Menus, Named, GuiType, Valid
  <2>2. h \in After(g, w)
    BY <1>3 DEF StartMenuClose, After
  <2>3. h.start_menu = NULL /\ h.date_menu = g.date_menu
    BY <1>1, <1>3 DEF StartMenuClose, Destroy, RemoveButton, GuiType
  <2>4. w \notin {h.start_menu, h.date_menu, dlg}
    BY <1>3, <2>1, <2>3 DEF Good, Links, Menus, Named, Valid
  <2> HIDE DEF h
  <2>5. /\ Good(h, hidden, dlg) /\ Drags(g, h) /\ Live(h) = Live(g) \ {w}
        /\ h.next_window_id = g.next_window_id
    BY <1>3, <2>1, <2>2, <2>4, GoodDestroy
  <2> QED BY <1>3, <2>5 DEF h
<1> QED BY <1>2, <1>3

LEMMA GoodStartMenuToggle ==
  ASSUME NEW g, NEW hidden, NEW dlg, Good(g, hidden, dlg), NEW a \in Addr \ Live(g),
         NEW r \in Geoms
  PROVE  LET h == StartMenuToggle(g, a, r)
         IN /\ Good(h, hidden, dlg) /\ Drags(g, h)
            /\ h.next_window_id \in {g.next_window_id, g.next_window_id + 1}
<1> DEFINE made == CreateMenu(g, a, "menu", r)
           p == Created(g, made, a)
           h == [made EXCEPT !.start_menu = p]
<1>1. CASE g.start_menu # NULL
  BY <1>1, GoodStartMenuClose DEF StartMenuToggle
<1>2. CASE g.start_menu = NULL
  <2>1. Good(made, hidden, dlg) /\ Grown(g, made, a, "menu")
    BY GoodCreateMenu DEF Kinds
  <2>2. StartMenuToggle(g, a, r) = h
    BY <1>2 DEF StartMenuToggle
  <2> HIDE DEF made
  <2>3. p \in Pointer /\ Named(made, p, "menu")
    BY <2>1 DEF Created, Pointer, Named, Grown
  <2>4. Named(made, made.date_menu, "date") /\ made \in GuiType
    BY <2>1 DEF Good, Links, Menus
  <2>5. h.start_menu = p /\ h.date_menu = made.date_menu
    BY <2>4 DEF GuiType
  <2>6. /\ Good(h, hidden, dlg) /\ h.dragging_window = made.dragging_window
        /\ h.next_window_id = made.next_window_id
    BY <2>1, <2>3, <2>4, <2>5, MenusChange DEF WithMenu
  <2> QED BY <2>1, <2>2, <2>6 DEF Grown, Drags
<1> QED BY <1>1, <1>2

LEMMA GoodDateMenuToggle ==
  ASSUME NEW g, NEW hidden, NEW dlg, Good(g, hidden, dlg), NEW a \in Addr \ Live(g),
         NEW r \in Geoms
  PROVE  LET h == DateMenuToggle(g, a, r)
         IN /\ Good(h, hidden, dlg) /\ Drags(g, h)
            /\ h.next_window_id \in {g.next_window_id, g.next_window_id + 1}
<1> DEFINE w == g.date_menu
           made == CreateMenu(g, a, "date", r)
           p == Created(g, made, a)
<1>1. g \in GuiType
  BY DEF Good
<1>2. CASE w # NULL /\ ~Valid(g, w)
  BY <1>2, MenuForgotten DEF DateMenuToggle, Drags, WithMenu
<1>3. CASE w # NULL /\ Valid(g, w)
  <2> DEFINE h == [Destroy(g, w) EXCEPT !.date_menu = NULL]
  <2>1. w \in Live(g) /\ g.win[w].kind = "date"
    BY <1>3 DEF Good, Links, Menus, Named
  <2>2. h \in After(g, w)
    BY DEF After
  <2>3. h.date_menu = NULL /\ h.start_menu = g.start_menu
    BY <1>1 DEF Destroy, RemoveButton, GuiType
  <2>4. w \notin {h.start_menu, h.date_menu, dlg}
    BY <1>3, <2>1, <2>3 DEF Good, Links, Menus, Named
  <2>5. DateMenuToggle(g, a, r) = h
    BY <1>3 DEF DateMenuToggle
  <2> HIDE DEF h
  <2> QED BY <1>3, <2>1, <2>2, <2>4, <2>5, GoodDestroy
<1>4. CASE w = NULL
  <2> DEFINE h == [made EXCEPT !.date_menu = p]
  <2>1. Good(made, hidden, dlg) /\ Grown(g, made, a, "date")
    BY GoodCreateMenu DEF Kinds
  <2>2. DateMenuToggle(g, a, r) = h
    BY <1>4 DEF DateMenuToggle
  <2> HIDE DEF made
  <2>3. p \in Pointer /\ Named(made, p, "date")
    BY <2>1 DEF Created, Pointer, Named, Grown
  <2>4. Named(made, made.start_menu, "menu") /\ made \in GuiType
    BY <2>1 DEF Good, Links, Menus
  <2>5. h.date_menu = p /\ h.start_menu = made.start_menu
    BY <2>4 DEF GuiType
  <2>6. /\ Good(h, hidden, dlg) /\ h.dragging_window = made.dragging_window
        /\ h.next_window_id = made.next_window_id
    BY <2>1, <2>3, <2>4, <2>5, MenusChange DEF WithMenu
  <2> QED BY <2>1, <2>2, <2>6 DEF Grown, Drags
<1> QED BY <1>2, <1>3, <1>4

(* hide_all_windows and restore_all_windows change what is seen.           *)
LEMMA GoodShow ==
  ASSUME NEW g, NEW hidden, NEW dlg, Good(g, hidden, dlg), NEW ws, NEW b \in BOOLEAN,
         NEW now, Seen(Show(g, ws, b), now)
  PROVE  LET h == Show(g, ws, b)
         IN Good(h, now, dlg) /\ Same(g, h) /\ h.dragging_window = g.dragging_window
<1> DEFINE h == Show(g, ws, b)
           win == [v \in Addr |-> IF v \in ws /\ Valid(g, v)
                                    THEN [g.win[v] EXCEPT !.visible = b] ELSE g.win[v]]
<1>1. g \in GuiType /\ \A v \in Addr : v \in Live(g) <=> g.win[v] \in Window
  BY LiveIsWindow DEF Good
<1>2. ASSUME NEW v \in Addr, Valid(g, v) PROVE v \in Live(g)
  BY <1>1, <1>2, ValidIsLive DEF Good, Links, Pointer
<1>3. win \in [Addr -> Window \cup {Freed}]
  <2> SUFFICES ASSUME NEW v \in Addr PROVE win[v] \in Window \cup {Freed}
    OBVIOUS
  <2>1. CASE v \in ws /\ Valid(g, v)
    <3>1. g.win[v] \in Window
      BY <1>1, <1>2, <2>1
    <3>2. [g.win[v] EXCEPT !.visible = b] \in Window
      BY <3>1 DEF Window
    <3> QED BY <2>1, <3>2
  <2>2. CASE ~(v \in ws /\ Valid(g, v))
    BY <1>1, <2>2 DEF GuiType
  <2> QED BY <2>1, <2>2
<1>4. h = [g EXCEPT !.win = win]
  BY DEF Show
<1> HIDE DEF h, win
<1>5. /\ h \in GuiType /\ h.win = win /\ h.order = g.order
      /\ h.registry = g.registry /\ h.buttons = g.buttons
      /\ h.next_window_id = g.next_window_id /\ h.focused_window = g.focused_window
      /\ h.dragging_window = g.dragging_window /\ h.focus_widget = g.focus_widget
      /\ h.start_menu = g.start_menu /\ h.date_menu = g.date_menu
  BY <1>1, <1>3, <1>4 DEF GuiType
<1>6. ASSUME NEW v \in Live(g)
      PROVE  /\ h.win[v] \in Window
             /\ h.win[v].id = g.win[v].id /\ h.win[v].kind = g.win[v].kind
             /\ h.win[v].in_taskbar = g.win[v].in_taskbar
             /\ h.win[v].focused = g.win[v].focused
             /\ h.win[v].minimized = g.win[v].minimized
             /\ WellShaped(h.win[v]) <=> WellShaped(g.win[v])
  <2>1. g.win[v] \in Window /\ v \in Addr
    BY <1>1 DEF Live
  <2>2. h.win[v] \in {g.win[v], [g.win[v] EXCEPT !.visible = b]}
    BY <1>5, <2>1 DEF win
  <2> QED BY <2>1, <2>2 DEF Window, WellShaped
<1>7. \A v \in Addr : v \notin Live(g) => h.win[v] = g.win[v]
  BY <1>2, <1>5 DEF win
<1>8. Live(h) = Live(g)
  BY <1>6, <1>7, FreedIsNoWindow DEF Live
<1>9. Same(g, h)
  BY <1>5, <1>6, <1>8 DEF Same
<1>10. Listed(h) /\ Pointing(h)
  BY <1>5, <1>8 DEF Good, Links, Listed, Pointing
<1>11. Links(h, dlg) /\ \A v \in Live(g) : Valid(h, v) <=> Valid(g, v)
  BY <1>1, <1>5, <1>9, <1>10, SameLinks DEF Good
<1>12. Shaped(h)
  BY <1>6, <1>8 DEF Good, Looks, Shaped
<1>13. Focused(h)
  <2>1. h.focused_window # NULL => h.focused_window \in Live(g)
    BY <1>5 DEF Good, Links, Pointing
  <2> QED BY <1>5, <1>6, <1>8, <1>11, <2>1 DEF Good, Looks, Focused
<1> QED BY <1>5, <1>9, <1>11, <1>12, <1>13 DEF Good, Looks, h

LEMMA ShownWindows ==
  ASSUME NEW g \in GuiType, NEW ws, NEW b \in BOOLEAN, NEW h, h = Show(g, ws, b),
         NEW v \in Live(g)
  PROVE  /\ Valid(h, v) <=> Valid(g, v)
         /\ h.win[v].minimized = g.win[v].minimized
         /\ h.win[v].visible = IF v \in ws /\ Valid(g, v) THEN b ELSE g.win[v].visible
<1> DEFINE win == IF v \in ws /\ Valid(g, v) THEN [g.win[v] EXCEPT !.visible = b] ELSE g.win[v]
<1>1. v \in Addr /\ g.win[v] \in Window
  BY LiveIsWindow
<1>2. h.win[v] = win /\ h.registry = g.registry
  BY <1>1 DEF Show, GuiType
<1>3. /\ win \in Window /\ win.id = g.win[v].id /\ win.minimized = g.win[v].minimized
      /\ win.visible = IF v \in ws /\ Valid(g, v) THEN b ELSE g.win[v].visible
  BY <1>1 DEF Window
<1> HIDE DEF win
<1>4. Valid(h, v) <=> Valid(g, v)
  BY <1>2, <1>3 DEF Valid
<1> QED BY <1>2, <1>3, <1>4

(* hide_all_windows hides all there is to see.                             *)
LEMMA GoodHideAll ==
  ASSUME NEW g, NEW dlg, Good(g, {}, dlg)
  PROVE  LET h == Show(g, Visible(g), FALSE)
         IN /\ Good(h, Visible(g), dlg) /\ Same(g, h)
            /\ h.dragging_window = g.dragging_window
<1> DEFINE h == Show(g, Visible(g), FALSE)
<1>1. g \in GuiType /\ Live(h) = Live(g)
  BY FreedIsNoWindow, LiveIsWindow, ValidIsLive DEF Good, Links, Show, Live, Window, Freed, GuiType
<1>2. Seen(h, Visible(g))
  <2> HIDE DEF h
  <2> SUFFICES ASSUME NEW v \in Live(g), Valid(h, v)
               PROVE  SeenAs(h.win[v], v \in Visible(g))
    BY <1>1 DEF Seen
  <2>1. /\ Valid(g, v) /\ h.win[v].minimized = g.win[v].minimized
        /\ h.win[v].visible = IF v \in Visible(g) THEN FALSE ELSE g.win[v].visible
    <3> DEFINE b == FALSE
    <3>1. h = Show(g, Visible(g), b) /\ b \in BOOLEAN
      BY DEF h
    <3> HIDE DEF b
    <3>2. /\ Valid(h, v) <=> Valid(g, v)
          /\ h.win[v].minimized = g.win[v].minimized
          /\ h.win[v].visible =
               IF v \in Visible(g) /\ Valid(g, v) THEN b ELSE g.win[v].visible
      BY <1>1, <3>1, ShownWindows
    <3> QED BY <3>2 DEF b
  <2>2. SeenAs(g.win[v], FALSE) /\ g.win[v] \in Window
    BY <1>1, <2>1, LiveIsWindow DEF Good, Looks, Seen, SeenAs
  <2>3. v \in Visible(g) <=> g.win[v].visible
    BY <2>1 DEF Visible, Good, Links, Listed
  <2>4. CASE v \in Visible(g)
    BY <2>1, <2>2, <2>3, <2>4 DEF SeenAs, Window
  <2>5. CASE v \notin Visible(g)
    BY <2>1, <2>2, <2>3, <2>5 DEF SeenAs, Window
  <2> QED BY <2>4, <2>5
<1> HIDE DEF h
<1> QED BY <1>2, GoodShow DEF h

(* restore_all_windows shows it again.                                     *)
LEMMA GoodShowAll ==
  ASSUME NEW g, NEW hidden, NEW dlg, Good(g, hidden, dlg)
  PROVE  LET h == Show(g, hidden, TRUE)
         IN Good(h, {}, dlg) /\ Same(g, h) /\ h.dragging_window = g.dragging_window
<1> DEFINE h == Show(g, hidden, TRUE)
<1>1. g \in GuiType /\ Live(h) = Live(g)
  BY FreedIsNoWindow, LiveIsWindow, ValidIsLive DEF Good, Links, Show, Live, Window, Freed, GuiType
<1>2. Seen(h, {})
  <2> HIDE DEF h
  <2> SUFFICES ASSUME NEW v \in Live(g), Valid(h, v) PROVE SeenAs(h.win[v], v \in {})
    BY <1>1 DEF Seen
  <2>1. /\ Valid(g, v) /\ h.win[v].minimized = g.win[v].minimized
        /\ h.win[v].visible = IF v \in hidden THEN TRUE ELSE g.win[v].visible
    <3> DEFINE b == TRUE
    <3>1. h = Show(g, hidden, b) /\ b \in BOOLEAN
      BY DEF h
    <3> HIDE DEF b
    <3>2. /\ Valid(h, v) <=> Valid(g, v)
          /\ h.win[v].minimized = g.win[v].minimized
          /\ h.win[v].visible =
               IF v \in hidden /\ Valid(g, v) THEN b ELSE g.win[v].visible
      BY <1>1, <3>1, ShownWindows
    <3> QED BY <3>2 DEF b
  <2>2. SeenAs(g.win[v], v \in hidden) /\ g.win[v] \in Window
    BY <1>1, <2>1, LiveIsWindow DEF Good, Looks, Seen
  <2>3. CASE v \in hidden
    BY <2>1, <2>2, <2>3 DEF SeenAs, Window
  <2>4. CASE v \notin hidden
    BY <2>1, <2>2, <2>4 DEF SeenAs, Window
  <2> QED BY <2>3, <2>4
<1> HIDE DEF h
<1> QED BY <1>2, GoodShow DEF h

(* The dialog was opened, or could not be and the windows are back.        *)
Opened(g, o, a, opened) ==
  /\ Drags(g, opened.gui)
  /\ opened.gui.next_window_id \in {g.next_window_id, g.next_window_id + 1}
  /\ Visible(g) \subseteq Addr
  /\ \/ /\ Good(opened.gui, {}, NULL)
        /\ opened.off = [o EXCEPT !.dark = 0, !.originals = {}]
     \/ /\ Good(opened.gui, Visible(g), a)
        /\ opened.off = [state |-> "DIALOG", dark |-> 0, dialog |-> a,
                         originals |-> Visible(g)]

LEMMA GoodOpenDialog ==
  ASSUME NEW g, Good(g, {}, NULL), NEW o, NEW a \in Addr, NEW r \in Geoms,
         Valid(g, g.start_menu), a \in Live(g) => a = g.start_menu,
         NEW opened, opened = OpenDialog(g, o, a, r)
  PROVE  Opened(g, o, a, opened)
<1> DEFINE hide == Show(g, Visible(g), FALSE)
           bare == StartMenuClose(hide)
           made == CreateMenu(bare, a, "dialog", r)
           back == Show(bare, Visible(g), TRUE)
<1>1. Good(hide, Visible(g), NULL) /\ Same(g, hide) /\ hide.dragging_window = g.dragging_window
  BY GoodHideAll
<1>2. opened =
        IF made = bare
          THEN [gui |-> back, off |-> [o EXCEPT !.dark = 0, !.originals = {}]]
          ELSE [gui |-> made, off |-> [state |-> "DIALOG", dark |-> 0, dialog |-> a,
                                       originals |-> Visible(g)]]
  BY DEF OpenDialog
<1>3. Visible(g) \subseteq Addr
  BY DEF Visible, Good, Links, Listed, Live
<1> HIDE DEF hide
<1>4. Valid(hide, hide.start_menu) /\ hide.start_menu = g.start_menu
  <2>1. g.start_menu \in Live(g)
    BY DEF Good, Links, Menus, Named, Valid
  <2> QED BY <1>1, <2>1 DEF Same, Valid
<1>5. /\ Good(bare, Visible(g), NULL) /\ Drags(hide, bare)
      /\ bare.next_window_id = hide.next_window_id
      /\ Live(bare) = Live(hide) \ {g.start_menu}
  BY <1>1, <1>4, GoodStartMenuClose
<1> HIDE DEF bare
<1>6. a \in Addr \ Live(bare)
  BY <1>1, <1>5 DEF Same
<1>7. Good(made, Visible(g), NULL) /\ Grown(bare, made, a, "dialog")
  BY <1>5, <1>6, GoodCreateMenu DEF Kinds
<1>8. Good(back, {}, NULL) /\ Same(bare, back) /\ back.dragging_window = bare.dragging_window
  BY <1>5, GoodShowAll
<1> HIDE DEF made, back
<1>9. Drags(g, bare) /\ bare.next_window_id = g.next_window_id
  BY <1>1, <1>5 DEF Drags, Same
<1>10. CASE made = bare
  BY <1>2, <1>3, <1>8, <1>9, <1>10 DEF Drags, Same, Opened
<1>11. CASE made # bare
  <2>1. Good(made, Visible(g), a)
    BY <1>7, <1>11 DEF Good, Links, Menus, Named, Grown
  <2> QED BY <1>2, <1>3, <1>7, <1>9, <1>11, <2>1 DEF Drags, Grown, Opened
<1> QED BY <1>10, <1>11

-----------------------------------------------------------------------------
(* The keys                                                                *)

LEMMA GoodEscape ==
  ASSUME NEW g, NEW hidden, NEW dlg, Good(g, hidden, dlg)
  PROVE  LET h == Escape(g)
         IN Good(h, hidden, dlg) /\ Drags(g, h) /\ h.next_window_id = g.next_window_id
<1>1. g.focused_window \in Pointer
  BY DEF Good, GuiType
<1> QED BY <1>1, GoodClose DEF Escape, Drags

LEMMA GoodToggleMaximized ==
  ASSUME NEW g, NEW hidden, NEW dlg, Good(g, hidden, dlg)
  PROVE  LET h == ToggleMaximized(g)
         IN Good(h, hidden, dlg) /\ Drags(g, h) /\ h.next_window_id = g.next_window_id
<1>1. g.focused_window \in Pointer
  BY DEF Good, GuiType
<1>2. Valid(g, g.focused_window) => ~g.win[g.focused_window].minimized
  BY DEF Good, Looks, Focused, Valid
<1> QED BY <1>1, <1>2, GoodToggle DEF ToggleMaximized, Drags, Same

LEMMA GoodTab ==
  ASSUME NEW g, NEW hidden, NEW dlg, Good(g, hidden, dlg), NEW h \in {FocusNext(g), FocusPrev(g)}
  PROVE  Good(h, hidden, dlg) /\ Drags(g, h) /\ h.next_window_id = g.next_window_id
<1> DEFINE chain == FocusChain(g)
<1>1. g.order \in Seq(Addr) /\ ToSet(g.order) = Live(g)
  BY DEF Good, GuiType, Links, Listed
<1>2. chain \in SUBSET (1..Len(g.order))
  BY <1>1 DEF FocusChain
<1>3. ASSUME NEW i \in chain
      PROVE  LET k == SetFocus(g, g.order[i])
             IN Good(k, hidden, dlg) /\ Drags(g, k) /\ k.next_window_id = g.next_window_id
  <2>1. g.order[i] \in Live(g)
    BY <1>1, <1>2 DEF ToSet
  <2>2. /\ Good(SetFocus(g, g.order[i]), hidden, dlg) /\ Same(g, SetFocus(g, g.order[i]))
        /\ SetFocus(g, g.order[i]).dragging_window = g.dragging_window
    BY <2>1, PointersMove
  <2> QED BY <2>2 DEF Drags, Same
<1>4. ASSUME NEW T \in SUBSET chain, T # {} PROVE Min(T) \in chain /\ Max(T) \in chain
  <2>1. Len(g.order) \in Nat
    BY <1>1
  <2>2. T \in SUBSET Nat /\ T \in SUBSET (1..Len(g.order))
    BY <1>2, <2>1
  <2> HIDE DEF chain
  <2> QED BY <1>4, <2>1, <2>2, MinIn, MaxIn
<1> DEFINE after == {i \in chain : i > CurrentPlace(g)}
           before == {i \in chain : i < CurrentPlace(g)}
           next == Min(IF after = {} THEN chain ELSE after)
           prev == Max(IF before = {} THEN chain ELSE before)
<1>5. chain # {} => next \in chain /\ prev \in chain
  <2>1. after \in SUBSET chain /\ before \in SUBSET chain /\ chain \in SUBSET chain
    OBVIOUS
  <2> HIDE DEF chain, after, before
  <2> QED BY <1>4, <2>1
<1>6. /\ FocusNext(g) = IF chain = {} THEN g ELSE SetFocus(g, g.order[next])
      /\ FocusPrev(g) = IF chain = {} THEN g ELSE SetFocus(g, g.order[prev])
  BY DEF FocusNext, FocusPrev
<1> HIDE DEF chain, next, prev
<1>7. CASE chain = {}
  BY <1>6, <1>7 DEF Drags
<1>8. CASE chain # {}
  BY <1>3, <1>5, <1>6, <1>8
<1> QED BY <1>7, <1>8

-----------------------------------------------------------------------------
(* The steps                                                               *)

OffInv(o) ==
  /\ o \in [state : States, dark : 0..2 * Dark, dialog : Pointer, originals : SUBSET Addr]
  /\ o.state = "IDLE" => o.originals = {}
  /\ o.state # "DIALOG" => o.dialog = NULL
  /\ o.state \in {"DIALOG", "CANCELING"} => o.dark <= Dark
  /\ o.state = "CONFIRMING" => o.dark < 2 * Dark

IInv ==
  /\ Good(gui, off.originals, off.dialog)
  /\ gui.next_window_id <= MaxId + 1
  /\ OffInv(off)
  /\ held \in BOOLEAN
  /\ gui.dragging_window # NULL => held /\ Idle

(* The step of an operation that leaves the dialog as it is.               *)
LEMMA QuietStep ==
  ASSUME IInv, off' = off, Good(gui', off.originals, off.dialog), Drags(gui, gui'),
         gui'.next_window_id <= MaxId + 1, held' \in BOOLEAN, held => held'
  PROVE  IInv'
BY DEF IInv, OffInv, Drags, Idle

LEMMA FreeIsNotLive == Free = Addr \ Live(gui)
BY DEF Free, Live

LEMMA MayCreateBound ==
  ASSUME IInv, MayCreate, NEW n \in {gui.next_window_id, gui.next_window_id + 1}
  PROVE  n <= MaxId + 1
<1>1. gui.next_window_id \in Nat
  BY DEF IInv, Good, GuiType
<1> QED BY <1>1, BoundAssumption DEF MayCreate

LEMMA CreateWindowStep == IInv /\ CreateWindow => IInv'
<1> SUFFICES ASSUME IInv, CreateWindow PROVE IInv'
  OBVIOUS
<1>1. PICK a \in Free, r \in Geoms : gui' = Create(gui, a, "app", r)
  BY DEF CreateWindow
<1>2. /\ Good(gui', off.originals, off.dialog)
      /\ Grown(gui, gui', a, "app")
  BY <1>1, FreeIsNotLive, GoodCreate DEF IInv, Kinds
<1>3. gui'.next_window_id <= MaxId + 1
  BY <1>2, MayCreateBound DEF Grown, CreateWindow
<1> QED BY <1>2, <1>3, QuietStep DEF Grown, Drags, CreateWindow, IInv

LEMMA KeyStep == IInv /\ (KeyEscape \/ KeyF11 \/ KeyTab) => IInv'
<1> SUFFICES ASSUME IInv, KeyEscape \/ KeyF11 \/ KeyTab PROVE IInv'
  OBVIOUS
<1> DEFINE Fine(g) == /\ Good(g, off.originals, off.dialog) /\ Drags(gui, g)
                      /\ g.next_window_id = gui.next_window_id
<1>1. Fine(gui)
  BY DEF IInv, Drags
<1>2. ASSUME NEW g, Fine(g)
      PROVE  /\ Fine(Escape(g)) /\ Fine(ToggleMaximized(g))
             /\ Fine(FocusNext(g)) /\ Fine(FocusPrev(g))
  <2>1. ASSUME NEW h \in {Escape(g), ToggleMaximized(g), FocusNext(g), FocusPrev(g)}
        PROVE  /\ Good(h, off.originals, off.dialog) /\ Drags(g, h)
               /\ h.next_window_id = g.next_window_id
    BY <1>2, GoodEscape, GoodToggleMaximized, GoodTab
  <2> QED BY <1>2, <2>1 DEF Drags
<1> HIDE DEF Fine
<1>3. Fine(gui')
  <2>1. CASE KeyEscape
    BY <1>1, <1>2, <2>1 DEF KeyEscape, Handlers
  <2>2. CASE KeyF11
    BY <1>1, <1>2, <2>2 DEF KeyF11, Handlers
  <2>3. CASE KeyTab
    BY <1>1, <1>2, <2>3 DEF KeyTab, Handlers
  <2> QED BY <2>1, <2>2, <2>3
<1>4. off' = off /\ held' = held
  BY DEF KeyEscape, KeyF11, KeyTab
<1> QED BY <1>3, <1>4, QuietStep DEF Fine, IInv

LEMMA MenuStep == IInv /\ (KeyWin \/ PressStartButton \/ PressClock) => IInv'
<1> SUFFICES ASSUME IInv, KeyWin \/ PressStartButton \/ PressClock PROVE IInv'
  OBVIOUS
<1>1. PICK a \in Free, r \in Geoms :
        gui' \in {StartMenuToggle(gui, a, r), DateMenuToggle(gui, a, r)}
  BY DEF KeyWin, PressStartButton, PressClock
<1>2. /\ Good(gui', off.originals, off.dialog) /\ Drags(gui, gui')
      /\ gui'.next_window_id \in {gui.next_window_id, gui.next_window_id + 1}
  BY <1>1, FreeIsNotLive, GoodStartMenuToggle, GoodDateMenuToggle DEF IInv
<1>3. MayCreate /\ off' = off /\ held' \in BOOLEAN /\ (held => held')
  BY DEF KeyWin, PressStartButton, PressClock, Press, IInv
<1>4. gui'.next_window_id <= MaxId + 1
  BY <1>2, <1>3, MayCreateBound
<1> QED BY <1>2, <1>3, <1>4, QuietStep

LEMMA PressCapturedStep == IInv /\ PressCaptured => IInv'
<1> SUFFICES ASSUME IInv, PressCaptured PROVE IInv'
  OBVIOUS
<1>1. gui' \in {gui, [gui EXCEPT !.dragging_window = NULL]}
  BY DEF PressCaptured
<1>2. /\ Good(gui', off.originals, off.dialog) /\ Drags(gui, gui')
      /\ gui'.next_window_id = gui.next_window_id
  <2>1. CASE gui' = gui
    BY <2>1 DEF IInv, Drags
  <2>2. CASE gui' = [gui EXCEPT !.dragging_window = NULL]
    <3> DEFINE h == [gui EXCEPT !.dragging_window = NULL]
    <3>1. /\ Good(h, off.originals, off.dialog) /\ Same(gui, h)
          /\ h.dragging_window = NULL
      BY PointersMove DEF IInv
    <3> HIDE DEF h
    <3> QED BY <2>2, <3>1 DEF Drags, Same, h
  <2> QED BY <1>1, <2>1, <2>2
<1> QED BY <1>2, QuietStep DEF PressCaptured, Press, IInv

(* A button whose window is no longer valid is dropped.                    *)
LEMMA GoodDropButton ==
  ASSUME NEW g, NEW hidden, NEW dlg, Good(g, hidden, dlg), NEW w, ~Valid(g, w)
  PROVE  LET h == RemoveButton(g, w)
         IN /\ Good(h, hidden, dlg) /\ h.dragging_window = g.dragging_window
            /\ h.next_window_id = g.next_window_id
<1> DEFINE h == RemoveButton(g, w)
<1>1. g \in GuiType
  BY DEF Good
<1>2. /\ h \in GuiType /\ h.win = g.win /\ h.order = g.order
      /\ h.registry = g.registry /\ h.buttons = g.buttons \ {w}
      /\ h.next_window_id = g.next_window_id /\ h.focused_window = g.focused_window
      /\ h.dragging_window = g.dragging_window /\ h.focus_widget = g.focus_widget
      /\ h.start_menu = g.start_menu /\ h.date_menu = g.date_menu
  BY <1>1 DEF GuiType, RemoveButton
<1> HIDE DEF h
<1>3. Live(h) = Live(g)
  BY <1>2 DEF Live
<1>4. \A v \in Live(g) : Valid(h, v) <=> Valid(g, v)
  BY <1>2 DEF Valid
<1>5. /\ Listed(h) /\ Numbered(h) /\ Registered(h) /\ Recent(h)
      /\ Pointing(h) /\ Menus(h, dlg) /\ Barred(h)
  BY <1>2, <1>3, <1>4
     DEF Good, Links, Listed, Numbered, Registered, Recent, Pointing, Menus, Named, Barred
<1>6. Looks(h, hidden)
  BY <1>2, <1>3, <1>4 DEF Good, Looks, Shaped, Focused, Seen
<1> QED BY <1>2, <1>5, <1>6 DEF Good, Links, h

LEMMA PressTaskbarButtonStep ==
  ASSUME IInv, NEW w \in Addr, PressTaskbarButton(w)
  PROVE  IInv'
<1>1. Good(gui, {}, off.dialog) /\ off.originals = {} /\ w \in Pointer
  BY DEF IInv, OffInv, PressTaskbarButton, Idle, Pointer
<1>2. /\ Good(gui', {}, off.dialog) /\ gui'.dragging_window = gui.dragging_window
      /\ gui'.next_window_id = gui.next_window_id
  <2>1. CASE ~Valid(gui, w)
    <3>1. gui' = RemoveButton(gui, w)
      BY <2>1 DEF PressTaskbarButton
    <3> QED BY <1>1, <2>1, <3>1, GoodDropButton
  <2>2. CASE Valid(gui, w)
    <3>1. gui' \in {Restore(gui, w), Minimize(gui, w), Focus(gui, w)}
      BY <2>2 DEF PressTaskbarButton
    <3>2. /\ Good(gui', {}, off.dialog) /\ Same(gui, gui')
          /\ gui'.dragging_window = gui.dragging_window
      BY <1>1, <3>1, GoodRestore, GoodMinimize, GoodFocus
    <3> QED BY <3>2 DEF Same
  <2> QED BY <2>1, <2>2
<1> QED BY <1>1, <1>2, QuietStep DEF PressTaskbarButton, Press, IInv, Drags

LEMMA PressNothingStep == IInv /\ PressNothing => IInv'
<1> SUFFICES ASSUME IInv, PressNothing PROVE IInv'
  OBVIOUS
<1> DEFINE g == IF Valid(gui, gui.focused_window)
                  THEN [gui EXCEPT !.win[gui.focused_window].focused = FALSE] ELSE gui
           n == [g EXCEPT !.focused_window = NULL]
<1>1. /\ Good(g, off.originals, off.dialog) /\ Same(gui, g)
      /\ g.dragging_window = gui.dragging_window
      /\ \A v \in Live(gui) : Valid(gui, v) => ~g.win[v].focused
  BY FocusGivenUp DEF IInv
<1>2. gui' = SetFocus(n, NULL)
  BY DEF PressNothing, SetFocus
<1> HIDE DEF g
<1>3. \A v \in Live(g) : Valid(g, v) => ~g.win[v].focused
  BY <1>1 DEF Same, Valid
<1>4. /\ Good(n, off.originals, off.dialog) /\ Same(g, n)
      /\ n.dragging_window = g.dragging_window
  BY <1>1, <1>3, NoneFocused
<1> HIDE DEF n
<1>5. /\ Good(gui', off.originals, off.dialog) /\ Same(n, gui')
      /\ gui'.dragging_window = n.dragging_window
  BY <1>2, <1>4, PointersMove
<1> QED BY <1>1, <1>4, <1>5, QuietStep DEF Same, Drags, IInv, PressNothing, Press

(* The step of a press of the button while the desktop is in use, which    *)
(* may begin a drag.                                                       *)
LEMMA PressStep ==
  ASSUME IInv, off' = off, Idle, held' = TRUE, Good(gui', off.originals, off.dialog),
         gui'.next_window_id = gui.next_window_id
  PROVE  IInv'
BY DEF IInv, OffInv, Idle

LEMMA PressWindowStep ==
  ASSUME IInv, NEW w \in Addr, PressWindow(w)
  PROVE  IInv'
<1> DEFINE g == Focus(gui, w)
           dlg == off.dialog
<1>1. Good(gui, {}, dlg) /\ off.originals = {} /\ w \in Pointer
  BY DEF IInv, OffInv, PressWindow, Idle, Pointer
<1>2. Valid(gui, w) /\ w \in Live(gui)
  BY <1>1, ValidIsLive DEF PressWindow, Reachable, Shown, Good, Links
<1>3. Good(g, {}, dlg) /\ Same(gui, g) /\ g.focused_window = w
  BY <1>1, <1>2, GoodFocus
<1>4. OnWidget(g, w) \/ OnTitle(g, w) \/ OnEdge(g, w)
  BY DEF PressWindow
<1> HIDE DEF g
<1>5. w \in Live(g) /\ w # NULL /\ ~g.win[w].minimized
  BY <1>2, <1>3, AddrAssumption DEF Same, Good, Looks, Focused
<1>6. Good(gui', {}, dlg) /\ gui'.next_window_id = g.next_window_id
  <2>1. CASE OnWidget(g, w)
    <3>1. Good(SetFocus(g, w), {}, dlg) /\ Same(g, SetFocus(g, w))
      BY <1>3, <1>5, PointersMove
    <3> QED BY <1>3, <2>1, <3>1 DEF OnWidget, Same
  <2>2. CASE gui' \in {Close(g, w), Minimize(g, w), Toggle(g, w)}
    <3>1. Good(Close(g, w), {}, dlg) /\ Close(g, w).next_window_id = g.next_window_id
      BY <1>1, <1>3, GoodClose
    <3>2. Good(Minimize(g, w), {}, dlg) /\ Same(g, Minimize(g, w))
      BY <1>1, <1>3, GoodMinimize
    <3>3. Good(Toggle(g, w), {}, dlg) /\ Same(g, Toggle(g, w))
      BY <1>1, <1>3, <1>5, GoodToggle
    <3> QED BY <2>2, <3>1, <3>2, <3>3 DEF Same
  <2>3. CASE gui' = IF Movable(g, w) /\ ~g.win[w].maximized
                      THEN [g EXCEPT !.dragging_window = w] ELSE g
    <3> DEFINE h == [g EXCEPT !.dragging_window = w]
    <3>1. Good(h, {}, dlg) /\ Same(g, h)
      BY <1>3, <1>5, PointersMove
    <3> HIDE DEF h
    <3>2. gui' \in {h, g}
      BY <2>3 DEF h
    <3> QED BY <1>3, <3>1, <3>2 DEF Same
  <2>4. CASE OnEdge(g, w)
    <3> DEFINE h == Pulled(g, w, g.win[w].geom)
    <3>1. g.win[w].free
      BY <2>4 DEF OnEdge, Resizable
    <3>2. Good(h, {}, dlg) /\ Same(g, h)
      BY <1>3, <1>5, <3>1, GoodResizing
    <3>3. gui' = h
      <4>1. g \in GuiType /\ w \in Addr /\ g.win[w] \in Window
        BY <1>3, <1>5, LiveIsWindow DEF Good
      <4>2. [g.win[w] EXCEPT !.resizing = TRUE, !.geom = g.win[w].geom]
              = [g.win[w] EXCEPT !.resizing = TRUE]
        BY <4>1 DEF Window
      <4> QED BY <2>4, <4>2 DEF OnEdge, Pulled
    <3> HIDE DEF h
    <3> QED BY <3>2, <3>3 DEF Same
  <2> QED BY <1>4, <2>1, <2>2, <2>3, <2>4 DEF OnTitle
<1> QED BY <1>1, <1>3, <1>6, PressStep DEF PressWindow, Press, Same

LEMMA MoveStep == IInv /\ (MoveDragged \/ MoveResized \/ MoveOverStartMenu) => IInv'
<1> SUFFICES ASSUME IInv, MoveDragged \/ MoveResized \/ MoveOverStartMenu PROVE IInv'
  OBVIOUS
<1> DEFINE hidden == off.originals
           dlg == off.dialog
<1>1. Good(gui, hidden, dlg) /\ gui \in GuiType
  BY DEF IInv, Good
<1>2. Good(gui', hidden, dlg) /\ Drags(gui, gui') /\ gui'.next_window_id = gui.next_window_id
  <2>1. CASE MoveDragged
    <3> DEFINE w == gui.dragging_window
               h == [gui EXCEPT !.dragging_window = NULL]
    <3>1. CASE ~Valid(gui, w) \/ gui.win[w].maximized
      <4>1. Good(h, hidden, dlg) /\ Same(gui, h) /\ h.dragging_window = NULL
        BY <1>1, PointersMove
      <4>2. gui' = h
        BY <2>1, <3>1 DEF MoveDragged
      <4> HIDE DEF h
      <4> QED BY <4>1, <4>2 DEF Same, Drags
    <3>2. CASE Valid(gui, w) /\ ~gui.win[w].maximized
      <4>1. PICK r \in Geoms : gui' = Settle(gui, w, r)
        BY <2>1, <3>2 DEF MoveDragged
      <4>2. w \in Live(gui)
        BY <1>1, <3>2, ValidIsLive DEF Good, Links, GuiType
      <4> QED BY <1>1, <3>2, <4>1, <4>2, GoodSettle DEF Same, Drags
    <3> QED BY <3>1, <3>2
  <2>2. CASE MoveResized
    <3> DEFINE w == gui.focused_window
    <3>1. PICK r \in Geoms : gui' = [gui EXCEPT !.win[w].geom = r]
      BY <2>2 DEF MoveResized
    <3> DEFINE h == Pulled(gui, w, r)
    <3>2. Valid(gui, w) /\ gui.win[w].resizing /\ gui.win[w].free
      BY <2>2 DEF MoveResized, Resized, Resizable
    <3>3. w \in Live(gui) /\ ~gui.win[w].minimized
      BY <1>1, <3>2, ValidIsLive DEF Good, Links, Looks, Focused, GuiType, Valid
    <3>4. Good(h, hidden, dlg) /\ Same(gui, h) /\ h.dragging_window = gui.dragging_window
      BY <1>1, <3>2, <3>3, GoodResizing
    <3>5. gui' = h
      <4>1. gui.win[w] \in Window
        BY <1>1, <3>3, LiveIsWindow
      <4>2. [gui.win[w] EXCEPT !.resizing = TRUE, !.geom = r] = [gui.win[w] EXCEPT !.geom = r]
        BY <3>2, <4>1 DEF Window
      <4> QED BY <3>1, <4>2 DEF Pulled
    <3> HIDE DEF h
    <3> QED BY <3>4, <3>5 DEF Same, Drags
  <2>3. CASE MoveOverStartMenu
    <3>1. gui.start_menu \in Pointer /\ gui' = Focus(gui, gui.start_menu)
      BY <1>1, <2>3 DEF GuiType, MoveOverStartMenu
    <3> QED BY <1>1, <3>1, GoodFocus DEF Same, Drags
  <2> QED BY <2>1, <2>2, <2>3
<1>3. off' = off /\ held' = held
  BY DEF MoveDragged, MoveResized, MoveOverStartMenu
<1> QED BY <1>2, <1>3, QuietStep DEF IInv

LEMMA ReleaseStep == IInv /\ Release => IInv'
<1> SUFFICES ASSUME IInv, Release PROVE IInv'
  OBVIOUS
<1> DEFINE hidden == off.originals
           dlg == off.dialog
<1>1. Good(gui, hidden, dlg) /\ gui \in GuiType
  BY DEF IInv, Good
<1>2. /\ Good(gui', hidden, dlg) /\ gui'.dragging_window = NULL
      /\ gui'.next_window_id = gui.next_window_id
  <2>1. CASE Idle /\ gui.dragging_window # NULL
    <3> DEFINE h == [gui EXCEPT !.dragging_window = NULL]
    <3>1. Good(h, hidden, dlg) /\ Same(gui, h) /\ h.dragging_window = NULL
      BY <1>1, PointersMove
    <3>2. gui' = h
      BY <2>1 DEF Release
    <3> HIDE DEF h
    <3> QED BY <3>1, <3>2 DEF Same
  <2>2. CASE gui.dragging_window = NULL /\ Idle /\ Resized(gui)
    <3> DEFINE w == gui.focused_window
    <3>1. Valid(gui, w) /\ gui.win[w].free
      BY <2>2 DEF Resized, Resizable
    <3>2. w \in Live(gui) /\ ~gui.win[w].minimized
      BY <1>1, <3>1, ValidIsLive DEF Good, Links, Looks, Focused, GuiType, Valid
    <3>3. gui' = EndResize(gui, w)
      BY <2>2 DEF Release
    <3> QED BY <1>1, <2>2, <3>1, <3>2, <3>3, GoodEndResize DEF Same
  <2>3. CASE gui.dragging_window = NULL /\ ~(Idle /\ Resized(gui))
    BY <1>1, <2>3 DEF Release
  <2> QED BY <2>1, <2>2, <2>3 DEF IInv
<1> QED BY <1>2 DEF Release, IInv, OffInv, Idle

LEMMA PressShutdownStep == IInv /\ PressShutdown => IInv'
<1> SUFFICES ASSUME IInv, PressShutdown PROVE IInv'
  OBVIOUS
<1> DEFINE g == Focus(gui, gui.start_menu)
<1>1. /\ Good(gui, {}, NULL) /\ gui \in GuiType /\ gui.start_menu \in Live(gui)
      /\ off.dialog = NULL /\ gui.dragging_window = NULL /\ Valid(gui, gui.start_menu)
  BY ValidIsLive
     DEF IInv, OffInv, PressShutdown, Idle, Captured, Good, GuiType, Links
<1>2. PICK a \in Free \cup {gui.start_menu}, r \in Geoms :
        gui' = OpenDialog(g, off, a, r).gui /\ off' = OpenDialog(g, off, a, r).off
  BY DEF PressShutdown
<1>3. Good(g, {}, NULL) /\ Same(gui, g) /\ g.dragging_window = gui.dragging_window
  BY <1>1, GoodFocus DEF Live, Pointer
<1> HIDE DEF g
<1>4. /\ a \in Addr /\ Valid(g, g.start_menu)
      /\ a \in Live(g) => a = g.start_menu
  BY <1>1, <1>2, <1>3 DEF Free, Live, Same, Valid
<1>5. /\ Drags(g, gui')
      /\ gui'.next_window_id \in {g.next_window_id, g.next_window_id + 1}
      /\ Visible(g) \subseteq Addr
      /\ \/ Good(gui', {}, NULL) /\ off' = [off EXCEPT !.dark = 0, !.originals = {}]
         \/ /\ Good(gui', Visible(g), a)
            /\ off' = [state |-> "DIALOG", dark |-> 0, dialog |-> a, originals |-> Visible(g)]
  <2>1. PICK opened : opened = OpenDialog(g, off, a, r)
    OBVIOUS
  <2>2. Good(g, {}, NULL) /\ a \in Addr /\ r \in Geoms
    BY <1>3, <1>4
  <2>3. Opened(g, off, a, opened)
    BY <1>4, <2>1, <2>2, GoodOpenDialog
  <2> QED BY <1>2, <2>1, <2>3 DEF Opened
<1>6. gui'.next_window_id <= MaxId + 1
  BY <1>3, <1>5, MayCreateBound DEF PressShutdown, Same
<1>7. gui'.dragging_window = NULL
  BY <1>1, <1>3, <1>5 DEF Drags
<1>8. held' = TRUE
  BY DEF PressShutdown, Press
<1>9. CASE Good(gui', {}, NULL) /\ off' = [off EXCEPT !.dark = 0, !.originals = {}]
  <2>1. OffInv(off') /\ off'.originals = {} /\ off'.dialog = NULL
    <3>1. /\ off.state = "IDLE"
          /\ off' = [state |-> "IDLE", dark |-> 0, dialog |-> NULL, originals |-> {}]
      BY <1>1, <1>9 DEF IInv, OffInv, PressShutdown, Idle
    <3> QED BY <3>1, DarkAssumption DEF OffInv, States, Pointer
  <2> QED BY <1>6, <1>7, <1>8, <1>9, <2>1 DEF IInv
<1>10. CASE /\ Good(gui', Visible(g), a)
            /\ off' = [state |-> "DIALOG", dark |-> 0, dialog |-> a, originals |-> Visible(g)]
  <2>1. OffInv(off')
    BY <1>4, <1>5, <1>10, DarkAssumption DEF OffInv, States, Pointer
  <2> QED BY <1>6, <1>7, <1>8, <1>10, <2>1 DEF IInv
<1> QED BY <1>5, <1>9, <1>10

(* While the dialog is up, and until the windows are shown again.          *)
LEMMA DialogStep == IInv /\ (PressDialog \/ Darken \/ Lighten \/ Blacken) => IInv'
<1> SUFFICES ASSUME IInv, PressDialog \/ Darken \/ Lighten \/ Blacken PROVE IInv'
  OBVIOUS
<1> DEFINE hidden == off.originals
           d == off.dialog
<1>1. /\ Good(gui, hidden, d) /\ gui \in GuiType /\ d \in Pointer /\ off.dark \in Nat
      /\ off.state \in States
  BY DarkAssumption DEF IInv, Good, OffInv
<1>2. gui.dragging_window = NULL
  BY DEF IInv, Idle, PressDialog, Darken, Lighten, Blacken
<1>3. CASE PressDialog
  <2>1. CASE ~Valid(gui, d)
    BY <1>2, <1>3, <2>1 DEF PressDialog, Press, IInv, OffInv, Idle
  <2>2. CASE Valid(gui, d)
    <3> DEFINE h == Destroy(gui, d)
    <3>1. PICK state \in {"CONFIRMING", "CANCELING"} :
            gui' = h /\ off' = [off EXCEPT !.state = state, !.dialog = NULL]
      BY <1>3, <2>2 DEF PressDialog, LeaveDialog
    <3>2. d \in Live(gui) /\ gui.win[d].kind = "dialog"
      BY <1>1, <2>2 DEF Good, Links, Menus, Named, Valid
    <3>3. Good(gui, hidden, NULL)
      BY <1>1 DEF Good, Links, Menus, Named
    <3>4. h.start_menu = gui.start_menu /\ h.date_menu = gui.date_menu
      BY <1>1 DEF Destroy, RemoveButton, GuiType
    <3>5. d \notin {h.start_menu, h.date_menu, NULL}
      BY <1>1, <2>2, <3>2, <3>4 DEF Good, Links, Menus, Named, Valid
    <3>6. h \in After(gui, d)
      BY DEF After
    <3> HIDE DEF h
    <3>7. Good(h, hidden, NULL) /\ Drags(gui, h) /\ h.next_window_id = gui.next_window_id
      BY <2>2, <3>2, <3>3, <3>5, <3>6, GoodDestroy
    <3>8. OffInv(off') /\ off'.originals = hidden /\ off'.dialog = NULL
      <4>1. off' = [state |-> state, dark |-> off.dark, dialog |-> NULL,
                    originals |-> hidden]
        BY <1>3, <3>1 DEF IInv, OffInv
      <4>2. off.dark \in 0..2 * Dark /\ off.dark <= Dark /\ off.dark < 2 * Dark
        BY <1>3, DarkAssumption DEF IInv, OffInv, PressDialog
      <4>3. hidden \in SUBSET Addr
        BY DEF IInv, OffInv
      <4> QED BY <4>1, <4>2, <4>3 DEF OffInv, States, Pointer
    <3>9. gui'.dragging_window = NULL
      BY <1>2, <3>1, <3>7 DEF Drags
    <3> QED BY <1>3, <3>1, <3>7, <3>8, <3>9 DEF IInv, PressDialog, Press
  <2> QED BY <2>1, <2>2
<1>4. CASE Darken
  <2>1. OffInv(off') /\ off'.originals = hidden /\ off'.dialog = d
    BY <1>1, <1>4, DarkAssumption DEF IInv, OffInv, Darken
  <2> QED BY <1>2, <1>4, <2>1 DEF IInv, Darken
<1>5. CASE Lighten
  <2> DEFINE level == IF off.dark = 0 THEN 0 ELSE off.dark - 1
  <2>1. level \in Nat /\ level <= Dark
    BY <1>1, <1>5, DarkAssumption DEF IInv, OffInv, Lighten
  <2>2. CASE level # 0
    <3>1. gui' = gui /\ held' = held /\ off' = [off EXCEPT !.dark = level]
      BY <1>5, <2>2 DEF Lighten
    <3>2. OffInv(off') /\ off'.originals = hidden /\ off'.dialog = d
      BY <1>5, <2>1, <3>1, DarkAssumption DEF IInv, OffInv, Lighten
    <3> QED BY <1>2, <3>1, <3>2 DEF IInv
  <2>3. CASE level = 0
    <3> DEFINE h == Show(gui, hidden, TRUE)
    <3>1. d = NULL
      BY <1>5 DEF IInv, OffInv, Lighten
    <3>2. Good(h, {}, NULL) /\ Same(gui, h) /\ h.dragging_window = gui.dragging_window
      BY <1>1, <3>1, GoodShowAll
    <3>3. /\ gui' = h /\ held' = held
          /\ off' = [state |-> "IDLE", dark |-> 0, dialog |-> NULL, originals |-> {}]
      BY <1>5, <2>3 DEF Lighten
    <3> HIDE DEF h
    <3>4. OffInv(off')
      BY <3>3, DarkAssumption DEF OffInv, States, Pointer
    <3> QED BY <1>2, <3>2, <3>3, <3>4 DEF IInv, Same
  <2> QED BY <2>2, <2>3
<1>6. CASE Blacken
  <2>1. OffInv(off') /\ off'.originals = hidden /\ off'.dialog = d
    <3> DEFINE state == IF off.dark + 1 >= 2 * Dark THEN "OFF" ELSE "CONFIRMING"
    <3>1. off' = [state |-> state, dark |-> off.dark + 1, dialog |-> d, originals |-> hidden]
      BY <1>6 DEF IInv, OffInv, Blacken
    <3>2. off.dark + 1 \in 0..2 * Dark /\ off.dark < 2 * Dark /\ d = NULL
      BY <1>1, <1>6, DarkAssumption DEF IInv, OffInv, Blacken
    <3>3. hidden \in SUBSET Addr
      BY DEF IInv, OffInv
    <3>4. state \in States /\ (state = "CONFIRMING" => off.dark + 1 < 2 * Dark)
          /\ state \notin {"IDLE", "DIALOG", "CANCELING"}
      BY <1>1, DarkAssumption DEF States
    <3> HIDE DEF state
    <3> QED BY <3>1, <3>2, <3>3, <3>4 DEF OffInv, Pointer
  <2> QED BY <1>2, <1>6, <2>1 DEF IInv, Blacken
<1> QED BY <1>3, <1>4, <1>5, <1>6

-----------------------------------------------------------------------------
(* The invariant holds, and the properties follow                          *)

LEMMA InitInv == Init => IInv
<1> SUFFICES ASSUME Init PROVE IInv
  OBVIOUS
<1>1. gui = [win |-> [a \in Addr |-> Freed], order |-> <<>>, next_window_id |-> 1,
             registry |-> [i \in 0..RegistrySize - 1 |-> NULL], buttons |-> {},
             focused_window |-> NULL, dragging_window |-> NULL, focus_widget |-> NULL,
             start_menu |-> NULL, date_menu |-> NULL]
  BY DEF Init
<1>2. gui \in GuiType
  <2>1. NULL \in Pointer /\ <<>> \in Seq(Addr)
    BY DEF Pointer
  <2> QED BY <1>1, <2>1 DEF GuiType
<1>3. Live(gui) = {}
  BY <1>1 DEF Live
<1>4. Listed(gui)
  <2>1. gui.order = <<>>
    BY <1>1
  <2>2. IsInjective(<<>>) /\ ToSet(<<>>) = {}
    BY DEF IsInjective, ToSet
  <2> QED BY <1>3, <2>1, <2>2 DEF Listed
<1>5. Registered(gui)
  BY <1>1 DEF Registered
<1>6. Links(gui, NULL)
  <2>1. /\ gui.next_window_id = 1 /\ gui.buttons = {}
        /\ {gui.focused_window, gui.dragging_window, gui.focus_widget,
             gui.start_menu, gui.date_menu} = {NULL}
    BY <1>1
  <2>2. Numbered(gui) /\ Recent(gui) /\ Pointing(gui)
    BY <1>3, <2>1 DEF Numbered, Recent, Pointing
  <2>3. Menus(gui, NULL) /\ Barred(gui)
    BY <1>3, <2>1 DEF Menus, Named, Barred
  <2> QED BY <1>4, <1>5, <2>2, <2>3 DEF Links
<1>7. Looks(gui, {})
  BY <1>1, <1>3 DEF Looks, Shaped, Focused, Seen
<1>8. OffInv(off) /\ off.dialog = NULL /\ off.originals = {}
  BY DarkAssumption DEF Init, OffInv, States, Pointer
<1>9. held \in BOOLEAN
  BY DEF Init
<1>10. gui.dragging_window = NULL /\ gui.next_window_id <= MaxId + 1
  BY <1>1, BoundAssumption
<1> QED BY <1>2, <1>6, <1>7, <1>8, <1>9, <1>10 DEF IInv, Good

LEMMA NextInv == IInv /\ [Next]_vars => IInv'
<1> SUFFICES ASSUME IInv, [Next]_vars PROVE IInv'
  OBVIOUS
<1>1. CASE CreateWindow
  BY <1>1, CreateWindowStep
<1>2. CASE KeyEscape \/ KeyF11 \/ KeyTab
  BY <1>2, KeyStep
<1>3. CASE KeyWin \/ PressStartButton \/ PressClock
  BY <1>3, MenuStep
<1>4. CASE PressCaptured
  BY <1>4, PressCapturedStep
<1>5. CASE PressShutdown
  BY <1>5, PressShutdownStep
<1>6. CASE PressNothing
  BY <1>6, PressNothingStep
<1>7. ASSUME NEW w \in Addr, PressTaskbarButton(w) PROVE IInv'
  BY <1>7, PressTaskbarButtonStep
<1>8. ASSUME NEW w \in Addr, PressWindow(w) PROVE IInv'
  BY <1>8, PressWindowStep
<1>9. CASE MoveDragged \/ MoveResized \/ MoveOverStartMenu
  BY <1>9, MoveStep
<1>10. CASE Release
  BY <1>10, ReleaseStep
<1>11. CASE PressDialog \/ Darken \/ Lighten \/ Blacken
  BY <1>11, DialogStep
<1>12. CASE UNCHANGED vars
  BY <1>12 DEF vars, IInv, Idle
<1> QED BY <1>1, <1>2, <1>3, <1>4, <1>5, <1>6, <1>7, <1>8, <1>9, <1>10, <1>11, <1>12 DEF Next

LEMMA Invariant == Spec => []IInv
BY InitInv, NextInv, PTL DEF Spec

(* Whatever the user does and the programs create, every part of the       *)
(* desktop's state keeps its type: the list holds no window twice, no id   *)
(* is handed out past the bound.                                           *)
THEOREM DesktopTyped == Spec => []TypeOK
<1>1. IInv => TypeOK
  BY BoundAssumption
     DEF IInv, Good, GuiType, Links, Listed, Numbered, OffInv, TypeOK
<1> QED BY <1>1, Invariant, PTL

(* No pointer is to a freed window (wm_destroy_window and its callers, and *)
(* the operations in between, which store pointers in six places).         *)
THEOREM NothingDangles == Spec => []NoDangling
<1>1. ASSUME IInv PROVE NoDangling
  <2>1. Links(gui, off.dialog) /\ gui \in GuiType
    BY <1>1 DEF IInv, Good
  <2>2. Range(gui.registry) \subseteq Live(gui) \cup {NULL}
    BY <2>1 DEF Links, Registered, GuiType, Range
  <2> QED BY <2>1, <2>2 DEF Links, Listed, Pointing, Menus, Named, NoDangling
<1> QED BY <1>1, Invariant, PTL

(* A window keeps its button and a menu leaves none, with any number of    *)
(* windows up to MAX_TASKBAR_BUTTONS (taskbar_add_window).                 *)
THEOREM ButtonsKept == Spec => []ButtonForEachWindow
<1>1. IInv => ButtonForEachWindow
  BY DEF IInv, Good, Links, Barred, ButtonForEachWindow
<1> QED BY <1>1, Invariant, PTL

(* With a registry of any size, a window is displaced from its slot only   *)
(* by one that is RegistrySize ids younger (gui_register_window).          *)
THEOREM SlotsKept == Spec => []RegisteredForAWhile
<1>1. IInv => RegisteredForAWhile
  BY DEF IInv, Good, Links, Recent, RegisteredForAWhile
<1> QED BY <1>1, Invariant, PTL

(* A window that is not being resized has one rectangle to come back to,   *)
(* whatever the rectangles are (wm_maximize_window, wm_minimize_window,    *)
(* wm_restore_window, wm_move_window, wm_end_resize).                      *)
THEOREM RectangleKept == Spec => []OneRectangle
<1>1. IInv => OneRectangle
  BY DEF IInv, Good, Looks, Shaped, WellShaped, OneRectangle
<1> QED BY <1>1, Invariant, PTL

(* No window is dragged once the button is up (taskbar_handle_event takes  *)
(* events only after the drag has).                                        *)
THEOREM DragEnds == Spec => []DraggedOnlyWhileHeld
<1>1. IInv => DraggedOnlyWhileHeld
  BY DEF IInv, DraggedOnlyWhileHeld
<1> QED BY <1>1, Invariant, PTL

(* A cancelled shutdown brings back every window it has hidden             *)
(* (hide_all_windows, restore_all_windows).                                *)
THEOREM CancelRestores == Spec => []CancelShowsAll
<1>1. ASSUME IInv, Idle PROVE \A w \in Live(gui) :
        Valid(gui, w) => gui.win[w].visible = ~gui.win[w].minimized
  <2>1. Seen(gui, {})
    BY <1>1 DEF IInv, OffInv, Idle, Good, Looks
  <2> QED BY <2>1 DEF Seen, SeenAs
<1> QED BY <1>1, Invariant, PTL DEF CancelShowsAll

(* At most one window shows itself as focused, and it is the one that gets *)
(* the keys (wm_focus_window, wm_minimize_window, gui_handle_event).       *)
THEOREM FocusAgrees == Spec => []OneFocused
<1>1. IInv => OneFocused
  BY DEF IInv, Good, Looks, Focused, OneFocused
<1> QED BY <1>1, Invariant, PTL
=============================================================================
