------------------------------- MODULE Layout --------------------------------
(***************************************************************************)
(* The divider between the two columns of the page: the functions of       *)
(* ui/static/index.js that keep --setup-width, the width of the left one.  *)
(*                                                                         *)
(* Widths are whole pixels.  The window changes before the resize event is *)
(* handled, every pointer that goes down on the divider begins a drag of   *)
(* its own, local storage may refuse a write, and another page of the same *)
(* origin may have written to it.  Listeners are the set of the pointers   *)
(* whose pointerdown has added them.                                       *)
(***************************************************************************)
EXTENDS Integers

CONSTANTS Windows,        \* bound: inner widths of the window
          Frame,          \* what of it is not layout-grid
          Pointers,
          Positions       \* bound: where a pointer can be, from the grid's left

ASSUME LayoutAssumption == /\ Windows \subseteq Nat /\ Frame \in Nat
                           /\ Positions \subseteq Int

VARIABLES window,         \* the inner width
          pending,        \* a resize event has not been handled
          bound,          \* bindLayoutResizer has added its listeners
          setup,          \* --setup-width set on the page, or Unset
          stored,         \* what local storage has for it, or Unset
          pressed,        \* pointers that went down on the divider and are down
          drags,          \* whose listeners are on the divider
          highlighted     \* the class is-dragging

vars == <<window, pending, bound, setup, stored, pressed, drags, highlighted>>

Unset == 0                \* also an entry that is no positive number
StyleSheetWidth == 620
MinWidth == 440
Divider == 18

(* Types. *)
TypeOK ==
  /\ window \in Windows /\ pending \in BOOLEAN /\ bound \in BOOLEAN
  /\ setup \in Nat /\ stored \in Nat
  /\ pressed \subseteq Pointers /\ drags \subseteq Pointers
  /\ highlighted \in BOOLEAN

Narrow(w) == w <= 1100    \* one column, no divider

-----------------------------------------------------------------------------
(* clamp and the bounds of setSetupWidth. *)

Larger(a, b) == IF a > b THEN a ELSE b
Smaller(a, b) == IF a < b THEN a ELSE b
Clamp(value, low, high) == Larger(low, Smaller(high, value))

MaxWidth(w) == Larger(MinWidth, Smaller(820, w - Frame - Divider - 420))
Fit(width, w) == Clamp(width, MinWidth, MaxWidth(w))

(* The width that is shown: the style sheet has one too. *)
Shown == IF setup = Unset THEN StyleSheetWidth ELSE setup

SetSetupWidth(width) ==
  /\ setup' = Fit(width, window)
  /\ stored' \in {setup', stored}

-----------------------------------------------------------------------------
(* Before the script runs. *)
Init == /\ window \in Windows /\ stored \in Positions \intersect Nat
        /\ pending = FALSE /\ bound = FALSE /\ setup = Unset
        /\ pressed = {} /\ drags = {} /\ highlighted = FALSE

(* applySavedSetupWidth *)
ApplySavedSetupWidth ==
  \/ stored = Unset /\ setup' = Unset /\ UNCHANGED stored
  \/ stored # Unset /\ SetSetupWidth(stored)

(* The page is loaded, or loaded again. *)
Load ==
  /\ ApplySavedSetupWidth
  /\ bound' = ~Narrow(window)
  /\ pending' = FALSE /\ pressed' = {} /\ drags' = {} /\ highlighted' = FALSE
  /\ UNCHANGED window

-----------------------------------------------------------------------------
(* The listeners. *)

OnDivider == bound /\ ~Narrow(window)

PointerDown(p) ==
  /\ OnDivider /\ p \notin pressed
  /\ pressed' = pressed \union {p} /\ drags' = drags \union {p}
  /\ highlighted' = TRUE
  /\ UNCHANGED <<window, pending, bound, setup, stored>>

(* Mutant: the divider does not capture the pointers that drag it. *)
NothingCaptured == {}

(* setPointerCapture comes with the listeners of a drag, and               *)
(* releasePointerCapture goes with them: the divider sees these pointers   *)
(* wherever they are.                                                      *)
Captured == drags

(* A pointer moves that is captured by the divider or over it, dragging or *)
(* merely hovering: every drag follows, whoever's it is.                   *)
PointerMove ==
  /\ drags # {}
  /\ \E position \in Positions : SetSetupWidth(position)
  /\ UNCHANGED <<window, pending, bound, pressed, drags, highlighted>>

(* pointerup and pointercancel of any pointer.  The divider sees it if the *)
(* pointer is captured or on the divider, and then every drag stops; a     *)
(* pointer that is neither leaves no trace.                                *)
PointerUp(p) ==
  /\ pressed' = pressed \ {p}
  /\ \/ /\ p \in Captured \/ OnDivider
        /\ drags' = {} /\ highlighted' = (drags = {} /\ highlighted)
     \/ /\ p \notin Captured
        /\ UNCHANGED <<drags, highlighted>>
  /\ UNCHANGED <<window, pending, bound, setup, stored>>

KeyDown ==
  /\ OnDivider
  /\ \E step \in {20, 40} : SetSetupWidth(Shown - step) \/ SetSetupWidth(Shown + step)
  /\ UNCHANGED <<window, pending, bound, pressed, drags, highlighted>>

(* The window gets another width. *)
Resize ==
  /\ \E w \in Windows \ {window} : window' = w
  /\ pending' = bound
  /\ UNCHANGED <<bound, setup, stored, pressed, drags, highlighted>>

(* Mutant: the width is fitted again only while it is dragged. *)
ResizeWhileDragging ==
  /\ pending /\ pending' = FALSE
  /\ IF drags # {} THEN SetSetupWidth(Shown) ELSE UNCHANGED <<setup, stored>>
  /\ UNCHANGED <<window, bound, pressed, drags, highlighted>>

OnResize ==
  /\ pending /\ pending' = FALSE
  /\ SetSetupWidth(Shown)
  /\ UNCHANGED <<window, bound, pressed, drags, highlighted>>

(* Another page of the same origin saves its width. *)
OtherPage ==
  /\ \E w \in Windows : stored' = MaxWidth(w)
  /\ UNCHANGED <<window, pending, bound, setup, pressed, drags, highlighted>>

Next == \/ Load \/ PointerMove \/ KeyDown \/ Resize \/ OnResize \/ OtherPage
        \/ \E p \in Pointers : PointerDown(p) \/ PointerUp(p)

Spec == Init /\ [][Next]_vars

-----------------------------------------------------------------------------
(* A width that the page has set leaves both columns and the divider their  *)
(* room whenever there are two columns, whatever was dragged, typed, saved, *)
(* loaded or resized before, as soon as the last resize is handled.  This   *)
(* includes a page that was loaded narrow and has no listeners.             *)
FitsWindow ==
  setup # Unset /\ ~pending /\ ~Narrow(window) =>
    setup \in MinWidth..MaxWidth(window)

(* No drag outlives the pointer that began it, whichever pointers go down   *)
(* and up on the divider and elsewhere: the stop of a drag always finds its *)
(* pointer, and the divider looks dragged exactly while there is a drag.    *)
(* It does not say whom the divider follows, see PointerMove.               *)
DragsEnd == drags \subseteq pressed /\ highlighted = (drags # {})
=============================================================================
