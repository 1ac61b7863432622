---------------------------- MODULE LayoutProofs -----------------------------
(***************************************************************************)
(* Proofs about Layout: the width that the page sets fits for every set of *)
(* window widths, every frame and any number of pointers.                  *)
(***************************************************************************)
EXTENDS Layout, TLAPS

(* A page without listeners keeps what fitted the narrow window it was      *)
(* loaded in; one with listeners keeps what fits the window it has.  Every  *)
(* wide window has room for what fits a narrow one.                         *)
WidestNarrow == Larger(MinWidth, Smaller(820, 1100 - Frame - Divider - 420))

WidthInv ==
  /\ setup # Unset => setup >= MinWidth
  /\ setup # Unset /\ ~bound => setup <= WidestNarrow
  /\ setup # Unset /\ bound /\ ~pending => setup <= MaxWidth(window)
  /\ ~bound => ~pending /\ drags = {}

IInv == TypeOK /\ WidthInv /\ DragsEnd

(* Fit keeps any width between the bounds. *)
LEMMA FitInBounds ==
  ASSUME NEW width \in Int, NEW w \in Nat
  PROVE  Fit(width, w) \in Nat /\ Fit(width, w) >= MinWidth /\ Fit(width, w) <= MaxWidth(w)
  BY LayoutAssumption DEF Fit, Clamp, MaxWidth, Larger, Smaller, MinWidth, Divider

(* The bounds grow with the window. *)
LEMMA BoundsGrow ==
  ASSUME NEW w \in Nat
  PROVE  /\ Narrow(w) => MaxWidth(w) <= WidestNarrow
         /\ ~Narrow(w) => WidestNarrow <= MaxWidth(w)
  BY LayoutAssumption DEF Narrow, WidestNarrow, MaxWidth, Larger, Smaller, MinWidth, Divider

(* setSetupWidth leaves a number that fits. *)
LEMMA SetFits ==
  ASSUME TypeOK, NEW width \in Int, SetSetupWidth(width)
  PROVE  /\ setup' \in Nat /\ stored' \in Nat
         /\ setup' >= MinWidth /\ setup' <= MaxWidth(window)
  <1>1. window \in Nat
    BY LayoutAssumption DEF TypeOK
  <1> QED BY <1>1, FitInBounds DEF SetSetupWidth, TypeOK

LEMMA InitInv == Init => IInv
  <1> SUFFICES ASSUME Init PROVE IInv
    OBVIOUS
  <1>1. TypeOK
    BY DEF Init, TypeOK, Unset
  <1>2. WidthInv
    BY Zenon DEF Init, WidthInv
  <1>3. DragsEnd
    BY Zenon DEF Init, DragsEnd
  <1> QED BY <1>1, <1>2, <1>3 DEF IInv

LEMMA StepInv == IInv /\ [Next]_vars => IInv'
  <1> SUFFICES ASSUME IInv, [Next]_vars PROVE IInv'
    OBVIOUS
  <1> USE DEF IInv
  <1>1. window \in Nat /\ TypeOK /\ Shown \in Int
    BY LayoutAssumption DEF TypeOK, Shown, StyleSheetWidth
  <1>2. CASE Load
    <2>1. TypeOK'
      <3>1. stored \in Nat /\ stored \in Int
        BY <1>1 DEF TypeOK
      <3>2. setup' \in Nat /\ stored' \in Nat
        <4>1. CASE SetSetupWidth(stored)
          BY <1>1, <3>1, <4>1, SetFits
        <4>2. CASE setup' = Unset /\ UNCHANGED stored
          BY <3>1, <4>2 DEF Unset
        <4> QED BY <1>2, <4>1, <4>2 DEF Load, ApplySavedSetupWidth
      <3>3. bound' \in BOOLEAN /\ pending' \in BOOLEAN /\ highlighted' \in BOOLEAN
        BY <1>2, Zenon DEF Load
      <3> QED BY <1>1, <1>2, <3>2, <3>3 DEF Load, TypeOK
    <2>2. CASE stored = Unset
      <3>1. setup' = Unset
        BY <1>2, <2>2 DEF Load, ApplySavedSetupWidth
      <3> QED BY <2>1, <1>2, <3>1 DEF Load, WidthInv, DragsEnd
    <2>3. CASE stored # Unset
      <3>1. SetSetupWidth(stored) /\ stored \in Int
        BY <1>1, <1>2, <2>3 DEF Load, ApplySavedSetupWidth, TypeOK
      <3>2. setup' >= MinWidth /\ setup' <= MaxWidth(window)
        BY <3>1, <1>1, SetFits
      <3>3. ~bound' => setup' <= WidestNarrow
        <4>1. ~bound' => Narrow(window)
          BY <1>2 DEF Load
        <4>2. WidestNarrow \in Int /\ MaxWidth(window) \in Int /\ setup' \in Int
          BY <1>1, <2>1, LayoutAssumption
             DEF WidestNarrow, MaxWidth, Larger, Smaller, MinWidth, Divider, TypeOK
        <4> QED BY <1>1, <3>2, <4>1, <4>2, BoundsGrow
      <3>4. MaxWidth(window)' = MaxWidth(window)
        BY <1>2 DEF Load, MaxWidth
      <3> QED BY <2>1, <1>2, <3>2, <3>3, <3>4 DEF Load, WidthInv, DragsEnd
    <2> QED BY <2>2, <2>3
  <1>3. ASSUME NEW width \in Int, SetSetupWidth(width), bound,
               UNCHANGED <<window, bound, pressed, drags, highlighted>>,
               pending' \in BOOLEAN
        PROVE  IInv'
    <2>1. /\ setup' \in Nat /\ stored' \in Nat
          /\ setup' >= MinWidth /\ setup' <= MaxWidth(window)
      BY <1>1, <1>3, SetFits
    <2>2. MaxWidth(window)' = MaxWidth(window)
      BY <1>3 DEF MaxWidth
    <2> QED BY <1>3, <2>1, <2>2 DEF TypeOK, WidthInv, DragsEnd
  <1>4. ASSUME NEW p \in Pointers, PointerDown(p) PROVE IInv'
    BY <1>4, ZenonT(40) DEF PointerDown, OnDivider, TypeOK, WidthInv, DragsEnd, MaxWidth
  <1>5. ASSUME NEW p \in Pointers, PointerUp(p) PROVE IInv'
    <2>1. UNCHANGED <<window, pending, bound, setup, stored>> /\ pressed' = pressed \ {p}
      BY <1>5 DEF PointerUp
    <2>2. CASE drags' = {} /\ highlighted' = (drags = {} /\ highlighted)
      BY <2>1, <2>2, ZenonT(40) DEF TypeOK, WidthInv, DragsEnd, MaxWidth
    <2>3. CASE p \notin Captured /\ UNCHANGED <<drags, highlighted>>
      BY <2>1, <2>3, ZenonT(40) DEF Captured, TypeOK, WidthInv, DragsEnd, MaxWidth
    <2> QED BY <1>5, <2>2, <2>3 DEF PointerUp
  <1>6. CASE PointerMove
    <2>1. bound
      <3>1. drags # {}
        BY <1>6 DEF PointerMove
      <3> QED BY <3>1, Zenon DEF WidthInv
    <2>2. PICK position \in Positions : SetSetupWidth(position)
      BY <1>6 DEF PointerMove
    <2> QED BY <1>3, <1>6, <2>1, <2>2, LayoutAssumption DEF PointerMove, TypeOK
  <1>7. CASE KeyDown
    <2>1. PICK step \in {20, 40} : SetSetupWidth(Shown - step) \/ SetSetupWidth(Shown + step)
      BY <1>7 DEF KeyDown
    <2>2. Shown - step \in Int /\ Shown + step \in Int
      BY <1>1
    <2> QED BY <1>3, <1>7, <2>1, <2>2 DEF KeyDown, OnDivider, TypeOK
  <1>8. CASE OnResize
    <2>1. bound
      <3>1. pending
        BY <1>8, Zenon DEF OnResize
      <3> QED BY <3>1, Zenon DEF WidthInv
    <2> QED BY <1>1, <1>3, <1>8, <2>1 DEF OnResize, TypeOK
  <1>9. CASE Resize
    BY <1>9, <1>1 DEF Resize, TypeOK, WidthInv, DragsEnd
  <1>10. CASE OtherPage
    <2>1. PICK w \in Windows : stored' = MaxWidth(w)
      BY <1>10 DEF OtherPage
    <2>2. stored' \in Nat
      BY <2>1, LayoutAssumption DEF MaxWidth, Larger, Smaller, MinWidth, Divider
    <2> QED BY <1>10, <2>2 DEF OtherPage, TypeOK, WidthInv, DragsEnd, MaxWidth
  <1>11. CASE UNCHANGED vars
    BY <1>11 DEF vars, TypeOK, WidthInv, DragsEnd, MaxWidth
  <1> QED BY <1>2, <1>4, <1>5, <1>6, <1>7, <1>8, <1>9, <1>10, <1>11 DEF Next

-----------------------------------------------------------------------------
(* The state of the divider has its type. *)
THEOREM TypeCorrect == Spec => []TypeOK
  <1>1. IInv => TypeOK
    BY DEF IInv
  <1> QED BY InitInv, StepInv, <1>1, PTL DEF Spec

(* Whatever was dragged, typed, saved, loaded or resized, both columns have *)
(* their room as soon as the last resize is handled.                        *)
THEOREM WidthFits == Spec => []FitsWindow
  <1>1. IInv => FitsWindow
    <2> SUFFICES ASSUME IInv, setup # Unset, ~pending, ~Narrow(window)
                 PROVE  setup \in MinWidth..MaxWidth(window)
      BY DEF FitsWindow
    <2>1. window \in Nat /\ setup \in Nat
      BY LayoutAssumption DEF IInv, TypeOK
    <2>2. WidestNarrow \in Int /\ MaxWidth(window) \in Int
      BY <2>1, LayoutAssumption
         DEF WidestNarrow, MaxWidth, Larger, Smaller, MinWidth, Divider
    <2>3. setup >= MinWidth
      BY DEF IInv, WidthInv
    <2>4. setup <= MaxWidth(window)
      <3>1. CASE bound
        BY <3>1 DEF IInv, WidthInv
      <3>2. CASE ~bound
        <4>1. setup <= WidestNarrow
          BY <3>2 DEF IInv, WidthInv
        <4> QED BY <2>1, <2>2, <4>1, BoundsGrow
      <3> QED BY <3>1, <3>2
    <2> QED BY <2>1, <2>2, <2>3, <2>4 DEF MinWidth
  <1> QED BY InitInv, StepInv, <1>1, PTL DEF Spec

(* However many pointers there are and wherever they go up, no drag        *)
(* outlives the pointer that began it, and the divider looks dragged only  *)
(* while there is a drag.                                                  *)
THEOREM DragsDoEnd == Spec => []DragsEnd
  <1>1. IInv => DragsEnd
    BY DEF IInv
  <1> QED BY InitInv, StepInv, <1>1, PTL DEF Spec
=============================================================================
