------------------------------- MODULE Viewer --------------------------------
(***************************************************************************)
(* GOVIEW.ELF, the image viewer (user/go/view).  Lengths are uint32 in the *)
(* code: here they wrap at VwWord.  The window is sized from the dimensions  *)
(* the file's header claims, which nothing has checked; the picture comes  *)
(* from a second read, which another program may have changed.  An axis of *)
(* the view is the picture's length, its zoomed length and the viewport's. *)
(***************************************************************************)
EXTENDS Integers, Sequences, FiniteSets, FiniteSetsExt, TLC

CONSTANTS
    VwWord,           \* one more than the largest uint32
    Claims,         \* dimensions a header may claim
    Pictures,       \* dimensions of the pictures that decode
    zoomTable,      \* the zoom steps, in percent
    zoomDefaultIdx,
    winMax, winMin, \* the window's bounds, <<width, height>>
    winPad,         \* what the chrome takes of them
    bandsH,         \* height of the title band and the status row
    fileMax,        \* bytes of a file, and of the files tried
    FileSizes,
    pixelsMax,
    WinSizes,       \* sizes the seat gives the window
    DragTo,         \* pointer positions of a drag
    MaxViewKeys     \* bound: keys and window events of a behaviour

VARIABLE vw

U(x) == x % VwWord

maxU32(a, b) == IF a > b THEN a ELSE b

minU32(a, b) == IF a < b THEN a ELSE b

-----------------------------------------------------------------------------
(* Geometry: view.go *)

\* chooseWindowSize: fit the claimed picture under the caps, at most doubled
chooseWindowSize(iw, ih) ==
    LET capW == winMax[1] - winPad[1]
        capH == winMax[2] - winPad[2]
        tall == U(capW * ih) \div iw
        cw0 == IF tall > capH THEN U(capH * iw) \div ih ELSE capW
        ch0 == IF tall > capH THEN capH ELSE tall
        wide == cw0 > U(iw * 2)
        ch1 == IF wide THEN U(U(ch0 * iw) * 2) \div cw0 ELSE ch0
        cw1 == IF wide THEN U(iw * 2) ELSE cw0
        ch2 == minU32(ch1, U(ih * 2)) IN
    <<maxU32(cw1, winMin[1] - winPad[1]) + winPad[1],
      maxU32(ch2, winMin[2] - winPad[2]) + winPad[2]>>

viewportRect(win) ==
    IF win[2] <= bandsH \/ win[1] = 0 THEN <<0, 0>> ELSE <<win[1], win[2] - bandsH>>

displayedSize(len, z) == maxU32(1, U(len * z) \div 100)

\* destLayout: what of the zoomed length is drawn
destLen(vp, disp) == minU32(disp, vp - (IF disp < vp THEN (vp - disp) \div 2 ELSE 0))

panMax(len, disp, vp) ==
    IF disp <= vp THEN 0
    ELSE len - minU32(len, maxU32(1, U(vp * len) \div disp))

applyDelta(cur, delta, max) ==
    LET next == cur + delta IN IF next < 0 THEN 0 ELSE IF next > max THEN max ELSE next

clampOrigin(origin, len, disp, vp) == minU32(origin, panMax(len, disp, vp))

stepZoom(idx, dir) ==
    CASE dir = "in" -> minU32(idx + 1, Len(zoomTable))
      [] dir = "out" -> maxU32(idx - 1, 1)
      [] OTHER -> zoomDefaultIdx

-----------------------------------------------------------------------------
(* Loading: main.go *)

headerSize(claim) ==
    IF claim = {} THEN <<320, 240>> ELSE LET d == CHOOSE d \in claim : TRUE IN chooseWindowSize(d[1], d[2])

\* readImage: a file that fills the cap is probed for one more byte
readImage(size) == IF size > fileMax THEN "too large" ELSE "okay"

\* load: the decoder answers for the bytes that were read
loadPicture(bytes, decoded) ==
    IF readImage(bytes) # "okay" THEN [st |-> readImage(bytes), img |-> <<>>]
    ELSE IF decoded = {} THEN [st |-> "undecoded", img |-> <<>>]
    ELSE LET d == CHOOSE d \in decoded : TRUE IN
         IF U(d[1] * d[2]) > pixelsMax THEN [st |-> "too large", img |-> <<>>]
         ELSE [st |-> "okay", img |-> d]

LoadResults ==
    {[st |-> s, img |-> <<>>] : s \in {"none", "open failed", "read failed"}}
    \cup {loadPicture(n, d) : n \in FileSizes, d \in {{}} \cup {{p} : p \in Pictures}}

vwInit ==
    \E claim \in {{}} \cup {{c} : c \in Claims}, l \in LoadResults :
        vw = [win |-> headerSize(claim), st |-> l.st, img |-> l.img,
              zoom |-> zoomDefaultIdx, at |-> <<0, 0>>, drag |-> <<>>, exit |-> FALSE, keys |-> 0]

-----------------------------------------------------------------------------
(* Keys and the pointer *)

Disp(v, a) == displayedSize(v.img[a], zoomTable[v.zoom])

Vp(v, a) == viewportRect(v.win)[a]

Limit(v, a) == panMax(v.img[a], Disp(v, a), Vp(v, a))

recenterClamp(v) ==
    IF v.img = <<>> THEN v
    ELSE [v EXCEPT !.at = [a \in 1 .. 2 |-> clampOrigin(@[a], v.img[a], Disp(v, a), Vp(v, a))]]

\* Plausible mistake: the origin of the old zoom is kept
zoom_keeps_origin(v, dir) == [v EXCEPT !.zoom = stepZoom(@, dir)]

applyZoom(v, dir) ==
    LET idx == stepZoom(v.zoom, dir) IN
    IF idx = v.zoom THEN v ELSE recenterClamp([v EXCEPT !.zoom = idx])

\* panBy: an eighth of what is visible
panBy(v, dir) ==
    LET step(a) == maxU32(1, (U(Vp(v, a) * 100) \div Disp(v, a)) \div 8) IN
    IF v.img = <<>> THEN v
    ELSE [v EXCEPT !.at = [a \in 1 .. 2 |-> applyDelta(@[a], dir[a] * step(a), Limit(v, a))]]

Trunc(n, d) == IF n < 0 THEN -((-n) \div d) ELSE n \div d

\* dragPan: from where the button went down, whatever happened since
dragPan(v, to) ==
    LET moved(a) == Trunc((to[a] - v.drag.from[a]) * 100, Disp(v, a)) IN
    IF v.img = <<>> THEN v
    ELSE [v EXCEPT !.at = [a \in 1 .. 2 |-> applyDelta(v.drag.at[a], -moved(a), Limit(v, a))]]

Step(v) ==
    /\ ~vw.exit /\ vw.keys < MaxViewKeys
    /\ vw' = [v EXCEPT !.keys = @ + 1]

ZoomKey == \E dir \in {"in", "out", "reset"} : Step(applyZoom(vw, dir))

PanKey == \E dir \in {<<-1, 0>>, <<1, 0>>, <<0, -1>>, <<0, 1>>} : Step(panBy(vw, dir))

MouseDown == \E p \in DragTo : Step([vw EXCEPT !.drag = [from |-> p, at |-> vw.at]])

MouseMove == \E p \in DragTo : vw.drag # <<>> /\ Step(dragPan(vw, p))

MouseUp == vw.drag # <<>> /\ Step([vw EXCEPT !.drag = <<>>])

ViewResized == \E s \in WinSizes : Step(recenterClamp([vw EXCEPT !.win = s]))

\* q, Esc, WIN_CLOSE and a lost event queue all leave
ViewQuit == ~vw.exit /\ vw' = [vw EXCEPT !.exit = TRUE]

vwNext == ZoomKey \/ PanKey \/ MouseDown \/ MouseMove \/ MouseUp \/ ViewResized \/ ViewQuit

-----------------------------------------------------------------------------
(* Properties *)

\* blit, one axis: the source pixel of each drawn one; it stops past the end
Sources(v, a) ==
    [d \in 0 .. destLen(Vp(v, a), Disp(v, a)) - 1 |-> v.at[a] + U(d * v.img[a]) \div Disp(v, a)]

\* Whatever dimensions a header claims, the window opened is within the bounds.
WindowFits ==
    \A c \in Claims, a \in 1 .. 2 : headerSize({c})[a] \in winMin[a] .. winMax[a]

\* After any mix of zooms, pans, drags and resizes the origin is one the view
\* can show from: a picture that fits is shown from its corner, and one that
\* does not leaves less than one of its pixels of the viewport undrawn.
ViewFilled ==
    vw.img # <<>> =>
        \A a \in 1 .. 2 :
            /\ vw.at[a] <= Limit(vw, a)
            /\ Disp(vw, a) <= Vp(vw, a) => vw.at[a] = 0
            /\ LET s == Sources(vw, a) IN
               Cardinality({d \in DOMAIN s : s[d] >= vw.img[a]})
                   <= Disp(vw, a) \div vw.img[a]

\* The viewer opens a window of a legal size and keeps the picture in it.
ViewerBounded == WindowFits /\ ViewFilled
=============================================================================
