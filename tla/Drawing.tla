------------------------------- MODULE Drawing -------------------------------
(***************************************************************************)
(* The drawing calls of a cart and the state they share (gfx.cpp): the     *)
(* screen, the sprite sheet, the map, the flags of the sprites, and the    *)
(* draw state that one call leaves to the next.                            *)
(***************************************************************************)
EXTENDS Shapes

CONSTANTS
    Poked,                          \* features and bitplanes a cart has poked
    Windows, Cameras, FillPatterns,     \* arguments of clip, camera and fillp
    Inks,                           \* colour arguments
    Spots, Corners, Segments, Radii,  \* arguments of the drawing calls
    SpriteCalls, StretchCalls, MapCalls,
    FirstSheet, FirstCels,          \* what the cart holds
    MaxSettings, MaxDraws           \* bounds: calls of each sort

Sprites == 0 .. PerRow * PerRow - 1
Layers == 0 .. 1

ASSUME DrawingConstants ==
    /\ Side <= 255 /\ NoArg \notin Int
    /\ FirstSheet \in [Points -> Colours] /\ FirstCels \in [Cells -> Nat]
    /\ \A k \in Poked : /\ k.writes \in Colours /\ k.shows \in Colours
                       /\ k.fillpFlag \in BOOLEAN /\ k.spriteZero \in BOOLEAN
    /\ Windows \subseteq Int \X Int \X Int \X Int
    /\ Cameras \subseteq [x : Int, y : Int]
    /\ FillPatterns \subseteq [fill : FillPattern, trans : BOOLEAN]
    /\ \A c \in Inks : c # NoArg =>
          c \in [pen : 0 .. 255, observe : BOOLEAN, fill : FillPattern, trans : BOOLEAN]
    /\ Spots \subseteq Int \X Int
    /\ Corners \cup Segments \subseteq Int \X Int \X Int \X Int
    /\ Radii \subseteq Int
    /\ \A s \in SpriteCalls : /\ s.n \in Nat /\ s.x \in Int /\ s.y \in Int
                             /\ s.w \in Nat /\ s.h \in Nat /\ s.flipX \in BOOLEAN /\ s.flipY \in BOOLEAN

VARIABLES
    screen, sheet, cels, flags,
    ds,      \* m_ram.draw_state
    last,    \* the last call and its arguments, after the camera
    settings, draws

drawVars == <<screen, sheet, cels, flags, ds, last, settings, draws>>

Origin == [x |-> 0, y |-> 0]
WholeScreen == [x1 |-> 0, y1 |-> 0, x2 |-> Side, y2 |-> Side]

DrawInit ==
    /\ screen = [p \in Points |-> 0]
    /\ sheet = FirstSheet
    /\ cels = FirstCels
    /\ flags = [n \in Sprites |-> {}]
    /\ \E k \in Poked :
          ds = [pen |-> 6, pal |-> [c \in Colours |-> c], clear |-> [c \in Colours |-> c = 0],
                fill |-> {}, trans |-> FALSE, clip |-> WholeScreen, camera |-> Origin,
                poly |-> Origin, bootstrap |-> FALSE, fillpFlag |-> k.fillpFlag,
                spriteZero |-> k.spriteZero, writes |-> k.writes, shows |-> k.shows]
    /\ last = [call |-> "none"]
    /\ settings = 0 /\ draws = 0
-----------------------------------------------------------------------------
(* Calls that set the draw state or what is drawn from.                    *)

Setting ==
    /\ settings < MaxSettings
    /\ settings' = settings + 1
    /\ last' = [call |-> "setting"]
    /\ UNCHANGED draws

Byte(n) == n % 256

ClipReset == Setting /\ ds' = [ds EXCEPT !.clip = WholeScreen] /\ UNCHANGED <<screen, sheet, cels, flags>>

\* clip(x, y, w, h, intersect).  A far side that is negative, or past what the cart's
\* numbers hold, comes out past the screen.
Clip(w, intersect) ==
    LET old == IF intersect THEN ds.clip ELSE WholeScreen
    IN  /\ Setting
        /\ ds' = [ds EXCEPT !.clip = [
              x1 |-> Byte(Greater(old.x1, w[1])),
              y1 |-> Byte(Greater(old.y1, w[2])),
              x2 |-> Byte(Lesser(old.x2, Short(w[1] + Greater(w[3], 0)))),
              y2 |-> Byte(Lesser(old.y2, Short(w[2] + Greater(w[4], 0))))]]
        /\ UNCHANGED <<screen, sheet, cels, flags>>

Cls(c) ==
    /\ Setting
    /\ screen' = [p \in Points |-> c % 16]
    /\ ds' = [ds EXCEPT !.clip = WholeScreen]
    /\ UNCHANGED <<sheet, cels, flags>>

Camera(c) == Setting /\ ds' = [ds EXCEPT !.camera = c] /\ UNCHANGED <<screen, sheet, cels, flags>>

Color(c) ==
    /\ Setting
    /\ ds' = IF c = NoArg THEN [ds EXCEPT !.pen = 6] ELSE Pen(ds, c)
    /\ UNCHANGED <<screen, sheet, cels, flags>>

Fillp(f) ==
    /\ Setting
    /\ ds' = [ds EXCEPT !.fill = f.fill, !.trans = f.trans]
    /\ UNCHANGED <<screen, sheet, cels, flags>>

PalReset ==
    /\ Setting
    /\ ds' = [ds EXCEPT !.pal = [c \in Colours |-> c], !.clear = [c \in Colours |-> c = 0],
                        !.fill = {}, !.trans = FALSE]
    /\ UNCHANGED <<screen, sheet, cels, flags>>

\* pal(c0, c1): transparency stays with the colour.
Pal(c0, c1) ==
    /\ Setting
    /\ ds' = [ds EXCEPT !.pal[c0 % 16] = c1 % 16]
    /\ UNCHANGED <<screen, sheet, cels, flags>>

PaltSet(colours) ==
    /\ Setting
    /\ ds' = [ds EXCEPT !.clear = [c \in Colours |-> c \in colours]]
    /\ UNCHANGED <<screen, sheet, cels, flags>>

Palt(c, on) ==
    /\ Setting
    /\ ds' = [ds EXCEPT !.clear[c % 16] = on]
    /\ UNCHANGED <<screen, sheet, cels, flags>>

\* fset(n, bits)
FsetAll(n, bits) ==
    /\ Setting
    /\ flags' = [flags EXCEPT ![n] = bits]
    /\ UNCHANGED <<screen, sheet, cels, ds>>

\* fset(n, f, on)
Fset(n, f, on) ==
    /\ Setting
    /\ flags' = [flags EXCEPT ![n] = IF on THEN @ \cup {f} ELSE @ \ {f}]
    /\ UNCHANGED <<screen, sheet, cels, ds>>

\* mset outside the map does nothing.
Mset(x, y, n) ==
    /\ Setting
    /\ cels' = IF <<x, y>> \in Cells THEN [cels EXCEPT ![<<x, y>>] = n] ELSE cels
    /\ UNCHANGED <<screen, sheet, flags, ds>>

\* sset takes the pen when it is given no colour, and the palette either way.
Sset(x, y, c) ==
    /\ Setting
    /\ sheet' = IF <<x, y>> \in Points
                THEN [sheet EXCEPT ![<<x, y>>] = ds.pal[(IF c = NoArg THEN ds.pen ELSE c) % 16]]
                ELSE sheet
    /\ UNCHANGED <<screen, cels, flags, ds>>

\* line with no or one argument: the next line starts nowhere.
LineReset(c) ==
    /\ Setting
    /\ ds' = [Pen(ds, c) EXCEPT !.bootstrap = TRUE]
    /\ UNCHANGED <<screen, sheet, cels, flags>>
-----------------------------------------------------------------------------
(* Calls that draw.                                                        *)

CamX(x) == Short(x - ds.camera.x)
CamY(y) == Short(y - ds.camera.y)

Draw(name, args) ==
    /\ draws < MaxDraws
    /\ draws' = draws + 1
    /\ last' = [call |-> name, args |-> args]
    /\ UNCHANGED <<settings, sheet, cels, flags>>

\* The window ends on the screen.
OnScreen(d) == d.clip.x2 <= Side /\ d.clip.y2 <= Side

\* The pen draws these points.  (Where rows run over into others a pattern depends on
\* which is drawn first, and is left out.)
Ink(d, pts) ==
    /\ OnScreen(d) \/ d.fill = {}
    /\ screen' = Paint(screen, d, pts, RawToBits(d, d.pen))

\* A call that draws these points with the pen and the pattern of d, unless it is
\* off the screen: then it does not even set the pen.
Fill(off, d, pts) ==
    IF off THEN UNCHANGED <<ds, screen>> ELSE ds' = d /\ Ink(d, pts)

CallPset(p, c) ==
    LET q == <<CamX(p[1]), CamY(p[2])>>
        d == Pen(ds, c)
    IN  Draw("pset", q) /\ Fill(FALSE, d, Dots(d, {q}))

\* The end of a line is kept where it was before the camera.  A line that follows
\* line() draws nothing.
LineFrom(x0, y0, x1, y1, c) ==
    LET d == Pen(ds, c)
        a == <<CamX(x0), CamY(y0), CamX(x1), CamY(y1)>>
    IN  /\ Draw(IF ds.bootstrap THEN "none" ELSE "line", a)
        /\ ds' = [d EXCEPT !.poly = [x |-> x1, y |-> y1], !.bootstrap = FALSE]
        /\ IF ds.bootstrap THEN UNCHANGED screen ELSE Ink(d, Line(d, a[1], a[2], a[3], a[4]))

CallLine(s, c) == LineFrom(s[1], s[2], s[3], s[4], c)
CallLineTo(p, c) == LineFrom(ds.poly.x, ds.poly.y, p[1], p[2], c)

CallCirc(p, r, c, filled) ==
    LET x == CamX(p[1])
        y == CamY(p[2])
        d == Pen(ds, c)
    IN  /\ Draw("circ", <<x, y, r>>)
        /\ Fill(Off(x - r, y - r, x + r, y + r), d,
                IF filled THEN CircFill(d, x, y, r) ELSE Circ(d, x, y, r))

\* The four shapes that are given two corners.
BoxShapes == {"rect", "rectfill", "oval", "ovalfill"}
Shape(name, d, a) ==
    CASE name = "rect"     -> Rect(d, a[1], a[2], a[3], a[4])
      [] name = "rectfill" -> RectFill(d, a[1], a[2], a[3], a[4])
      [] name = "oval"     -> Oval(d, a[1], a[2], a[3], a[4])
      [] name = "ovalfill" -> OvalFill(d, a[1], a[2], a[3], a[4])

\* rectfill looks at the columns only.
OffBox(name, a) ==
    \/ Greater(a[1], a[3]) < 0 \/ Lesser(a[1], a[3]) >= Side
    \/ name # "rectfill" /\ (Greater(a[2], a[4]) < 0 \/ Lesser(a[2], a[4]) >= Side)

CallBox(name, b, c) ==
    LET a == <<CamX(b[1]), CamY(b[2]), CamX(b[3]), CamY(b[4])>>
        d == Pen(ds, c)
    IN  Draw(name, a) /\ Fill(OffBox(name, a), d, Shape(name, d, a))

\* Corner, size and the radius of the corners.
CallRRect(b, r, c, filled) ==
    LET x == CamX(b[1])  w == b[3] - b[1] + 1
        y == CamY(b[2])  h == b[4] - b[2] + 1
        d == Pen(ds, c)
    IN  /\ Draw("rrect", <<x, y, w, h, r>>)
        /\ Fill(w <= 0 \/ h <= 0 \/ Off(x, y, x + w - 1, y + h - 1), d,
                IF filled THEN RRectFill(d, x, y, w, h, r) ELSE RRect(d, x, y, w, h, r))

Show(image) == screen' = Blit(screen, ds, image) /\ UNCHANGED ds

CallSpr(s) ==
    /\ Draw("spr", s)
    /\ Show(Spr(ds, sheet, s.n, CamX(s.x), CamY(s.y), s.w, s.h, s.flipX, s.flipY))

CallSspr(s) ==
    /\ Draw("sspr", s)
    /\ Show(Sspr(ds, sheet, s.sx, s.sy, s.sw, s.sh, CamX(s.x), CamY(s.y), s.w, s.h, s.flipX, s.flipY))

\* A size that is left out is that of the map.
CallMap(m) ==
    /\ Draw("map", m)
    /\ Show(Map(ds, sheet, cels, flags, m.cx, m.cy, CamX(m.x), CamY(m.y),
                IF m.w = NoArg THEN MapSide ELSE m.w, IF m.h = NoArg THEN MapSide ELSE m.h, m.layer))
-----------------------------------------------------------------------------
DrawNext ==
    \/ ClipReset \/ PalReset
    \/ \E w \in Windows, i \in BOOLEAN : Clip(w, i)
    \/ \E c \in Inks : Color(c) \/ LineReset(c)
    \/ Cls(3)
    \/ \E c \in Cameras : Camera(c)
    \/ \E f \in FillPatterns : Fillp(f)
    \/ \E c \in {0, 1} : Pal(c, 1) \/ PaltSet({c}) \/ \E on \in BOOLEAN : Palt(c, on)
    \/ \E f \in Layers : FsetAll(1, {f}) \/ \E on \in BOOLEAN : Fset(1, f, on)
    \/ \E x \in {0, MapSide} : Mset(x, 0, 1)
    \/ \E x \in {0, Side}, c \in {2, NoArg} : Sset(x, 0, c)
    \/ \E c \in Inks :
         \/ \E p \in Spots :
              \/ CallPset(p, c) \/ CallLineTo(p, c)
              \/ \E r \in Radii, f \in BOOLEAN : CallCirc(p, r, c, f)
         \/ \E s \in Segments : CallLine(s, c)
         \/ \E b \in Corners :
              \/ \E name \in BoxShapes : CallBox(name, b, c)
              \/ \E r \in Radii, f \in BOOLEAN : CallRRect(b, r, c, f)
    \/ \E s \in SpriteCalls : CallSpr(s)
    \/ \E s \in StretchCalls : CallSspr(s)
    \/ \E m \in MapCalls : CallMap(m)

DrawSpec == DrawInit /\ [][DrawNext]_drawVars
-----------------------------------------------------------------------------
(* Properties.                                                             *)

\* The points that are in the window or, when it ends past the screen, that its rows run
\* over into.
Reached(d, p) == Within(d, p) \/ (~OnScreen(d) /\ \E k \in 1 .. p[2] : Within(d, Name(p, k)))

\* A drawing call changes nothing outside a clip window that ends on the screen, and
\* through another one nothing but what rows of the window run over into; where
\* bitplanes are poked, nothing in the planes that are not written.  This is so
\* whichever path it took: rows, columns and points are clipped and masked by code of
\* their own (hline, vline, set_pixel).
DrawsInsideWindow ==
    [][draws' # draws =>
         \A p \in Points : screen'[p] # screen[p] =>
            /\ Reached(ds, p)
            /\ Fast([ds EXCEPT !.fill = {}])
               \/ Planes(screen'[p], 15 - ds.writes) = Planes(screen[p], 15 - ds.writes)]_drawVars

Box(a) == (Lesser(a[1], a[3]) .. Greater(a[1], a[3])) \X (Lesser(a[2], a[4]) .. Greater(a[2], a[4]))

\* rectfill draws the points between its corners that are in the window, if it ends on
\* the screen, and no others, whatever the parity of the columns at its ends: bytes hold
\* two points (hline's fast path), and the slow path draws the same.
FillsExactly ==
    last.call \in {"rect", "rectfill"} /\ OnScreen(ds) =>
        LET a == last.args
        IN  RectFill(ds, a[1], a[2], a[3], a[4]) = Dots(ds, Box(a))

\* The walk of a line from end to end, however far off the screen they are.
Walked(a) ==
    LET major == IF Abs(a[3] - a[1]) >= Abs(a[4] - a[2]) THEN 1 ELSE 2
        one == IF a[major] <= a[major + 2] THEN <<a[1], a[2]>> ELSE <<a[3], a[4]>>
        two == IF a[major] <= a[major + 2] THEN <<a[3], a[4]>> ELSE <<a[1], a[2]>>
        slope == IF one = two THEN 0
                 ELSE Quotient((two[3 - major] - one[3 - major]) * 65536, two[major] - one[major])
        minor(k) == Minor(one[3 - major], slope, k - one[major])
    IN  {IF major = 1 THEN <<k, minor(k)>> ELSE <<minor(k), k>> : k \in one[major] .. two[major]}

\* A line is the same drawn from either end (the comment at api_line promises it),
\* and cutting it to just outside the screen before it is walked loses no point
\* of the whole walk, through a window that ends on the screen.
LineAnyWay ==
    last.call = "line" =>
        LET a == last.args
        IN  /\ Line(ds, a[1], a[2], a[3], a[4]) = Line(ds, a[3], a[4], a[1], a[2])
            /\ OnScreen(ds) => Line(ds, a[1], a[2], a[3], a[4]) = Dots(ds, Walked(a))

\* A sprite drawn with spr and the same rectangle of the sheet drawn with sspr draw the
\* same points, flipped or cut by the screen and the window as they may be; and so does
\* a map that has the sprite in a cell, through a window that ends on the screen.
SpritesAgree ==
    last.call = "spr" =>
        LET s == last.args
            x == CamX(s.x)
            y == CamY(s.y)
        IN  /\ Spr(ds, sheet, s.n, x, y, s.w, s.h, s.flipX, s.flipY)
                  = Sspr(ds, sheet, (s.n % PerRow) * Tile, (s.n \div PerRow) * Tile, s.w, s.h,
                         x, y, s.w, s.h, s.flipX, s.flipY)
            /\ OnScreen(ds) /\ s.w = Tile /\ s.h = Tile /\ ~s.flipX /\ ~s.flipY /\ s.n # 0 =>
                  \A cell \in Cells : cels[cell] = s.n =>
                      Spr(ds, sheet, s.n, x, y, s.w, s.h, FALSE, FALSE)
                        = Map(ds, sheet, cels, flags, cell[1], cell[2], x, y, 1, 1, {})

=============================================================================
