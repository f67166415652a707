-------------------------------- MODULE Shapes --------------------------------
(***************************************************************************)
(* What a drawing call draws: gfx.cpp.                                     *)
(*                                                                         *)
(* Whatever is drawn in one colour is a set of points: writing a point     *)
(* twice in one call changes nothing, and so the order of the writes does  *)
(* not matter.  A sprite is a function from points to colours.  Points     *)
(* have left the camera and are clipped by the call that makes them, as in *)
(* the code, where the fast paths do not go through set_pixel.  A clip     *)
(* window may end past the screen: then so do the points.                  *)
(***************************************************************************)
EXTENDS Integers, FiniteSetsExt

CONSTANTS
    Side,     \* the screen and the sprite sheet are 128 by 128
    Tile,     \* a sprite is 8 by 8
    MapSide,  \* the map, in sprites
    NoArg     \* an argument that is left out

PerRow == Side \div Tile
Points == (0 .. Side - 1) \X (0 .. Side - 1)
Colours == 0 .. 15
Cells == (0 .. MapSide - 1) \X (0 .. MapSide - 1)
FillPattern == SUBSET ((0 .. 3) \X (0 .. 3))

ASSUME ShapesConstants ==
    /\ Tile \in Nat \ {0} /\ Side \in Nat \ {0}
    /\ Side % 2 = 0 /\ Side % Tile = 0
    /\ MapSide \in Nat \ {0}

\* int16_t
Short(n) == ((n + 32768) % 65536) - 32768
Clamp(n, lo, hi) == IF n < lo THEN lo ELSE IF n > hi THEN hi ELSE n
\* C's division, towards zero, by a positive number.
Quotient(n, d) == IF n >= 0 THEN n \div d ELSE -((-n) \div d)
Abs(n) == IF n < 0 THEN -n ELSE n
Lesser(a, b) == IF a < b THEN a ELSE b
Greater(a, b) == IF a > b THEN a ELSE b
-----------------------------------------------------------------------------
(* Colours.                                                                *)

\* The colour bits of a pen: what is drawn on and off the fill pattern.
RawToBits(d, pen) ==
    [on |-> d.pal[pen % 16], off |-> d.pal[pen \div 16], fill |-> d.fill, trans |-> d.trans]

\* to_color_bits: a colour argument becomes the pen, and its pattern the fill
\* pattern when the argument says so and the cart allows it.
Pen(d, c) ==
    IF c = NoArg THEN d
    ELSE IF c.observe /\ d.fillpFlag
         THEN [d EXCEPT !.pen = c.pen, !.fill = c.fill, !.trans = c.trans]
         ELSE [d EXCEPT !.pen = c.pen]

\* The planes of a colour, its bits, that are in a mask: a & b.
Plane(a, b, bit) == IF (a \div bit) % 2 = 1 /\ (b \div bit) % 2 = 1 THEN bit ELSE 0
Planes(a, b) == Plane(a, b, 1) + Plane(a, b, 2) + Plane(a, b, 4) + Plane(a, b, 8)

Plain(colour) == [on |-> colour, off |-> 0, fill |-> {}, trans |-> FALSE]

Within(d, p) ==
    /\ p[1] >= d.clip.x1 /\ p[1] < d.clip.x2
    /\ p[2] >= d.clip.y1 /\ p[2] < d.clip.y2

\* Mutant: the bitplanes that are not written are cleared.
ShadeAllPlanes(d, bits, old, p) ==
    LET hit == <<p[1] % 4, p[2] % 4>> \in bits.fill
        colour == IF hit THEN bits.off ELSE bits.on
    IN  IF hit /\ bits.trans THEN old
        ELSE IF d.writes = 0 /\ d.shows = 0 THEN colour
        ELSE Planes(Planes(colour, d.writes), d.shows)

\* The colour a point of the screen gets: pattern, then bitplanes.
Shade(d, bits, old, p) ==
    LET hit == <<p[1] % 4, p[2] % 4>> \in bits.fill
        colour == IF hit THEN bits.off ELSE bits.on
    IN  IF hit /\ bits.trans THEN old
        ELSE IF d.writes = 0 /\ d.shows = 0 THEN colour
        ELSE Planes(old, 15 - d.writes) + Planes(Planes(colour, d.writes), d.shows)

\* The screen's rows follow each other in memory: a point k screens past the end of
\* its row is in the k-th row below.  This is the k-th such name of point q, and those
\* that are drawn; past the last row is memory that is not the screen's.
Name(q, k) == <<q[1] + k * Side, q[2] - k>>
Drawn(d, pts, q) == {k \in 0 .. Lesser(q[2], (d.clip.x2 - 1) \div Side) : Name(q, k) \in pts}

\* Points drawn in one colour.
Paint(scr, d, pts, bits) ==
    [q \in Points |->
        LET ks == Drawn(d, pts, q)
        IN  IF ks = {} THEN scr[q] ELSE Shade(d, bits, scr[q], Name(q, Min(ks)))]

\* Points with colours of their own, a sprite's: no fill pattern.  Rows are drawn from
\* the top down.
Blit(scr, d, image) ==
    [q \in Points |->
        LET ks == Drawn(d, DOMAIN image, q)
        IN  IF ks = {} THEN scr[q]
            ELSE Shade(d, Plain(image[Name(q, Min(ks))]), scr[q], Name(q, Min(ks)))]
-----------------------------------------------------------------------------
(* Points and lines.                                                       *)

\* set_pixel, for each of these.
Dots(d, pts) == {p \in pts : Within(d, p)}

\* Are pattern and bitplanes out of the way?
Fast(d) == d.fill = {} /\ d.writes = 0 /\ d.shows = 0

\* Mutant: the last byte is taken for whole.
HLineWholeByte(d, xa, xb, y) ==
    LET x1 == Greater(Lesser(xa, xb), d.clip.x1)
        x2 == Lesser(Greater(xa, xb), d.clip.x2 - 1)
    IN  IF y < d.clip.y1 \/ y >= d.clip.y2 \/ x1 > x2 THEN {}
        ELSE IF ~Fast(d) THEN Dots(d, (x1 .. x2) \X {y})
        ELSE LET lo == IF x1 % 2 = 1 THEN x1 + 1 ELSE x1
             IN  ({x \in {x1} : x1 % 2 = 1}
                    \cup (2 * (lo \div 2)) .. (2 * (x2 \div 2) + 1)) \X {y}

\* A row, two points to the byte: the odd first and the even last are set alone,
\* the bytes between them at once.
HLine(d, xa, xb, y) ==
    LET x1 == Greater(Lesser(xa, xb), d.clip.x1)
        x2 == Lesser(Greater(xa, xb), d.clip.x2 - 1)
    IN  IF y < d.clip.y1 \/ y >= d.clip.y2 \/ x1 > x2 THEN {}
        ELSE IF ~Fast(d) THEN Dots(d, (x1 .. x2) \X {y})
        ELSE LET lo == IF x1 % 2 = 1 THEN x1 + 1 ELSE x1
                 hi == IF x2 % 2 = 0 THEN x2 - 1 ELSE x2
                 bytes == Quotient(hi - lo + 1, 2)
             IN  ({x \in {x1} : x1 % 2 = 1} \cup {x \in {x2} : x2 % 2 = 0}
                    \cup (2 * (lo \div 2)) .. (2 * (lo \div 2 + bytes) - 1)) \X {y}

VLine(d, x, ya, yb) ==
    LET y1 == Greater(Lesser(ya, yb), d.clip.y1)
        y2 == Lesser(Greater(ya, yb), d.clip.y2 - 1)
    IN  IF x < d.clip.x1 \/ x >= d.clip.x2 \/ y1 > y2 THEN {} ELSE {x} \X (y1 .. y2)

HLines(d, spans) == UNION {HLine(d, s[1], s[2], s[3]) : s \in spans}

\* The minor coordinate of a line at step k: slope and position in 16.16.
Minor(from, slope, k) == Short(from + ((slope * k + 32768) \div 65536))

\* Mutant: the slope is rounded and not cut off, and by the direction drawn.
LineAsDrawn(d, x0, y0, x1, y1) ==
    LET xs == Clamp(x0, -1, Side)
        ys == Clamp(y0, -1, Side)
        xe == Clamp(x1, -1, Side)
        ye == Clamp(y1, -1, Side)
        along(a, b) == Lesser(a, b) .. Greater(a, b)
        slope(n, m) == IF m > 0 THEN Quotient(n * 65536, m) ELSE Quotient(-n * 65536, -m)
    IN  IF Abs(x1 - x0) >= Abs(y1 - y0)
        THEN Dots(d, {<<x, IF x = xs THEN ys
                           ELSE Minor(y0, slope(y1 - y0, x1 - x0), x - x0)>> :
                        x \in along(xs, xe)})
        ELSE Dots(d, {<<IF y = ys THEN xs
                        ELSE Minor(x0, slope(x1 - x0, y1 - y0), y - y0), y>> :
                        y \in along(ys, ye)})

\* A line is walked along its major axis, in increasing order, from just outside
\* the screen to just outside it.
Line(d, xa, ya, xb, yb) ==
    LET horiz == Abs(xb - xa) >= Abs(yb - ya)
        swapped == IF horiz THEN xa > xb ELSE ya > yb
        x0 == IF swapped THEN xb ELSE xa
        y0 == IF swapped THEN yb ELSE ya
        x1 == IF swapped THEN xa ELSE xb
        y1 == IF swapped THEN ya ELSE yb
        xs == Clamp(x0, -1, Side)
        ys == Clamp(y0, -1, Side)
    IN  IF horiz
        THEN LET slope == IF x1 = x0 THEN 0 ELSE Quotient((y1 - y0) * 65536, x1 - x0)
             IN  Dots(d, {<<x, IF x = xs THEN ys ELSE Minor(y0, slope, x - x0)>> :
                            x \in xs .. Clamp(x1, -1, Side)})
        ELSE LET slope == Quotient((x1 - x0) * 65536, y1 - y0)
             IN  Dots(d, {<<IF y = ys THEN xs ELSE Minor(x0, slope, y - y0), y>> :
                            y \in ys .. Clamp(y1, -1, Side)})
-----------------------------------------------------------------------------
(* Shapes.                                                                 *)

Off(x0, y0, x1, y1) == x1 < 0 \/ x0 >= Side \/ y1 < 0 \/ y0 >= Side

\* The midpoint walk over an eighth of a circle: a round of it, its rounds, and where
\* it has been when it ends.
Round(r, w) ==
    IF w.err < r - 1
    THEN [dx |-> w.dx, dy |-> w.dy + 1, err |-> w.err + 1 + 2 * (w.dy + 1)]
    ELSE [dx |-> w.dx - 1, dy |-> w.dy + 1, err |-> w.err + 1 + 2 * ((w.dy + 1) - (w.dx - 1))]

Walk(r) ==
    LET walk[k \in 0 .. Greater(r, 0)] ==
            IF k = 0 THEN [dx |-> r, dy |-> 0, err |-> 0] ELSE Round(r, walk[k - 1])
    IN  walk

Octant(r) ==
    LET walk == Walk(r)
    IN  {<<walk[k].dx, walk[k].dy>> : k \in {n \in 0 .. Greater(r, 0) : walk[n].dx >= walk[n].dy}}

Circ(d, x, y, r) ==
    IF Off(x - r, y - r, x + r, y + r) THEN {}
    ELSE Dots(d, {<<x + e[1] * o[e[3]], y + e[2] * o[3 - e[3]]>> :
                    o \in Octant(r), e \in {-1, 1} \X {-1, 1} \X {1, 2}})

CircFill(d, x, y, r) ==
    IF Off(x - r, y - r, x + r, y + r) THEN {}
    ELSE HLines(d, {<<x - o[e[2]], x + o[e[2]], y + e[1] * o[3 - e[2]]>> :
                      o \in Octant(r), e \in {-1, 1} \X {1, 2}})

\* round(a * sqrt(1 - (k / b)^2))
Extent(a, b, k) ==
    IF b = 0 THEN a
    ELSE Max({n \in 0 .. a :
                n > 0 => (2 * n - 1) * (2 * n - 1) * b * b <= 4 * a * a * (b * b - k * k)})

\* An even span is folded on a middle that is drawn twice.
SemiAxis(span) == (span - 1) \div 2

Oval(d, xa, ya, xb, yb) ==
    LET x0 == Lesser(xa, xb)  x1 == Greater(xa, xb)
        y0 == Lesser(ya, yb)  y1 == Greater(ya, yb)
        aw == SemiAxis(x1 - x0 + 1)
        bh == SemiAxis(y1 - y0 + 1)
        quarter == {<<Extent(aw, bh, fy), fy>> : fy \in 0 .. bh}
                     \cup {<<fx, Extent(bh, aw, fx)>> : fx \in 0 .. aw}
    IN  IF Off(x0, y0, x1, y1) THEN {}
        ELSE Dots(d, UNION {{x0 + aw - f[1], x1 - aw + f[1]} \X {y0 + bh - f[2], y1 - bh + f[2]} :
                              f \in quarter})

OvalFill(d, xa, ya, xb, yb) ==
    LET x0 == Lesser(xa, xb)  x1 == Greater(xa, xb)
        y0 == Lesser(ya, yb)  y1 == Greater(ya, yb)
        aw == SemiAxis(x1 - x0 + 1)
        bh == SemiAxis(y1 - y0 + 1)
        wide(fy) == Max({Extent(aw, bh, fy)}
                          \cup {fx \in 0 .. aw : Extent(bh, aw, fx) >= fy})
    IN  IF Off(x0, y0, x1, y1) THEN {}
        ELSE HLines(d, UNION {{<<x0 + aw - wide(fy), x1 - aw + wide(fy), y>> :
                                 y \in {y0 + bh - fy, y1 - bh + fy}} : fy \in 0 .. bh})

Rect(d, xa, ya, xb, yb) ==
    LET x0 == Lesser(xa, xb)  x1 == Greater(xa, xb)
        y0 == Lesser(ya, yb)  y1 == Greater(ya, yb)
    IN  IF Off(x0, y0, x1, y1) THEN {}
        ELSE HLines(d, {<<x0, x1, y0>>, <<x0, x1, y1>>})
               \cup IF y0 + 1 >= y1 THEN {}
                    ELSE VLine(d, x0, y0 + 1, y1 - 1) \cup VLine(d, x1, y0 + 1, y1 - 1)

RectFill(d, xa, ya, xb, yb) ==
    LET y0 == Clamp(Lesser(ya, yb), -1, 32767)
        y1 == Clamp(Greater(ya, yb), -32768, Side)
        off == IF xa > xb THEN xa < 0 \/ xb >= Side ELSE xb < 0 \/ xa >= Side
    IN  IF off THEN {} ELSE HLines(d, {xa} \X {xb} \X (y0 .. y1))
-----------------------------------------------------------------------------
(* Rectangles with rounded corners: r is at most half a side.              *)

Inset(py, y0, y1, r) ==
    LET dy == IF py < y0 + r THEN y0 + r - py
              ELSE IF py > y1 - r THEN py - (y1 - r) ELSE 0
    IN  IF r <= 0 \/ dy = 0 THEN 0
        ELSE r - Max({run \in 0 .. r : run = 0 \/ run * run <= r * r - dy * dy})

Radius(w, h, r) == Clamp(r, 0, Lesser(w, h) \div 2)

RRectFill(d, x0, y0, w, h, r) ==
    LET x1 == x0 + w - 1
        y1 == y0 + h - 1
        ins(py) == Inset(py, y0, y1, Radius(w, h, r))
    IN  IF w <= 0 \/ h <= 0 \/ Off(x0, y0, x1, y1) THEN {}
        ELSE HLines(d, {<<x0 + ins(py), x1 - ins(py), py>> :
                          py \in Greater(y0, 0) .. Lesser(y1, Side - 1)})

\* A row of the outline reaches the neighbour that sits further in.
RRect(d, x0, y0, w, h, r) ==
    LET x1 == x0 + w - 1
        y1 == y0 + h - 1
        ins(py) == Inset(py, y0, y1, Radius(w, h, r))
        outer(py) == Greater(Greater(ins(py - 1), ins(py + 1)) - 1, ins(py))
        row(py) == IF py \in {y0, y1} THEN {<<x0 + ins(py), x1 - ins(py), py>>}
                   ELSE {<<x0 + ins(py), x0 + outer(py), py>>, <<x1 - outer(py), x1 - ins(py), py>>}
    IN  IF w <= 0 \/ h <= 0 \/ Off(x0, y0, x1, y1) THEN {}
        ELSE HLines(d, UNION {row(py) : py \in Greater(y0, 0) .. Lesser(y1, Side - 1)})
-----------------------------------------------------------------------------
(* Sprites and the map.                                                    *)

\* u4mat2::safe_get
Texel(sheet, x, y) == IF <<x, y>> \in Points THEN sheet[<<x, y>>] ELSE 0

\* The image that has texel source[p] at point p, where it is not transparent.
Image(d, source) ==
    LET seen == {p \in Dots(d, DOMAIN source) : ~d.clear[source[p]]}
    IN  [p \in seen |-> d.pal[source[p]]]

\* Mutant: a wide sprite is flipped tile by tile.
SprFlipsTile(d, sheet, n, x, y, w, h, flipX, flipY) ==
    LET texel(p) ==
            LET i == p[1] - x  j == p[2] - y
            IN  Texel(sheet, (n % PerRow) * Tile + (IF flipX THEN Tile - 1 - i ELSE i),
                             (n \div PerRow) * Tile + (IF flipY THEN Tile - 1 - j ELSE j))
    IN  IF x + w <= 0 \/ x >= Side \/ y + h <= 0 \/ y >= Side THEN << >>
        ELSE Image(d, [p \in (x .. x + w - 1) \X (y .. y + h - 1) |-> texel(p)])

Spr(d, sheet, n, x, y, w, h, flipX, flipY) ==
    LET texel(p) ==
            LET i == p[1] - x  j == p[2] - y
            IN  Texel(sheet, (n % PerRow) * Tile + (IF flipX THEN w - 1 - i ELSE i),
                             (n \div PerRow) * Tile + (IF flipY THEN h - 1 - j ELSE j))
    IN  IF x + w <= 0 \/ x >= Side \/ y + h <= 0 \/ y >= Side THEN << >>
        ELSE Image(d, [p \in (x .. x + w - 1) \X (y .. y + h - 1) |-> texel(p)])

\* A texel is taken at the middle of the point; the ratio is in 16.16.
Sample(from, ratio, i) == from + ((2 * i + 1) * ratio) \div 131072

\* A negative size flips the target, which then ends before the anchor.
Sspr(d, sheet, sx, sy, sw, sh, xa, ya, wa, ha, flipX, flipY) ==
    LET w == Abs(wa)  x == IF wa < 0 THEN xa - w ELSE xa
        h == Abs(ha)  y == IF ha < 0 THEN ya - h ELSE ya
        fx == flipX # (wa < 0)
        fy == flipY # (ha < 0)
        texel(p) ==
            LET i == p[1] - x  j == p[2] - y
            IN  Texel(sheet,
                    Sample(sx, Quotient(sw * 65536, w), IF fx THEN w - 1 - i ELSE i),
                    Sample(sy, Quotient(sh * 65536, h), IF fy THEN h - 1 - j ELSE j))
    IN  IF w = 0 \/ h = 0 \/ x + w <= 0 \/ x >= Side \/ y + h <= 0 \/ y >= Side THEN << >>
        ELSE Image(d, [p \in (x .. x + w - 1) \X (y .. y + h - 1) |-> texel(p)])

\* A rectangle of the map, cut to the screen before it is walked.
Map(d, sheet, cels, flags, cx, cy, xa, ya, cw, ch, layer) ==
    LET mx == Greater(-xa, 0)
        my == Greater(-ya, 0)
        x == xa + mx
        y == ya + my
        sx == cx * Tile + mx
        sy == cy * Tile + my
        w == cw * Tile - mx - Greater(cw * Tile + xa - Side, 0)
        h == ch * Tile - my - Greater(ch * Tile + ya - Side, 0)
        atX(p) == sx + p[1] - x
        atY(p) == sy + p[2] - y
        cell(p) == <<Quotient(atX(p), Tile), Quotient(atY(p), Tile)>>
        seen(p) ==
            /\ atX(p) >= 0 /\ atX(p) < MapSide * Tile
            /\ atY(p) >= 0 /\ atY(p) < MapSide * Tile
            /\ layer = {} \/ flags[cels[cell(p)]] \cap layer # {}
            /\ cels[cell(p)] # 0 \/ d.spriteZero
        texel(p) == Texel(sheet, (cels[cell(p)] % PerRow) * Tile + (atX(p) % Tile),
                                 (cels[cell(p)] \div PerRow) * Tile + (atY(p) % Tile))
    IN  IF h <= 0 \/ w <= 0 THEN << >>
        ELSE Image(d, [p \in {q \in (x .. x + w - 1) \X (y .. y + h - 1) : seen(q)} |-> texel(p)])
=============================================================================
