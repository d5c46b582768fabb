----------------------------- MODULE ImageResize -----------------------------
(***************************************************************************)
(* resize.c: the bilinear lookup table that preprocess() builds from the     *)
(* first camera frame, and the two resizers that read it for every frame.    *)
(* Both are linear in the pixels, so an output byte is modelled by the       *)
(* weights (of 256) it gives to the bytes of the input image, for all        *)
(* images at once.  The floats are exact rationals, off by at most one part  *)
(* in K of an output step, less than 1/256 of a pixel: dx and dy are the     *)
(* roundings of x_r*u and y_r*v, which move a position that should be whole  *)
(* to just beside it.                                                        *)
(***************************************************************************)
EXTENDS Integers

CONSTANTS
    InSizes,    \* widths and heights of the camera image
    OutSizes,   \* widths and heights of the input tensor of the model
    K           \* inverse of the rounding error

ASSUME ImageResizeAssumption ==
    /\ InSizes \subseteq Nat \ {0}
    /\ OutSizes \subseteq Nat \ {0}
    /\ K \in Nat \ {0, 1}
    /\ \A n \in OutSizes : K * n >= 256

VARIABLES
    map,      \* undistort_map_t: w_in, h_in, w_out, h_out
    dx, dy,   \* roundings, per column and per row of the output
    L,        \* the lookup table, one entry per output pixel
    phase,    \* "start", "ready" or "failed" (no memory, L is NULL)
    output    \* [bytes |-> 1 or 3 per pixel, at |-> weights of each byte]

resizeVars == <<map, dx, dy, L, phase, output>>

Below(n) == 0 .. n - 1
Pixels == Below(map.w_out * map.h_out)
Empty == [bytes |-> 1, at |-> <<>>]

ResizeInit ==
    /\ map \in [w_in : InSizes, h_in : InSizes, w_out : OutSizes, h_out : OutSizes]
    /\ dx \in [Below(map.w_out) -> {-1, 0, 1}]
    /\ dy \in [Below(map.h_out) -> {-1, 0, 1}]
    /\ L = <<>>
    /\ phase = "start"
    /\ output = Empty
-----------------------------------------------------------------------------
(***************************************************************************)
(* mcv_init_resize_map.                                                      *)
(***************************************************************************)

\* (Variant: the scale n_in/n_out.)
PositionToTheEdge(n_in, i, e) == IF n_in * i = 0 THEN 0 ELSE n_in * i * K + e

\* x_r*u in units of 1/(K*n_out); a product with zero is exact.
Position(n_in, i, e) == IF (n_in - 1) * i = 0 THEN 0 ELSE (n_in - 1) * i * K + e
Whole(pos, n_out) == pos \div (K * n_out)
Fraction(pos, n_out) == pos % (K * n_out)

\* x_r*u and y_r*v of an output pixel.
SourceSquare(pix) ==
    [x |-> Position(map.w_in, pix % map.w_out, dx[pix % map.w_out]),
     y |-> Position(map.h_in, pix \div map.w_out, dy[pix \div map.w_out])]

\* No 2x2 square of the input starts there.
IsBlank(xl, yl) == xl + 1 > map.w_in - 1 \/ yl + 1 > map.h_in - 1

\* (Variant: the second and third weights are exchanged.)
WeightsExchanged(xw, yw, nx, ny) ==
    LET w(a, b) == ((256 * a * b) \div (nx * ny)) % 256
    IN  <<w(nx - xw, ny - yw), w(nx - xw, yw), w(xw, ny - yw), w(xw, yw)>>

\* The coefficients F[0..3], truncated into a uint8_t: 256 becomes 0.
Weights(xw, yw, nx, ny) ==
    LET w(a, b) == ((256 * a * b) \div (nx * ny)) % 256
    IN  <<w(nx - xw, ny - yw), w(xw, ny - yw), w(nx - xw, yw), w(xw, yw)>>

Entry(pix) ==
    LET p == SourceSquare(pix)
        xl == Whole(p.x, map.w_out)
        yl == Whole(p.y, map.h_out)
    IN  IF IsBlank(xl, yl) THEN [I |-> <<-1, -1>>, F |-> <<>>]
        ELSE [I |-> <<xl, yl>>,
              F |-> Weights(Fraction(p.x, map.w_out), Fraction(p.y, map.h_out),
                            K * map.w_out, K * map.h_out)]

InitResizeMap ==
    /\ phase = "start"
    /\ \/ phase' = "ready"  /\ L' = [pix \in Pixels |-> Entry(pix)]
       \/ phase' = "failed" /\ UNCHANGED L
    /\ UNCHANGED <<map, dx, dy, output>>
-----------------------------------------------------------------------------
(***************************************************************************)
(* mcv_resize_image and mcv_resize_8uc3_image.                               *)
(***************************************************************************)
Blank(pix) == L[pix].I[1] < 0

\* Index of corner 0..3 of the 2x2 square of an output pixel, in a grey image.
Corner(pix, c) == map.w_in * (L[pix].I[2] + (c \div 2)) + L[pix].I[1] + (c % 2)

\* p0*F[0] + p1*F[1] + p2*F[2] + p3*F[3], for the bytes at[0] .. at[3].
Blend(pix, at) ==
    [b \in {at[c] : c \in 0 .. 3} |->
        L[pix].F[1 + CHOOSE c \in 0 .. 3 : at[c] = b]]

GreyPixel(pix) ==
    IF Blank(pix) THEN <<>> ELSE Blend(pix, [c \in 0 .. 3 |-> Corner(pix, c)])

\* (Variant: the red of the lower corners is read one byte further.)
ChannelShifted(pix, k) ==
    Blend(pix, [c \in 0 .. 3 |-> 3 * Corner(pix, c) + ((k + (c \div 2)) % 3)])

\* p7 is the blue byte of the lower left corner and p10 the green byte of the
\* lower right one; the sum for green uses p7 and the sum for blue uses p10.
Channel(pix, k) ==
    Blend(pix, [c \in 0 .. 3 |->
        CASE k = 1 /\ c = 3 -> 3 * Corner(pix, 2) + 2
          [] k = 2 /\ c = 2 -> 3 * Corner(pix, 3) + 1
          [] OTHER          -> 3 * Corner(pix, c) + k])

ResizeGrey ==
    /\ phase = "ready"
    /\ output' = [bytes |-> 1, at |-> [pix \in Pixels |-> GreyPixel(pix)]]
    /\ UNCHANGED <<map, dx, dy, L, phase>>

ResizeColour ==
    /\ phase = "ready"
    /\ output' = [bytes |-> 3,
                  at |-> [b \in Below(3 * map.w_out * map.h_out) |->
                            IF Blank(b \div 3) THEN <<>> ELSE Channel(b \div 3, b % 3)]]
    /\ UNCHANGED <<map, dx, dy, L, phase>>

ResizeNext == InitResizeMap \/ ResizeGrey \/ ResizeColour

ResizeSpec == ResizeInit /\ [][ResizeNext]_resizeVars
-----------------------------------------------------------------------------
(***************************************************************************)
(* Properties.                                                               *)
(***************************************************************************)

\* The type invariant: four weights of one byte each for every output pixel.
ResizeTypeOK ==
    /\ map \in [w_in : InSizes, h_in : InSizes, w_out : OutSizes, h_out : OutSizes]
    /\ phase \in {"start", "ready", "failed"}
    /\ phase = "ready" =>
         \A pix \in Pixels :
            /\ DOMAIN L[pix].I = 1 .. 2
            /\ \A i \in DOMAIN L[pix].F : L[pix].F[i] \in 0 .. 255
    /\ output.bytes \in {1, 3}

\* Weights(pix) of the table as a whole.
Sum(pix) == L[pix].F[1] + L[pix].F[2] + L[pix].F[3] + L[pix].F[4]

\* Every output pixel gets a value, for every pair of sizes and however the
\* floats are rounded: no square starts in the last row or column, where
\* resize.c:160 would leave the pixel blank, unless the image has only one.  What
\* makes it so is the strict scale (n_in - 1)/n_out of lines 145-146.
BlankOnlyForLines ==
    phase = "ready" =>
        \A pix \in Pixels : Blank(pix) => (map.w_in = 1 \/ map.h_in = 1)

\* The weights reproduce a linear ramp: horizontally and vertically the point
\* the square stands for is where exact arithmetic puts it, to 3/256 of a pixel.
Near(line, weight, n_in, n_out, i) ==
    LET d == (256 * line + weight) * n_out - 256 * (n_in - 1) * i
    IN  -3 * n_out < d /\ d < 3 * n_out
RampPreserved ==
    phase = "ready" =>
        \A pix \in Pixels : Blank(pix) \/
            /\ Near(L[pix].I[1], L[pix].F[2] + L[pix].F[4], map.w_in, map.w_out, pix % map.w_out)
            /\ Near(L[pix].I[2], L[pix].F[3] + L[pix].F[4], map.h_in, map.h_out, pix \div map.w_out)

\* resize.c:170-171 of the integer weights: "Due to truncation, these 4 ints
\* should sum to no more than 255".  Nothing is cut off when every product with
\* 256 is whole, as half-way between four input pixels.
SumBelow256 ==
    phase = "ready" => \A pix \in Pixels : Blank(pix) \/ Sum(pix) <= 255

\* What the sum is instead: 253 to 256, so that a white image still gives bytes,
\* (255 * 256)/256 = 255, and none is darkened by more than 3/256; but 0 where
\* the output pixel falls exactly on an input pixel, as the top left corner
\* always does: the weight 256 does not fit in F[0] and the pixel comes out black.
SumsOfWeights ==
    phase = "ready" =>
        \A pix \in Pixels : Blank(pix) \/
            \/ Sum(pix) \in 253 .. 256
            \/ /\ Sum(pix) = 0
               /\ ((map.w_in - 1) * (pix % map.w_out)) % map.w_out = 0
               /\ ((map.h_in - 1) * (pix \div map.w_out)) % map.h_out = 0

\* Channel k of a colour resize is the grey resize of channel k.
SameAsGrey(k) ==
    output.bytes = 3 =>
        \A pix \in Pixels :
            LET weights == output.at[3 * pix + k]
                grey    == GreyPixel(pix)
            IN  /\ DOMAIN weights = {3 * i + k : i \in DOMAIN grey}
                /\ \A i \in DOMAIN grey : weights[3 * i + k] = grey[i]

\* The red channel is resized like a grey image.
RedAsGrey == SameAsGrey(0)
=============================================================================
