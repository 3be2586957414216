--------------------------- MODULE Transformation ---------------------------
(***************************************************************************)
(* What a transformation may ask for, and the arithmetic of the sizes it   *)
(* leads to.  A size is a record of a width and a height in pixels.  The   *)
(* products stay far below the width of Go's int.                          *)
(***************************************************************************)
EXTENDS Integers

CONSTANT MaxDimension       \* the largest width or height to ask for

ASSUME DimensionAssumption == MaxDimension \in Nat \ {0}

Formats == {"jpeg", "png", "webp", "avif"}

Lossy == {"jpeg", "webp", "avif"}

\* Mutant: a specification with neither a width nor a height passes.
InvalidDimensionsUnset(s) ==
    \/ s.width < 0 \/ s.height < 0
    \/ s.width > MaxDimension \/ s.height > MaxDimension

InvalidDimensions(s) ==
    \/ s.width < 0 \/ s.height < 0
    \/ s.width = 0 /\ s.height = 0
    \/ s.width > MaxDimension \/ s.height > MaxDimension

InvalidFormat(s) == s.format \notin Formats

\* A lossless format accepts no quality; with a format that is not valid there
\* is nothing to say about that.
InvalidQuality(s) ==
    \/ s.quality \notin 0..100
    \/ s.quality # 0 /\ s.format \in Formats \ Lossy

\* Validate joins all errors; whether there is one is what its callers ask.
Valid(s) == ~InvalidDimensions(s) /\ ~InvalidFormat(s) /\ ~InvalidQuality(s)

-----------------------------------------------------------------------------
(* Sizes *)

Sizes == [w : Nat \ {0}, h : Nat \ {0}]

\* In place of a size where the code returns an error.
NoSize == [w |-> 0, h |-> 0]

Empty(size) == size.w <= 0 \/ size.h <= 0

\* value scaled by target/reference, rounded to the nearest.
ScaleDimension(value, reference, target) ==
    (value * target + reference \div 2) \div reference

AtLeastOne(v) == IF v < 1 THEN 1 ELSE v

\* The size with the ratio of src that has the given height, or width.
OfHeight(src, h) == [w |-> AtLeastOne(ScaleDimension(src.w, src.h, h)), h |-> AtLeastOne(h)]

OfWidth(src, w) == [w |-> AtLeastOne(w), h |-> AtLeastOne(ScaleDimension(src.h, src.w, w))]

\* Mutant: the height decides when the source is the wider one.
NarrowerThanSwapped(src, w, h) == src.w * h >= src.h * w

\* The source is not wider, for its height, than the box w x h.
NarrowerThan(src, w, h) == src.w * h <= src.h * w

\* The size of a resize; a dimension that is not positive is derived.
TargetSize(src, w, h, keepAspect) ==
    IF Empty(src) \/ (w <= 0 /\ h <= 0) THEN NoSize
    ELSE IF w <= 0 \/ (h > 0 /\ keepAspect /\ NarrowerThan(src, w, h)) THEN OfHeight(src, h)
    ELSE IF h <= 0 \/ keepAspect THEN OfWidth(src, w)
    ELSE [w |-> w, h |-> h]

\* The size of a thumbnail whose longest side is maxDim.
ThumbnailSize(src, maxDim) ==
    IF Empty(src) \/ maxDim <= 0 THEN NoSize
    ELSE IF src.w <= maxDim /\ src.h <= maxDim THEN src
    ELSE IF src.w >= src.h THEN OfWidth(src, maxDim) ELSE OfHeight(src, maxDim)

\* The margins between the watermark and the right and lower edges.
Margin(size) == [w |-> AtLeastOne(size.w \div 40), h |-> AtLeastOne(size.h \div 40)]

-----------------------------------------------------------------------------
(* Reference definitions *)

Distance(a, b) == IF a < b THEN b - a ELSE a - b

\* Of the sizes from one pixel on, none is closer to num/den than n.
IsNearest(n, num, den) ==
    /\ n >= 1
    /\ \A m \in {n - 1, n + 1} :
          m >= 1 => Distance(n * den, num) <= Distance(m * den, num)

\* Of the given height with src's ratio, up to rounding; or of the given width.
HasHeight(size, src, h) == size.h = h /\ IsNearest(size.w, src.w * h, src.h)

HasWidth(size, src, w) == size.w = w /\ IsNearest(size.h, src.h * w, src.w)
=============================================================================
