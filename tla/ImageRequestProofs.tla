------------------------- MODULE ImageRequestProofs -------------------------
(***************************************************************************)
(* The size arithmetic of Transformation is right for sources and requests *)
(* of every size; with it the safety properties of an upload's way hold    *)
(* for any limit and either library.                                       *)
(***************************************************************************)
EXTENDS ImageRequest, TLAPS

(* The size arithmetic *)

\* Integer division leaves less than the divisor.
LEMMA DivisionBounds ==
    ASSUME NEW a \in Nat, NEW r \in Nat \ {0}
    PROVE  /\ a \div r \in Nat
           /\ (a \div r) * r <= a
           /\ a < (a \div r) * r + r
  <1>1. a = r * (a \div r) + (a % r)
    OBVIOUS
  <1>2. (a % r) \in 0..(r - 1) /\ a \div r \in Nat
    OBVIOUS
  <1>3. (a \div r) * r = r * (a \div r)
    BY <1>2
  <1> QED
    BY <1>1, <1>2, <1>3

\* Adding half the divisor first makes the error at most half of it.
LEMMA RoundingError ==
    ASSUME NEW p \in Nat, NEW r \in Nat \ {0}, NEW n \in Nat,
           n = (p + r \div 2) \div r
    PROVE  /\ 2 * (n * r) <= 2 * p + r
           /\ 2 * p <= 2 * (n * r) + r
  <1> DEFINE half == r \div 2
             q == n * r
  <1>1. half \in Nat /\ 2 * half <= r /\ r <= 2 * half + 1
    OBVIOUS
  <1>2. q \in Nat
    OBVIOUS
  <1>3. q <= p + half /\ p + half < q + r
    <2>1. p + half \in Nat
      BY <1>1
    <2>2. n = (p + half) \div r
      OBVIOUS
    <2> HIDE DEF half
    <2> QED
      BY <2>1, <2>2, DivisionBounds
  <1> HIDE DEF half, q
  <1>4. 2 * q <= 2 * p + r /\ 2 * p <= 2 * q + r
    BY <1>1, <1>2, <1>3
  <1> QED
    BY <1>4 DEF q

\* A scaled dimension, kept at one pixel or more, is the nearest there is.
LEMMA ScaledIsNearest ==
    ASSUME NEW v \in Nat, NEW r \in Nat \ {0}, NEW t \in Nat
    PROVE  /\ AtLeastOne(ScaleDimension(v, r, t)) \in Nat \ {0}
           /\ IsNearest(AtLeastOne(ScaleDimension(v, r, t)), v * t, r)
  <1> DEFINE p == v * t
             n == (p + r \div 2) \div r
             s == AtLeastOne(n)
  <1>1. p \in Nat
    OBVIOUS
  <1>2. n \in Nat
    <2>1. p + r \div 2 \in Nat
      BY <1>1
    <2> HIDE DEF p
    <2> QED
      BY <2>1, DivisionBounds
  <1>3. 2 * (n * r) <= 2 * p + r /\ 2 * p <= 2 * (n * r) + r
    <2> HIDE DEF p
    <2> QED
      BY <1>1, <1>2, RoundingError
  <1>4. ScaleDimension(v, r, t) = n
    BY DEF ScaleDimension
  <1> HIDE DEF p, n
  <1>5. s \in Nat \ {0} /\ s = IF n = 0 THEN 1 ELSE n
    BY <1>2 DEF AtLeastOne
  <1> HIDE DEF s
  <1>6. \A m \in Nat : (m + 1) * r = m * r + r /\ m * r \in Nat
    OBVIOUS
  <1>7. ASSUME NEW m \in {s - 1, s + 1}, m >= 1
        PROVE  Distance(s * r, p) <= Distance(m * r, p)
    <2>1. CASE n = 0
      <3>1. s = 1 /\ m = 2 /\ n * r = 0
        BY <2>1, <1>5, <1>7
      <3>2. s * r = r /\ m * r = 2 * r /\ 2 * p <= r
        BY <3>1, <1>3, <1>1
      <3> QED
        BY <3>2, <1>1 DEF Distance
    <2>2. CASE n # 0 /\ m = s + 1
      <3>1. s = n /\ m * r = n * r + r /\ n * r \in Nat
        BY <2>2, <1>5, <1>6, <1>2
      <3> QED
        BY <3>1, <1>1, <1>3 DEF Distance
    <2>3. CASE n # 0 /\ m = s - 1
      <3>1. s = n /\ m \in Nat /\ n = m + 1
        BY <2>3, <1>5, <1>2, <1>7
      <3>2. n * r = m * r + r /\ m * r \in Nat
        BY <3>1, <1>6
      <3> QED
        BY <3>1, <3>2, <1>1, <1>3 DEF Distance
    <2> QED
      BY <2>1, <2>2, <2>3, <1>7
  <1>8. s >= 1
    BY <1>5
  <1>9. IsNearest(s, p, r)
    BY <1>7, <1>8 DEF IsNearest
  <1> QED
    BY <1>4, <1>5, <1>9 DEF s, p

\* What exactly scaled does not exceed w does not exceed it rounded.
LEMMA ScaledIsBounded ==
    ASSUME NEW v \in Nat, NEW r \in Nat \ {0}, NEW t \in Nat, NEW w \in Nat \ {0},
           v * t <= r * w
    PROVE  AtLeastOne(ScaleDimension(v, r, t)) <= w
  <1> DEFINE p == v * t
             n == (p + r \div 2) \div r
  <1>1. p \in Nat /\ p <= r * w
    OBVIOUS
  <1>2. n \in Nat
    <2>1. p + r \div 2 \in Nat
      BY <1>1
    <2> HIDE DEF p
    <2> QED
      BY <2>1, DivisionBounds
  <1>3. 2 * (n * r) <= 2 * p + r
    <2> HIDE DEF p
    <2> QED
      BY <1>1, <1>2, RoundingError
  <1>4. ScaleDimension(v, r, t) = n
    BY DEF ScaleDimension
  <1> HIDE DEF p, n
  <1>5. n <= w
    <2> SUFFICES ASSUME n > w
                 PROVE  FALSE
      BY <1>2
    <2>1. PICK d \in Nat : n = w + 1 + d
      <3>1. n - w - 1 \in Nat /\ n = w + 1 + (n - w - 1)
        BY <1>2
      <3> QED
        BY <3>1
    <2>2. n * r = r * w + r + d * r /\ d * r \in Nat /\ r * w \in Nat
      BY <2>1
    <2> QED
      BY <2>2, <1>1, <1>3
  <1> QED
    BY <1>2, <1>4, <1>5 DEF AtLeastOne

\* The size derived from a height is a size, and has that height.
LEMMA OfHeightIsRight ==
    ASSUME NEW src \in Sizes, NEW h \in Nat \ {0}
    PROVE  OfHeight(src, h) \in Sizes /\ HasHeight(OfHeight(src, h), src, h)
  <1>1. src.w \in Nat /\ src.h \in Nat \ {0}
    BY DEF Sizes
  <1>2. AtLeastOne(h) = h
    BY DEF AtLeastOne
  <1> QED
    BY <1>1, <1>2, ScaledIsNearest DEF OfHeight, HasHeight, Sizes

\* The size derived from a width is a size, and has that width.
LEMMA OfWidthIsRight ==
    ASSUME NEW src \in Sizes, NEW w \in Nat \ {0}
    PROVE  OfWidth(src, w) \in Sizes /\ HasWidth(OfWidth(src, w), src, w)
  <1>1. src.h \in Nat /\ src.w \in Nat \ {0}
    BY DEF Sizes
  <1>2. AtLeastOne(w) = w
    BY DEF AtLeastOne
  <1> QED
    BY <1>1, <1>2, ScaledIsNearest DEF OfWidth, HasWidth, Sizes

\* Fitted into any box, an image of any size lies in the box, has its width or
\* its height, and keeps its ratio up to rounding (targetSize with keepAspect).
THEOREM FittedIntoBox ==
    ASSUME NEW src \in Sizes, NEW w \in Nat \ {0}, NEW h \in Nat \ {0}
    PROVE  LET t == TargetSize(src, w, h, TRUE)
           IN  /\ t.w <= w /\ t.h <= h
               /\ HasHeight(t, src, h) \/ HasWidth(t, src, w)
  <1>1. src.w \in Nat \ {0} /\ src.h \in Nat \ {0} /\ ~Empty(src)
    BY DEF Sizes, Empty
  <1>2. AtLeastOne(h) = h /\ AtLeastOne(w) = w
    BY DEF AtLeastOne
  <1>3. CASE NarrowerThan(src, w, h)
    <2>1. TargetSize(src, w, h, TRUE) = OfHeight(src, h)
      BY <1>1, <1>3 DEF TargetSize
    <2>2. OfHeight(src, h).w <= w /\ OfHeight(src, h).h <= h
      BY <1>1, <1>2, <1>3, ScaledIsBounded DEF OfHeight, NarrowerThan
    <2> QED
      BY <2>1, <2>2, OfHeightIsRight
  <1>4. CASE ~NarrowerThan(src, w, h)
    <2>1. TargetSize(src, w, h, TRUE) = OfWidth(src, w)
      BY <1>1, <1>4 DEF TargetSize
    <2>2. src.h * w <= src.w * h
      <3>1. src.h * w \in Nat /\ src.w * h \in Nat
        BY <1>1
      <3> QED
        BY <3>1, <1>4 DEF NarrowerThan
    <2>3. OfWidth(src, w).w <= w /\ OfWidth(src, w).h <= h
      BY <1>1, <1>2, <2>2, ScaledIsBounded DEF OfWidth
    <2> QED
      BY <2>1, <2>3, OfWidthIsRight
  <1> QED
    BY <1>3, <1>4

\* The thumbnail of an image of any size is no larger than the image and the
\* bound; it is the image or has the bound as a side and keeps the ratio.
THEOREM ThumbnailIsBounded ==
    ASSUME NEW src \in Sizes, NEW d \in Nat \ {0}
    PROVE  LET t == ThumbnailSize(src, d)
           IN  /\ t.w <= src.w /\ t.h <= src.h /\ t.w <= d /\ t.h <= d
               /\ t = src \/ HasHeight(t, src, d) \/ HasWidth(t, src, d)
  <1>1. src.w \in Nat \ {0} /\ src.h \in Nat \ {0} /\ ~Empty(src)
    BY DEF Sizes, Empty
  <1>2. AtLeastOne(d) = d
    BY DEF AtLeastOne
  <1>3. CASE src.w <= d /\ src.h <= d
    BY <1>1, <1>3 DEF ThumbnailSize
  <1>4. CASE ~(src.w <= d /\ src.h <= d) /\ src.w >= src.h
    <2>1. ThumbnailSize(src, d) = OfWidth(src, d)
      BY <1>1, <1>4 DEF ThumbnailSize
    <2>2. src.h * d <= src.w * d /\ src.h * d <= src.w * src.h
      <3> DEFINE a == src.w - src.h
                 b == src.w - d
      <3>1. /\ a \in Nat /\ src.w = src.h + a
            /\ b \in Nat /\ src.w = d + b
        BY <1>1, <1>4
      <3> HIDE DEF a, b
      <3>2. src.w * d = src.h * d + a * d /\ src.w * src.h = src.h * d + b * src.h
        BY <3>1, <1>1
      <3>3. a * d \in Nat /\ b * src.h \in Nat /\ src.h * d \in Nat
        BY <3>1, <1>1
      <3> QED
        BY <3>2, <3>3
    <2>3. OfWidth(src, d).h <= d /\ OfWidth(src, d).h <= src.h
      BY <1>1, <2>2, ScaledIsBounded DEF OfWidth
    <2>4. OfWidth(src, d).w = d /\ d <= src.w
      BY <1>1, <1>2, <1>4 DEF OfWidth
    <2> QED
      BY <2>1, <2>3, <2>4, OfWidthIsRight
  <1>5. CASE ~(src.w <= d /\ src.h <= d) /\ ~(src.w >= src.h)
    <2>1. ThumbnailSize(src, d) = OfHeight(src, d)
      BY <1>1, <1>5 DEF ThumbnailSize
    <2>2. src.w * d <= src.h * d /\ src.w * d <= src.h * src.w
      <3> DEFINE a == src.h - src.w
                 b == src.h - d
      <3>1. /\ a \in Nat /\ src.h = src.w + a
            /\ b \in Nat /\ src.h = d + b
        BY <1>1, <1>5
      <3> HIDE DEF a, b
      <3>2. src.h * d = src.w * d + a * d /\ src.h * src.w = src.w * d + b * src.w
        BY <3>1, <1>1
      <3>3. a * d \in Nat /\ b * src.w \in Nat /\ src.w * d \in Nat
        BY <3>1, <1>1
      <3> QED
        BY <3>2, <3>3
    <2>3. OfHeight(src, d).w <= d /\ OfHeight(src, d).w <= src.w
      BY <1>1, <2>2, ScaledIsBounded DEF OfHeight
    <2>4. OfHeight(src, d).h = d /\ d <= src.h
      BY <1>1, <1>2, <1>5 DEF OfHeight
    <2> QED
      BY <2>1, <2>3, <2>4, OfHeightIsRight
  <1> QED
    BY <1>3, <1>4, <1>5

-----------------------------------------------------------------------------
(* The inductive invariant of the upload *)

Checking == {"admit", "parse", "formFile", "media", "spec", "validate", "store", "persist"}

\* The API: no answer is given, and nothing written, before the checks are over.
ApiInv ==
    /\ answer = NoAnswer <=> stage \in Checking
    /\ answer # NoAnswer => file # "open"
    /\ stage \in {"admit", "parse", "formFile"} => file = "none"
    /\ stage \in Checking \ {"persist"} => ~stored
    /\ RefusalWritesNothing
    /\ answer = 202 <=> stage \notin Checking \cup {"answered"}

\* What a worker has in hand passed Validate, and was not changed since.
SpecInv ==
    stage \notin (Checking \ {"store", "persist"}) \cup {"answered"} => Valid(spec) /\ spec \in Specs

\* The image has the size of its source before the resize and the one that was
\* asked for after it.
Requested ==
    \/ spec.width = 0 /\ HasHeight(image, source, spec.height)
    \/ spec.height = 0 /\ HasWidth(image, source, spec.width)
    \/ image = [w |-> spec.width, h |-> spec.height]

SizeInv ==
    /\ stage \in {"strip", "resize"} => source \in Sizes /\ image = source
    /\ stage \in {"watermark", "encode", "done"} => image \in Sizes /\ Requested

\* Metadata is gone once it had to be stripped, and never survives decoding in Go.
MetadataInv ==
    /\ backend = "purego" => metadata = "absent"
    /\ stage \in {"resize", "watermark", "encode", "done"} /\ spec.stripMetadata => metadata = "absent"

Inv ==
    /\ TypeOK
    /\ ApiInv
    /\ SpecInv
    /\ SizeInv
    /\ MetadataInv
    /\ AcceptedIsUsable

-----------------------------------------------------------------------------

\* A valid specification names a dimension, and no negative one.
LEMMA ValidDimensions ==
    ASSUME NEW s \in Specs, Valid(s)
    PROVE  /\ s.width \in Nat /\ s.height \in Nat
           /\ s.width # 0 \/ s.height # 0
  <1>1. s.width \in Int /\ s.height \in Int
    BY RequestAssumption DEF Specs
  <1> QED
    BY <1>1 DEF Valid, InvalidDimensions

\* A valid specification leads from any size to a size, which is the one asked
\* for.
LEMMA TargetIsRight ==
    ASSUME NEW s \in Specs, Valid(s), NEW src \in Sizes
    PROVE  LET t == TargetSize(src, s.width, s.height, s.width = 0 \/ s.height = 0)
           IN  /\ t \in Sizes
               /\ \/ s.width = 0 /\ HasHeight(t, src, s.height)
                  \/ s.height = 0 /\ HasWidth(t, src, s.width)
                  \/ t = [w |-> s.width, h |-> s.height]
  <1>1. /\ s.width \in Nat /\ s.height \in Nat
        /\ s.width # 0 \/ s.height # 0
    BY ValidDimensions
  <1>2. ~Empty(src)
    BY DEF Sizes, Empty
  <1>3. CASE s.width = 0
    <2>1. TargetSize(src, s.width, s.height, s.width = 0 \/ s.height = 0)
            = OfHeight(src, s.height)
      BY <1>1, <1>2, <1>3 DEF TargetSize
    <2> QED
      BY <2>1, <1>1, <1>3, OfHeightIsRight
  <1>4. CASE s.width # 0 /\ s.height = 0
    <2>1. TargetSize(src, s.width, s.height, s.width = 0 \/ s.height = 0)
            = OfWidth(src, s.width)
      BY <1>1, <1>2, <1>4 DEF TargetSize
    <2> QED
      BY <2>1, <1>1, <1>4, OfWidthIsRight
  <1>5. CASE s.width # 0 /\ s.height # 0
    <2>1. TargetSize(src, s.width, s.height, s.width = 0 \/ s.height = 0)
            = [w |-> s.width, h |-> s.height]
      BY <1>1, <1>2, <1>5 DEF TargetSize
    <2> QED
      BY <2>1, <1>1, <1>5 DEF Sizes
  <1> QED
    BY <1>3, <1>4, <1>5

\* NoSize is not the size of an image.
LEMMA NoSizeIsNone == NoSize \notin Sizes
  BY DEF NoSize, Sizes

\* The first request satisfies the invariant.
LEMMA InitInv == Init => Inv
  <1> SUFFICES ASSUME Init
               PROVE  Inv
    OBVIOUS
  <1> USE DEF Init, NoAnswer, NoFailure, Checking
  <1>1. TypeOK
    BY DEF TypeOK
  <1>2. ApiInv
    BY DEF ApiInv, RefusalWritesNothing
  <1>3. SpecInv /\ SizeInv
    BY DEF SpecInv, SizeInv
  <1>4. MetadataInv /\ AcceptedIsUsable
    BY DEF MetadataInv, AcceptedIsUsable
  <1> QED
    BY <1>1, <1>2, <1>3, <1>4 DEF Inv

\* Every step of the API and of the worker keeps the invariant.
LEMMA NextInv == Inv /\ [Next]_vars => Inv'
  <1> SUFFICES ASSUME Inv, [Next]_vars
               PROVE  Inv'
    OBVIOUS
  <1> USE DEF NoAnswer, NoFailure, Checking, Inv
  <1>1. CASE Admit
    <2> USE <1>1 DEF Admit, Respond, Continue, imageVars
    <2>1. TypeOK'
      BY DEF TypeOK
    <2>2. ApiInv'
      BY DEF ApiInv, RefusalWritesNothing, TypeOK
    <2>3. SpecInv'
      BY DEF SpecInv
    <2>4. SizeInv'
      BY DEF SizeInv
    <2>5. MetadataInv' /\ AcceptedIsUsable'
      BY DEF MetadataInv, AcceptedIsUsable
    <2> QED
      BY <2>1, <2>2, <2>3, <2>4, <2>5
  <1>2. CASE ParseMultipartForm
    <2> USE <1>2 DEF ParseMultipartForm, Respond, Continue, imageVars
    <2>1. TypeOK'
      BY DEF TypeOK
    <2>2. ApiInv'
      BY DEF ApiInv, RefusalWritesNothing, TypeOK
    <2>3. SpecInv'
      BY DEF SpecInv
    <2>4. SizeInv'
      BY DEF SizeInv
    <2>5. MetadataInv' /\ AcceptedIsUsable'
      BY DEF MetadataInv, AcceptedIsUsable
    <2> QED
      BY <2>1, <2>2, <2>3, <2>4, <2>5
  <1>3. CASE FormFile
    <2> USE <1>3 DEF FormFile, Respond, Continue, imageVars
    <2>1. TypeOK'
      BY DEF TypeOK
    <2>2. ApiInv'
      BY DEF ApiInv, RefusalWritesNothing, TypeOK
    <2>3. SpecInv'
      BY DEF SpecInv
    <2>4. SizeInv'
      BY DEF SizeInv
    <2>5. MetadataInv' /\ AcceptedIsUsable'
      BY DEF MetadataInv, AcceptedIsUsable
    <2> QED
      BY <2>1, <2>2, <2>3, <2>4, <2>5
  <1>4. CASE CheckMediaType
    <2> USE <1>4 DEF CheckMediaType, Respond, Continue, imageVars
    <2>1. TypeOK'
      BY DEF TypeOK, MediaTypes
    <2>2. ApiInv'
      BY DEF ApiInv, RefusalWritesNothing, TypeOK
    <2>3. SpecInv'
      BY DEF SpecInv
    <2>4. SizeInv'
      BY DEF SizeInv
    <2>5. MetadataInv' /\ AcceptedIsUsable'
      BY DEF MetadataInv, AcceptedIsUsable
    <2> QED
      BY <2>1, <2>2, <2>3, <2>4, <2>5
  <1>5. CASE ReadSpec
    <2> USE <1>5 DEF ReadSpec, Respond, Continue, imageVars
    <2>1. TypeOK'
      BY DEF TypeOK
    <2>2. ApiInv'
      BY DEF ApiInv, RefusalWritesNothing, TypeOK
    <2>3. SpecInv'
      BY DEF SpecInv
    <2>4. SizeInv'
      BY DEF SizeInv
    <2>5. MetadataInv' /\ AcceptedIsUsable'
      BY DEF MetadataInv, AcceptedIsUsable
    <2> QED
      BY <2>1, <2>2, <2>3, <2>4, <2>5
  <1>6. CASE Validate
    <2> USE <1>6 DEF Validate, Respond, Continue, imageVars
    <2>1. TypeOK'
      BY DEF TypeOK
    <2>2. ApiInv'
      BY DEF ApiInv, RefusalWritesNothing, TypeOK
    <2>3. SpecInv'
      BY DEF SpecInv, TypeOK, Valid, InvalidFormat, NoSpec, Formats
    <2>4. SizeInv'
      BY DEF SizeInv
    <2>5. MetadataInv' /\ AcceptedIsUsable'
      BY DEF MetadataInv, AcceptedIsUsable
    <2> QED
      BY <2>1, <2>2, <2>3, <2>4, <2>5
  <1>7. CASE Open
    <2> USE <1>7 DEF Open, OpenFailures, Fail, Proceed, apiVars
    <2>1. Valid(spec) /\ spec \in Specs
      BY DEF SpecInv
    <2>2. \/ source' \in Sizes /\ image' = source' /\ stage' = "strip" /\ UNCHANGED failure
          \/ UNCHANGED <<source, image>> /\ stage' = "failed" /\ failure' \in {"canceled", "decode"}
      BY <2>1, RequestAssumption DEF Sizes
    <2>3. metadata' \in {"present", "absent"} /\ (backend = "purego" => metadata' = "absent")
      BY DEF MetadataInv, TypeOK
    <2>4. TypeOK'
      BY <2>2, <2>3 DEF TypeOK
    <2>5. ApiInv' /\ SpecInv'
      BY DEF ApiInv, RefusalWritesNothing, SpecInv
    <2>6. SizeInv'
      BY <2>2 DEF SizeInv
    <2>7. MetadataInv' /\ AcceptedIsUsable'
      BY <2>2, <2>3 DEF MetadataInv, AcceptedIsUsable
    <2> QED
      BY <2>4, <2>5, <2>6, <2>7
  <1>8. CASE StripMetadata
    <2> USE <1>8 DEF StripMetadata, Fail, Proceed, apiVars
    <2>1. backend \in {"govips", "purego"}
      BY RequestAssumption DEF TypeOK
    <2>2. TypeOK'
      BY DEF TypeOK
    <2>3. ApiInv' /\ SpecInv'
      BY DEF ApiInv, RefusalWritesNothing, SpecInv
    <2>4. SizeInv'
      BY DEF SizeInv
    <2>5. MetadataInv' /\ AcceptedIsUsable'
      BY <2>1 DEF MetadataInv, AcceptedIsUsable
    <2> QED
      BY <2>2, <2>3, <2>4, <2>5
  <1>9. CASE Resize
    <2> USE <1>9 DEF Resize, ResizeFailures, Fail, Proceed, apiVars
    <2>1. Valid(spec) /\ spec \in Specs /\ image = source /\ source \in Sizes
      BY DEF SpecInv, SizeInv
    <2>2. /\ Target \in Sizes /\ Target # NoSize
          /\ \/ spec.width = 0 /\ HasHeight(Target, source, spec.height)
             \/ spec.height = 0 /\ HasWidth(Target, source, spec.width)
             \/ Target = [w |-> spec.width, h |-> spec.height]
      BY <2>1, TargetIsRight, NoSizeIsNone DEF Target
    <2>3. \/ image' = Target /\ stage' = "watermark" /\ UNCHANGED failure
          \/ UNCHANGED image /\ stage' = "failed" /\ failure' = "resize"
      BY <2>2
    <2>4. TypeOK'
      BY <2>2, <2>3 DEF TypeOK
    <2>5. ApiInv' /\ SpecInv'
      BY DEF ApiInv, RefusalWritesNothing, SpecInv
    <2>6. SizeInv'
      BY <2>2, <2>3 DEF SizeInv, Requested
    <2>7. MetadataInv' /\ AcceptedIsUsable'
      BY <2>3 DEF MetadataInv, AcceptedIsUsable
    <2> QED
      BY <2>4, <2>5, <2>6, <2>7
  <1>10. CASE Watermark
    <2> USE <1>10 DEF Watermark, Fail, Proceed, apiVars
    <2>1. TypeOK'
      BY DEF TypeOK
    <2>2. ApiInv' /\ SpecInv'
      BY DEF ApiInv, RefusalWritesNothing, SpecInv
    <2>3. SizeInv'
      BY DEF SizeInv, Requested
    <2>4. MetadataInv'
      BY DEF MetadataInv, TypeOK
    <2>5. AcceptedIsUsable'
      BY DEF AcceptedIsUsable, SpecInv
    <2> QED
      BY <2>1, <2>2, <2>3, <2>4, <2>5
  <1>11. CASE ConvertFormat
    <2> USE <1>11 DEF ConvertFormat, Fail, Proceed, apiVars
    <2>1. TypeOK'
      BY DEF TypeOK
    <2>2. ApiInv' /\ SpecInv'
      BY DEF ApiInv, RefusalWritesNothing, SpecInv
    <2>3. SizeInv'
      BY DEF SizeInv, Requested
    <2>4. MetadataInv'
      BY DEF MetadataInv, TypeOK
    <2>5. AcceptedIsUsable'
      BY DEF AcceptedIsUsable, SpecInv, Valid, InvalidFormat, Encodable
    <2> QED
      BY <2>1, <2>2, <2>3, <2>4, <2>5
  <1>12. CASE UNCHANGED vars
    BY <1>12 DEF vars, apiVars, imageVars, TypeOK, ApiInv, SpecInv, SizeInv,
       MetadataInv, AcceptedIsUsable, RefusalWritesNothing, Requested
  <1>13. CASE Store
    <2> USE <1>13 DEF Store, CallFails, Respond, Continue, imageVars
    <2>1. stored' \in BOOLEAN
      OBVIOUS
    <2>2. TypeOK'
      BY <2>1 DEF TypeOK
    <2>3. ApiInv'
      BY DEF ApiInv, RefusalWritesNothing
    <2>4. SpecInv' /\ SizeInv'
      BY DEF SpecInv, SizeInv
    <2>5. MetadataInv' /\ AcceptedIsUsable'
      BY DEF MetadataInv, AcceptedIsUsable
    <2> QED
      BY <2>2, <2>3, <2>4, <2>5
  <1>14. CASE Persist
    <2> USE <1>14 DEF Persist, CallFails, Respond, imageVars
    <2>1. TypeOK'
      BY DEF TypeOK
    <2>2. ApiInv'
      BY DEF ApiInv, RefusalWritesNothing
    <2>3. SpecInv' /\ SizeInv'
      BY DEF SpecInv, SizeInv
    <2>4. MetadataInv' /\ AcceptedIsUsable'
      BY DEF MetadataInv, AcceptedIsUsable
    <2> QED
      BY <2>1, <2>2, <2>3, <2>4
  <1> QED
    BY <1>1, <1>2, <1>3, <1>4, <1>5, <1>6, <1>7, <1>8, <1>9, <1>10, <1>11, <1>12, <1>13, <1>14
       DEF Next

-----------------------------------------------------------------------------

\* The invariant holds of every upload, whatever the client and the libraries do.
THEOREM RequestInvariance == Spec => []Inv
  BY InitInv, NextInv, PTL DEF Spec

\* The state keeps its types: among others, no resize leaves an image without
\* pixels.
THEOREM RequestTypeCorrectness == Spec => []TypeOK
  <1>1. Inv => TypeOK
    BY DEF Inv
  <1> QED
    BY <1>1, RequestInvariance, PTL

\* handleUpload and readUpload have closed the uploaded part when they answer.
THEOREM UploadsAreClosed == Spec => []UploadIsClosed
  <1>1. Inv => UploadIsClosed
    BY DEF Inv, ApiInv, UploadIsClosed
  <1> QED
    BY <1>1, RequestInvariance, PTL

\* A request that is refused as the client's fault has written nothing.
THEOREM RefusalsWriteNothing == Spec => []RefusalWritesNothing
  <1>1. Inv => RefusalWritesNothing
    BY DEF Inv, ApiInv
  <1> QED
    BY <1>1, RequestInvariance, PTL

\* What the API accepted passes Validate again and has a size, with either
\* library, and libvips has an encoder for it and draws any watermark.
THEOREM AcceptedAreUsable == Spec => []AcceptedIsUsable
  <1>1. Inv => AcceptedIsUsable
    BY DEF Inv
  <1> QED
    BY <1>1, RequestInvariance, PTL

\* Every finished image has the size that was asked for, a derived dimension
\* being the nearest one (Process, targetSize).
THEOREM SizesAreRequested == Spec => []SizeIsRequested
  <1>1. Inv => SizeIsRequested
    BY DEF Inv, SizeInv, Requested, SizeIsRequested
  <1> QED
    BY <1>1, RequestInvariance, PTL

\* Any source fits any box it is fitted into (targetSize).
THEOREM BoxesAreFitted == Spec => []BoxIsFitted
  <1>1. Inv => BoxIsFitted
    <2> SUFFICES ASSUME Inv, NEW w \in Widths, NEW h \in Widths,
                        source # NoSize, w > 0, h > 0
                 PROVE  LET t == TargetSize(source, w, h, TRUE)
                        IN  /\ t.w <= w /\ t.h <= h
                            /\ HasHeight(t, source, h) \/ HasWidth(t, source, w)
      BY DEF BoxIsFitted
    <2>1. source \in Sizes /\ w \in Nat \ {0} /\ h \in Nat \ {0}
      BY RequestAssumption DEF Inv, TypeOK
    <2> QED
      BY <2>1, FittedIntoBox
  <1> QED
    BY <1>1, RequestInvariance, PTL

\* The thumbnail of any source is within its bound (thumbnailSize).
THEOREM ThumbnailsFit == Spec => []ThumbnailFits
  <1>1. Inv => ThumbnailFits
    <2> SUFFICES ASSUME Inv, NEW d \in Widths, source # NoSize, d > 0
                 PROVE  LET t == ThumbnailSize(source, d)
                        IN  /\ t.w <= source.w /\ t.h <= source.h /\ t.w <= d /\ t.h <= d
                            /\ t = source \/ HasHeight(t, source, d) \/ HasWidth(t, source, d)
      BY DEF ThumbnailFits
    <2>1. source \in Sizes /\ d \in Nat \ {0}
      BY RequestAssumption DEF Inv, TypeOK
    <2> QED
      BY <2>1, ThumbnailIsBounded
  <1> QED
    BY <1>1, RequestInvariance, PTL

\* Nothing that was to be stripped keeps its metadata (StripMetadata).
THEOREM StrippedAreClean == Spec => []StrippedIsClean
  <1>1. Inv => StrippedIsClean
    BY DEF Inv, MetadataInv, StrippedIsClean
  <1> QED
    BY <1>1, RequestInvariance, PTL
=============================================================================
