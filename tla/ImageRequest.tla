---------------------------- MODULE ImageRequest ----------------------------
(***************************************************************************)
(* The way of one upload: the checks the API makes before it accepts it,   *)
(* and the transformation a worker makes of it.  What CreateJob's calls    *)
(* and the queue do is in CreateJob and AwsPipeline; here a call succeeds  *)
(* or fails.                                                               *)
(*                                                                         *)
(* What the client sent comes to light as it is read, so each step chooses *)
(* it.  The bytes of an image are its media type, its size and whether it  *)
(* carries metadata.  A step of the image library may fail whatever it is  *)
(* given: files are damaged and memory is short.                           *)
(***************************************************************************)
EXTENDS Transformation

CONSTANTS
    Backends,       \* the image libraries the worker may be built with
    Widths,         \* widths and heights a client may ask for
    Qualities,      \* qualities a client may ask for
    Sides,          \* widths and heights of the images that are uploaded
    TextWidth,      \* the width of the watermark's text in the bitmap face
    TextHeight      \* and the height of that face

ASSUME RequestAssumption ==
    /\ Backends \subseteq {"govips", "purego"}
    /\ Widths \subseteq Int /\ Qualities \subseteq Int /\ Sides \subseteq Nat \ {0}
    /\ TextWidth \in Nat /\ TextHeight \in Nat

VARIABLES
    stage,      \* what is done next with the upload
    answer,     \* the status of the API's answer, or NoAnswer
    file,       \* the part with the image: none, open or closed
    media,      \* what its bytes are, or NoMedia
    spec,       \* the transformation, or NoSpec
    stored,     \* whether CreateJob may have written anything
    backend,    \* the library of the worker
    source,     \* the size of the uploaded image
    image,      \* the size of the image in the worker's hands
    metadata,   \* whether it carries metadata: "present" or "absent"
    failure     \* why Process failed, or NoFailure

apiVars == <<answer, file, media, spec, stored>>

imageVars == <<source, image, metadata, failure>>

vars == <<stage, apiVars, backend, imageVars>>

NoAnswer == 0
NoMedia == "no media type"
NoSpec == [width |-> 0, height |-> 0, format |-> "none", quality |-> 0,
           watermark |-> FALSE, stripMetadata |-> FALSE]
NoFailure == "none"

AllowedMediaTypes == {"jpeg", "png", "webp", "gif", "avif", "bmp"}

\* What an upload may turn out to be: one of those, another type, or nothing.
MediaTypes == AllowedMediaTypes \cup {"other", "empty"}

\* What decodes as the JSON of a transformation.
Specs == [width : Widths, height : Widths, format : Formats \cup {"other"},
          quality : Qualities, watermark : BOOLEAN, stripMetadata : BOOLEAN]

TypeOK ==
    /\ stage \in {"admit", "parse", "formFile", "media", "spec", "validate", "store", "persist",
                  "answered", "open", "strip", "resize", "watermark", "encode", "done", "failed"}
    /\ answer \in {NoAnswer, 202, 400, 401, 408, 413, 415, 429, 500}
    /\ file \in {"none", "open", "closed"}
    /\ media \in MediaTypes \cup {NoMedia}
    /\ spec \in Specs \cup {NoSpec}
    /\ stored \in BOOLEAN /\ metadata \in {"present", "absent"}
    /\ backend \in Backends
    /\ source \in Sizes \cup {NoSize}
    /\ image \in Sizes \cup {NoSize}
    /\ failure \in {NoFailure, "invalid", "canceled", "decode", "strip", "noTarget",
                    "resize", "tooSmall", "watermark", "unsupported", "encode"}

Init ==
    /\ stage = "admit" /\ answer = NoAnswer /\ file = "none"
    /\ media = NoMedia /\ spec = NoSpec /\ stored = FALSE
    /\ backend \in Backends
    /\ source = NoSize /\ image = NoSize
    /\ metadata = "absent" /\ failure = NoFailure

-----------------------------------------------------------------------------
(* The API *)

\* writeProblem and writeJSON: an accepted upload goes on to a worker.  A step
\* ends when the handler has returned: where it answers and then closes the part,
\* both are done.
Respond(status) ==
    /\ answer' = status
    /\ stage' = IF status = 202 THEN "open" ELSE "answered"

Continue(next) == stage' = next /\ UNCHANGED answer

\* The protected routes: requireAuth and then rateLimit, each of which may
\* answer itself.
Admit ==
    /\ stage = "admit"
    /\ Respond(401) \/ Respond(429) \/ Continue("parse")
    /\ UNCHANGED <<file, media, spec, stored, backend, imageVars>>

\* The body is parsed within its limit; what cannot be parsed is refused.
ParseMultipartForm ==
    /\ stage = "parse"
    /\ Respond(413) \/ Respond(400) \/ Continue("formFile")
    /\ UNCHANGED <<file, media, spec, stored, backend, imageVars>>

FormFile ==
    /\ stage = "formFile"
    /\ \/ Respond(400) /\ UNCHANGED file
       \/ Continue("media") /\ file' = "open"
    /\ UNCHANGED <<media, spec, stored, backend, imageVars>>

\* The first bytes decide: they cannot be read, they are nothing, or they are of
\* a type that is accepted or not.  readUpload closes the file on a refusal.
CheckMediaType ==
    /\ stage = "media"
    /\ \/ Respond(400) /\ file' = "closed" /\ UNCHANGED media
       \/ \E m \in MediaTypes :
             /\ media' = m
             /\ \/ m \notin AllowedMediaTypes /\ Respond(415) /\ file' = "closed"
                \/ m \in AllowedMediaTypes /\ Continue("spec") /\ UNCHANGED file
    /\ UNCHANGED <<spec, stored, backend, imageVars>>

\* Mutant: the refusal forgets the file.
ReadSpecLeaks ==
    /\ stage = "spec"
    /\ \/ Respond(400) /\ UNCHANGED <<file, spec>>
       \/ \E s \in Specs : spec' = s /\ Continue("validate") /\ UNCHANGED file
    /\ UNCHANGED <<media, stored, backend, imageVars>>

\* The part is missing, too long or not the JSON of a transformation; or it is.
ReadSpec ==
    /\ stage = "spec"
    /\ \/ Respond(400) /\ file' = "closed" /\ UNCHANGED spec
       \/ \E s \in Specs : spec' = s /\ Continue("validate") /\ UNCHANGED file
    /\ UNCHANGED <<media, stored, backend, imageVars>>

\* Mutant: the original is stored before the transformation is validated.
ValidateLate ==
    /\ stage = "validate"
    /\ \/ ~Valid(spec) /\ Respond(400) /\ file' = "closed"
       \/ Valid(spec) /\ Continue("store") /\ UNCHANGED file
    /\ stored' = TRUE
    /\ UNCHANGED <<media, spec, backend, imageVars>>

\* CreateJob: an invalid transformation is the caller's fault.
Validate ==
    /\ stage = "validate"
    /\ \/ ~Valid(spec) /\ Respond(400) /\ file' = "closed"
       \/ Valid(spec) /\ Continue("store") /\ UNCHANGED file
    /\ UNCHANGED <<media, spec, stored, backend, imageVars>>

\* A call that fails is a 408 when the client has hung up and a 500 otherwise.
CallFails == (Respond(408) \/ Respond(500)) /\ file' = "closed"

\* The original is put into the storage; a call that fails may have done it.
Store ==
    /\ stage = "store"
    /\ \/ CallFails /\ stored' \in BOOLEAN
       \/ Continue("persist") /\ stored' = TRUE /\ UNCHANGED file
    /\ UNCHANGED <<media, spec, backend, imageVars>>

\* The record is saved and the job enqueued.
Persist ==
    /\ stage = "persist"
    /\ CallFails \/ (Respond(202) /\ file' = "closed")
    /\ UNCHANGED <<media, spec, stored, backend, imageVars>>

-----------------------------------------------------------------------------
(* Process, in the worker *)

Fail(reason) == stage' = "failed" /\ failure' = reason

Proceed(next) == stage' = next /\ UNCHANGED failure

\* What image.Decode has decoders for; libvips has one for every allowed type.
Decodable(b) == IF b = "purego" THEN {"jpeg", "png", "gif", "webp"} ELSE AllowedMediaTypes

\* Why the source may not be opened: Process validates again, then looks at its
\* context, and the bytes may not be those of an image.
OpenFailures == IF Valid(spec) THEN {"canceled", "decode"} ELSE {"invalid"}

\* Decoding in Go drops everything but the pixels.
Open ==
    /\ stage = "open"
    /\ \/ (\E reason \in OpenFailures : Fail(reason)) /\ UNCHANGED <<source, image, metadata>>
       \/ /\ Valid(spec) /\ media \in Decodable(backend)
          /\ source' \in [w : Sides, h : Sides] /\ image' = source'
          /\ metadata' \in {"absent"} \cup (IF backend = "purego" THEN {} ELSE {"present"})
          /\ Proceed("strip")
    /\ UNCHANGED <<apiVars, backend>>

\* With the pure Go library there is nothing left to strip.
StripMetadata ==
    /\ stage = "strip"
    /\ \/ spec.stripMetadata /\ backend = "govips" /\ Fail("strip") /\ UNCHANGED metadata
       \/ /\ metadata' = IF spec.stripMetadata /\ backend = "govips" THEN "absent" ELSE metadata
          /\ Proceed("resize")
    /\ UNCHANGED <<apiVars, backend, source, image>>

\* Mutant: the dimensions are taken as they were given.
TargetRaw == [w |-> spec.width, h |-> spec.height]

\* Mutant: a missing dimension is that of the source.
TargetStretched ==
    [w |-> IF spec.width = 0 THEN image.w ELSE spec.width,
     h |-> IF spec.height = 0 THEN image.h ELSE spec.height]

\* The size the specification leads to: with one dimension the ratio is kept.
Target == TargetSize(image, spec.width, spec.height, spec.width = 0 \/ spec.height = 0)

\* Why Resize may fail; an image that has its size already is left alone.
ResizeFailures ==
    IF Target = NoSize THEN {"noTarget"}
    ELSE IF Target # image /\ backend = "govips" THEN {"resize"} ELSE {}

Resize ==
    /\ stage = "resize"
    /\ \/ (\E reason \in ResizeFailures : Fail(reason)) /\ UNCHANGED image
       \/ Target # NoSize /\ image' = Target /\ Proceed("watermark")
    /\ UNCHANGED <<apiVars, backend, source, metadata>>

\* Whether the text fits into the image with a margin on each side.
TextFits(size) ==
    /\ TextWidth + 2 * Margin(size).w <= size.w
    /\ TextHeight + 2 * Margin(size).h <= size.h

Watermark ==
    /\ stage = "watermark"
    /\ \/ (spec.watermark /\ backend = "purego" => TextFits(image)) /\ Proceed("encode")
       \/ spec.watermark /\ backend = "purego" /\ ~TextFits(image) /\ Fail("tooSmall")
       \/ spec.watermark /\ backend = "govips" /\ Fail("watermark")
    /\ UNCHANGED <<apiVars, backend, source, image, metadata>>

\* What there is an encoder for.
Encodable(b) == IF b = "purego" THEN {"jpeg", "png"} ELSE Formats

\* The context is looked at once more before the image is encoded.
ConvertFormat ==
    /\ stage = "encode"
    /\ \/ Fail("canceled") \/ Fail("encode")
       \/ spec.format \notin Encodable(backend) /\ Fail("unsupported")
       \/ spec.format \in Encodable(backend) /\ Proceed("done")
    /\ UNCHANGED <<apiVars, backend, source, image, metadata>>

Next ==
    \/ Admit \/ ParseMultipartForm \/ FormFile \/ CheckMediaType \/ ReadSpec
    \/ Validate \/ Store \/ Persist
    \/ Open \/ StripMetadata \/ Resize \/ Watermark \/ ConvertFormat

Spec == Init /\ [][Next]_vars

-----------------------------------------------------------------------------
(* Properties *)

\* Every path of readUpload and handleUpload that answers has closed the part it
\* opened, however far the checks had come.
UploadIsClosed == answer # NoAnswer => file # "open"

\* A request that is refused as the client's fault has written nothing: all
\* checks, the domain's included, come before the first call to a store.
RefusalWritesNothing == answer \in {400, 401, 413, 415, 429} => ~stored

\* What the API accepted passes Validate again in the worker and leads to a size;
\* and libvips can do all of it.  Only the pure Go library refuses what was
\* accepted: a format it has no encoder for, and a text larger than the image.
AcceptedIsUsable ==
    /\ failure \notin {"invalid", "noTarget"}
    /\ backend = "govips" => failure \notin {"unsupported", "tooSmall"}

\* A finished image has each dimension that was asked for, and a derived one is
\* the closest to the ratio of the upload that is at least a pixel (Process,
\* targetSize).
SizeIsRequested ==
    stage = "done" =>
        \/ spec.width = 0 /\ HasHeight(image, source, spec.height)
        \/ spec.height = 0 /\ HasWidth(image, source, spec.width)
        \/ image = [w |-> spec.width, h |-> spec.height]

\* Resize within a box, for any source: the result lies in the box, touches it,
\* and keeps the ratio (targetSize with keepAspect).
BoxIsFitted ==
    \A w, h \in Widths : source # NoSize /\ w > 0 /\ h > 0 =>
        LET t == TargetSize(source, w, h, TRUE)
        IN  /\ t.w <= w /\ t.h <= h
            /\ HasHeight(t, source, h) \/ HasWidth(t, source, w)

\* A thumbnail is never larger than its source, and otherwise has the bound as
\* its longest side and keeps the ratio (thumbnailSize).
ThumbnailFits ==
    \A d \in Widths : source # NoSize /\ d > 0 =>
        LET t == ThumbnailSize(source, d)
        IN  /\ t.w <= source.w /\ t.h <= source.h /\ t.w <= d /\ t.h <= d
            /\ t = source \/ HasHeight(t, source, d) \/ HasWidth(t, source, d)

\* An image that was to be stripped has no metadata when it is finished, with
\* either library, although one of them strips nothing.
StrippedIsClean == stage = "done" /\ spec.stripMetadata => metadata = "absent"
=============================================================================
