---------------------------- MODULE FrameFormats ----------------------------
(***************************************************************************)
(* What a camera frame becomes, in bytes and metadata, from the camera slot  *)
(* through preprocess(), run_inference() and worker() to the image pipe, for *)
(* every model helper.  The resize map, the dimensions and resize_output are *)
(* made for the first frame and kept; the camera may come back from a        *)
(* reconnect with other dimensions or another format, and nothing notices    *)
(* (_camera_connect_cb and _camera_disconnect_cb only print).  One frame is  *)
(* followed at a time; how frames share the buffers is Segmentation.         *)
(***************************************************************************)
EXTENDS Naturals

CONSTANTS
    Modes,          \* [format, w, h] the camera may stream in
    Helpers,        \* subset of HelperClasses
    Inputs,         \* [w, h, channels] the input tensor of a model may have
    YOLO_SIDE,      \* 640: what YoloV8ModelHelper::run_inference takes for w and h
    BORDER,         \* right_pixel_border
    MaxReconnects   \* bound of the model

HelperClasses == {"YoloV8", "Detection", "Classification", "PoseNet", "FastDepth", "DeepLab", "Gate"}

ASSUME FrameFormatsAssumption ==
    /\ Helpers \subseteq HelperClasses
    /\ \A m \in Modes : m \in [format : STRING, w : Nat, h : Nat] /\ m.format # "none"
    /\ Inputs \subseteq [w : Nat, h : Nat, channels : 0 .. 3]
    /\ {YOLO_SIDE, BORDER, MaxReconnects} \subseteq Nat

VARIABLES
    camera,         \* mode of the camera
    reconnects,
    helper,         \* class of the model helper
    model,          \* dimensions of its input tensor
    first,          \* mode of the first frame: map, input_width, input_height
    resize_bytes,   \* size of resize_output
    pc,
    frame,          \* mode the frame in work was sent in
    meta,           \* its metadata, in the camera slot
    output_image, preprocessed_image,
    read, written, filled,   \* bytes of the slot, of resize_output and of
                             \* preprocessed_image that were used
    published       \* what was written to the image pipe last

fmtVars == <<camera, reconnects, helper, model, first, resize_bytes, pc, frame, meta, output_image,
             preprocessed_image, read, written, filled, published>>

model_width == model.w
model_height == model.h
model_channels == model.channels    \* preprocess() makes three for every model

None == [format |-> "none", w |-> 0, h |-> 0]
NoMeta == [format |-> "none", w |-> 0, h |-> 0, size |-> 0, stride |-> 0]
Mat(w, h, channels, elem) == [w |-> w, h |-> h, channels |-> channels, elem |-> elem]
NoMat == Mat(0, 0, 0, 0)
MatBytes(m) == m.w * m.h * m.channels * m.elem

\* The left image of a pair; preprocess() falls through to its case.
Unstereo(format) ==
    CASE format = "STEREO_NV12" -> "NV12"
      [] format = "STEREO_NV21" -> "NV21"
      [] format = "STEREO_RAW8" -> "RAW8"
      [] OTHER -> format
Colour == {"NV12", "NV21", "YUV422"}

\* Bytes of one image in a format; a pair has twice as many.
ImageBytes(format, w, h) ==
    CASE format \in {"NV12", "NV21"} -> (h + h \div 2) * w
      [] format = "YUV422" -> h * w * 2
      [] format = "RGB" -> h * w * 3
      [] OTHER -> h * w
FrameBytes(m) ==
    (IF Unstereo(m.format) = m.format THEN 1 ELSE 2) * ImageBytes(Unstereo(m.format), m.w, m.h)

FmtInit ==
    /\ camera \in Modes /\ reconnects = 0
    /\ helper \in Helpers /\ model \in Inputs
    /\ first = None /\ resize_bytes = 0
    /\ pc = "idle" /\ frame = None /\ meta = NoMeta
    /\ output_image = NoMat /\ preprocessed_image = NoMat
    /\ read = 0 /\ written = 0 /\ filled = 0
    /\ published = NoMeta
-----------------------------------------------------------------------------
Reconnect ==
    /\ pc = "idle"
    /\ reconnects < MaxReconnects
    /\ reconnects' = reconnects + 1
    /\ camera' \in Modes \ {camera}
    /\ UNCHANGED <<helper, model, first, resize_bytes, pc, frame, meta, output_image,
                   preprocessed_image, read, written, filled, published>>

\* The callback has stored a frame and its metadata.
StoreFrame ==
    /\ pc = "idle"
    /\ pc' = "preprocess"
    /\ frame' = camera
    /\ meta' = [format |-> camera.format, w |-> camera.w, h |-> camera.h,
                size |-> FrameBytes(camera), stride |-> camera.w]
    /\ output_image' = NoMat /\ preprocessed_image' = NoMat
    /\ read' = 0 /\ written' = 0 /\ filled' = 0 /\ published' = NoMeta
    /\ UNCHANGED <<camera, reconnects, helper, model, first, resize_bytes>>

\* (Variant: a grey pair is taken for a grey image when the buffer is sized.)
FirstFrameGrey ==
    /\ pc = "preprocess" /\ first = None
    /\ first' = frame
    /\ resize_bytes' = model_height * model_width *
                         (IF Unstereo(meta.format) = "RAW8" THEN 1 ELSE 3)
    /\ pc' = "idle"
    /\ UNCHANGED <<camera, reconnects, helper, model, frame, meta, output_image,
                   preprocessed_image, read, written, filled, published>>

FirstFrame ==
    /\ pc = "preprocess" /\ first = None
    /\ first' = frame
    /\ resize_bytes' = model_height * model_width * (IF meta.format = "RAW8" THEN 1 ELSE 3)
    /\ pc' = "idle"
    /\ UNCHANGED <<camera, reconnects, helper, model, frame, meta, output_image,
                   preprocessed_image, read, written, filled, published>>

\* YoloV8ModelHelper::preprocess turns the model's input into floats.
Elem == IF helper = "YoloV8" THEN 4 ELSE 1
ForModel(channels) == Mat(model_width, model_height, channels, Elem)

\* A colour frame, or the left one of a pair, is converted with the dimensions of
\* the first frame; the metadata is rewritten with its own.
PreprocessColour ==
    /\ pc = "preprocess" /\ first # None
    /\ Unstereo(meta.format) \in Colour
    /\ read' = ImageBytes(Unstereo(meta.format), first.w, first.h)
    /\ output_image' = Mat(first.w, first.h, 3, 1)
    /\ written' = model_height * model_width * 3
    /\ preprocessed_image' = ForModel(3)
    /\ meta' = [meta EXCEPT !.format = "RGB", !.size = meta.h * meta.w * 3, !.stride = meta.w * 3]
    /\ pc' = "inference"
    /\ UNCHANGED <<camera, reconnects, helper, model, first, resize_bytes, frame, filled, published>>

\* A grey frame is used where it lies in the slot; the size of a pair stays.
PreprocessGrey ==
    /\ pc = "preprocess" /\ first # None
    /\ Unstereo(meta.format) = "RAW8"
    /\ read' = first.w * first.h
    /\ output_image' = Mat(first.w, first.h, 1, 1)
    /\ written' = model_height * model_width
    /\ preprocessed_image' = ForModel(3)
    /\ meta' = [meta EXCEPT !.format = "RAW8"]
    /\ pc' = "inference"
    /\ UNCHANGED <<camera, reconnects, helper, model, first, resize_bytes, frame, filled, published>>

RefuseFormat ==
    /\ pc = "preprocess" /\ first # None
    /\ Unstereo(meta.format) \notin Colour \cup {"RAW8"}
    /\ pc' = "idle"
    /\ UNCHANGED <<camera, reconnects, helper, model, first, resize_bytes, frame, meta, output_image,
                   preprocessed_image, read, written, filled, published>>

\* The input tensor is filled row by row from the bytes of the image; for YOLOv8
\* in one copy of a fixed length, whatever the dimensions of its tensor.  An input
\* type that is not supported, or Invoke(), may fail.
RunInference ==
    /\ pc = "inference"
    /\ filled' = Elem * IF helper = "YoloV8" THEN YOLO_SIDE * YOLO_SIDE * 3
                       ELSE model_height * model_width * model_channels
    /\ pc' \in {"worker", "idle"}
    /\ UNCHANGED <<camera, reconnects, helper, model, first, resize_bytes, frame, meta,
                   output_image, preprocessed_image, read, written, published>>

\* pipe_server_write_camera_frame writes meta and meta.size bytes of an image.
Write(m, image) ==
    /\ published' = m
    /\ output_image' = image
    /\ pc' = "idle"
    /\ UNCHANGED <<camera, reconnects, helper, model, first, resize_bytes, frame, meta,
                   preprocessed_image, read, written, filled>>

\* The helpers that draw on the camera image and publish it under its metadata:
\* boxes, the most probable class, or the joints.
DrawOnFrame(class) ==
    /\ pc = "worker"
    /\ helper = class
    /\ Write(meta, output_image)
DrawDetections == DrawOnFrame("Detection") \/ DrawOnFrame("YoloV8")
DrawClass == DrawOnFrame("Classification")
DrawPose  == DrawOnFrame("PoseNet")

\* (Variant: the size of the camera frame is left in the metadata.)
FastDepthOldSize ==
    /\ pc = "worker"
    /\ helper = "FastDepth"
    /\ Write([meta EXCEPT !.format = "RGB", !.w = model_width, !.h = model_height],
             Mat(model_width, model_height, 3, 1))

\* The depth map, coloured, replaces the output image.
FastDepth ==
    /\ pc = "worker"
    /\ helper = "FastDepth"
    /\ Write([format |-> "RGB", w |-> model_width, h |-> model_height,
              size |-> model_width * model_height * 3, stride |-> model_width * 3],
             Mat(model_width, model_height, 3, 1))

\* The model's input with the classes blended in, and the key at its right.
DeepLab ==
    /\ pc = "worker"
    /\ helper = "DeepLab"
    /\ LET w == model_width + BORDER IN
         Write([format |-> "RGB", w |-> w, h |-> model_height,
                size |-> model_height * w * 3, stride |-> w * 3],
               [preprocessed_image EXCEPT !.w = w])

\* The gate helpers write the first values of their tensor to the detection pipe.
Gate ==
    /\ pc = "worker"
    /\ helper = "Gate"
    /\ pc' = "idle"
    /\ UNCHANGED <<camera, reconnects, helper, model, first, resize_bytes, frame, meta, output_image,
                   preprocessed_image, read, written, filled, published>>

FmtNext ==
    \/ Reconnect \/ StoreFrame \/ FirstFrame
    \/ PreprocessColour \/ PreprocessGrey \/ RefuseFormat
    \/ RunInference \/ DrawDetections \/ DrawClass \/ DrawPose \/ FastDepth \/ DeepLab \/ Gate

FmtSpec == FmtInit /\ [][FmtNext]_fmtVars
-----------------------------------------------------------------------------
(***************************************************************************)
(* Properties.                                                               *)
(***************************************************************************)
MatType(m) == m.w \in Nat /\ m.h \in Nat /\ m.channels \in 0 .. 3 /\ m.elem \in {0, 1, 4}
MetaType(m) == m.w \in Nat /\ m.h \in Nat /\ m.size \in Nat /\ m.stride \in Nat

\* The type invariant; a frame that reaches inference has been converted to the
\* three channels a model takes.
FmtTypeOK ==
    /\ camera \in Modes /\ reconnects \in 0 .. MaxReconnects
    /\ helper \in Helpers /\ model \in Inputs
    /\ first \in Modes \cup {None} /\ frame \in Modes \cup {None}
    /\ pc \in {"idle", "preprocess", "inference", "worker"}
    /\ MatType(output_image) /\ MatType(preprocessed_image)
    /\ MetaType(meta) /\ MetaType(published)
    /\ pc \in {"inference", "worker"} => preprocessed_image.channels = 3

SameSize == first.w = frame.w /\ first.h = frame.h

\* As long as the camera keeps the dimensions of the first frame, however its
\* format changes, the conversion reads no more than the frame has: for a pair,
\* the left image (model_helper.cpp:272, 287, 306, 325).
ReadsOwnFrame == SameSize => read <= ImageBytes(Unstereo(frame.format), frame.w, frame.h)

\* resize_output is sized for the format of the first frame and holds what every
\* later one writes, unless the first was RAW8 and the camera turns to colour.
ResizeFits ==
    written <= resize_bytes \/ (first.format = "RAW8" /\ Unstereo(frame.format) \in Colour)

\* The input tensor is filled as a whole, and from inside the preprocessed image,
\* in every format and for the floats YOLOv8 makes of it (model_helper.cpp:418-433,
\* yolov8_model_helper.cpp:172).  The exception: a YOLOv8 or YOLO11 whose tensor is
\* not 640x640x3, of which the fixed length copies too much or too little.
FillsTensor ==
    filled # 0 =>
        \/ /\ filled = Elem * (model_height * model_width * model_channels)
           /\ filled <= MatBytes(preprocessed_image)
        \/ helper = "YoloV8" /\ model # [w |-> YOLO_SIDE, h |-> YOLO_SIDE, channels |-> 3]

\* No step of a frame leaves its buffer: the three together.
AccessesFit == ReadsOwnFrame /\ ResizeFits /\ FillsTensor

\* What goes out on the image pipe is one whole image of the dimensions and format
\* its metadata states.  The exceptions: a frame drawn on after the camera changed
\* its dimensions, and a grey pair, sent as one image with the size of two.
PublishedIsWholeImage ==
    published # NoMeta =>
        \/ /\ published.size = ImageBytes(published.format, published.w, published.h)
           /\ published.size = MatBytes(output_image)
        \/ helper \notin {"FastDepth", "DeepLab"} /\ ~SameSize
        \/ helper \notin {"FastDepth", "DeepLab"} /\ frame.format = "STEREO_RAW8"
=============================================================================
