-------------------------- MODULE PreprocessProofs --------------------------
(***************************************************************************)
(* Proofs about the two models of what preprocess() makes of a frame.      *)
(* FrameFormats, for every set of camera modes and of models, any size of the *)
(* key and any number of reconnects: a frame stays inside its buffers, and   *)
(* what is published is an image of the size stated.  ImageResize, for every *)
(* size of image and tensor and every rounding: no pixel is left blank, its  *)
(* place is kept, its weights have the sums stated, red is resized as grey.  *)
(***************************************************************************)
EXTENDS FrameFormats, ImageResize, TLAPS

\* The metadata the camera server sends with a frame of a mode.
FreshMeta(m) ==
    [format |-> m.format, w |-> m.w, h |-> m.h, size |-> FrameBytes(m), stride |-> m.w]
NothingUsed == read = 0 /\ written = 0 /\ filled = 0

\* resize_output has been allocated for the first frame; until then nothing is used.
Sized ==
    IF first = None THEN NothingUsed /\ published = NoMeta /\ resize_bytes = 0
    ELSE resize_bytes = model_height * model_width * (IF first.format = "RAW8" THEN 1 ELSE 3)

\* A frame that waits for its conversion is as the camera sent it.
Unconverted ==
    pc = "preprocess" =>
        frame \in Modes /\ meta = FreshMeta(frame) /\ NothingUsed /\ published = NoMeta

\* One that has been converted: its metadata has the dimensions of the frame,
\* its image those of the first frame.
Converted ==
    pc \in {"inference", "worker"} =>
        /\ frame \in Modes /\ first # None /\ published = NoMeta
        /\ preprocessed_image = ForModel(3)
        /\ \/ /\ Unstereo(frame.format) \in Colour
              /\ meta = [format |-> "RGB", w |-> frame.w, h |-> frame.h,
                         size |-> frame.h * frame.w * 3, stride |-> frame.w * 3]
              /\ output_image = Mat(first.w, first.h, 3, 1)
           \/ /\ Unstereo(frame.format) = "RAW8"
              /\ meta = [FreshMeta(frame) EXCEPT !.format = "RAW8"]
              /\ output_image = Mat(first.w, first.h, 1, 1)

\* The inductive invariant.
FmtIInv == FmtTypeOK /\ Sized /\ Unconverted /\ Converted /\ AccessesFit /\ PublishedIsWholeImage
-----------------------------------------------------------------------------
(***************************************************************************)
(* Sizes.                                                                  *)
(***************************************************************************)

USE DEF model_width, model_height, model_channels, Elem

LEMMA ProductNat == \A a, b \in Nat : a * b \in Nat /\ a * b = b * a
  OBVIOUS

LEMMA HalfNat == \A h \in Nat : h \div 2 \in Nat
  OBVIOUS

\* The size of an image is a number, in every format.
LEMMA ImageBytesNat ==
    ASSUME NEW format, NEW w \in Nat, NEW h \in Nat
    PROVE  ImageBytes(format, w, h) \in Nat
<1>1. h + h \div 2 \in Nat
  BY HalfNat
<1>2. (h + h \div 2) * w \in Nat /\ h * w \in Nat
  BY <1>1, ProductNat
<1>3. h * w * 2 \in Nat /\ h * w * 3 \in Nat
  BY <1>2
<1>4. QED
  BY <1>2, <1>3 DEF ImageBytes

\* What is known of the tensor of every model.
LEMMA InputFacts ==
    ASSUME model \in Inputs
    PROVE  model_width \in Nat /\ model_height \in Nat /\ model_channels \in 0 .. 3
  BY FrameFormatsAssumption

LEMMA ModelFacts ==
    ASSUME FmtIInv
    PROVE  /\ model \in Inputs
           /\ model_width \in Nat /\ model_height \in Nat /\ model_channels \in 0 .. 3
  BY InputFacts DEF FmtIInv, FmtTypeOK

\* What is known of every mode.
LEMMA ModeFacts ==
    ASSUME NEW m \in Modes
    PROVE  /\ m.w \in Nat /\ m.h \in Nat /\ m # None
           /\ m = [format |-> m.format, w |-> m.w, h |-> m.h]
           /\ FrameBytes(m) \in Nat
           /\ MetaType(FreshMeta(m))
<1>1. /\ m.w \in Nat /\ m.h \in Nat /\ m.format # "none"
      /\ m \in [format : STRING, w : Nat, h : Nat]
  BY FrameFormatsAssumption
<1>2. m # None
  BY <1>1 DEF None
<1>3. FrameBytes(m) \in Nat
  BY <1>1, ImageBytesNat DEF FrameBytes
<1>4. QED
  BY <1>1, <1>2, <1>3 DEF MetaType, FreshMeta

LEMMA FirstFacts ==
    ASSUME NEW m \in Modes \cup {None}
    PROVE  m.w \in Nat /\ m.h \in Nat
  BY ModeFacts DEF None

\* The classes of formats do not overlap.
LEMMA FormatClasses ==
    ASSUME NEW format
    PROVE  /\ format = "RAW8" => Unstereo(format) = "RAW8"
           /\ format = "STEREO_RAW8" => Unstereo(format) = "RAW8"
           /\ Unstereo(format) = "RAW8" => format \in {"RAW8", "STEREO_RAW8"}
           /\ Unstereo(format) = "RAW8" => Unstereo(format) \notin Colour
  BY DEF Unstereo, Colour

LEMMA NoneFits ==
    /\ MatType(NoMat) /\ MetaType(NoMeta)
    /\ MatBytes(NoMat) = 0
  BY DEF MatType, MetaType, NoMat, NoMeta, Mat, MatBytes

\* The image made for the model has three channels, of bytes or of floats.
LEMMA ForModelFacts ==
    ASSUME model \in Inputs
    PROVE  /\ MatType(ForModel(3)) /\ ForModel(3).channels = 3
           /\ ForModel(3).w = model_width /\ ForModel(3).h = model_height
           /\ ForModel(3).elem = Elem
  BY InputFacts DEF ForModel, Mat, MatType, Elem

\* A tensor of at most three channels is filled from inside that image.
LEMMA TensorFits ==
    ASSUME NEW w \in Nat, NEW h \in Nat, NEW c \in 0 .. 3, NEW e \in Nat
    PROVE  e * (h * w * c) <= w * h * 3 * e
<1>1. PICK a \in Nat : a = h * w /\ a = w * h
  BY ProductNat
<1>2. a * c <= a * 3
  OBVIOUS
<1>3. a * c \in Nat /\ a * 3 \in Nat
  OBVIOUS
<1>4. \A x, y \in Nat : x <= y => e * x <= y * e
  OBVIOUS
<1>5. QED
  BY <1>1, <1>2, <1>3, <1>4
-----------------------------------------------------------------------------
(***************************************************************************)
(* The invariant.                                                          *)
(***************************************************************************)

LEMMA InitFmtIInv == FmtInit => FmtIInv
<1> SUFFICES ASSUME FmtInit PROVE FmtIInv
  OBVIOUS
<1> USE DEF FmtInit
<1>1. /\ FmtTypeOK /\ Sized /\ Unconverted /\ Converted
  BY NoneFits, FrameFormatsAssumption DEF FmtTypeOK, Sized, NothingUsed, Unconverted, Converted
<1>2. AccessesFit
  <2>1. ImageBytes(Unstereo(frame.format), frame.w, frame.h) \in Nat
    BY ImageBytesNat, FirstFacts DEF None
  <2>2. QED
    BY <2>1, NoneFits DEF AccessesFit, ReadsOwnFrame, ResizeFits, FillsTensor
<1>3. PublishedIsWholeImage
  BY DEF PublishedIsWholeImage
<1>4. QED
  BY <1>1, <1>2, <1>3 DEF FmtIInv

\* A reconnect changes the camera, not the frame in work or the buffers.
LEMMA ReconnectStep == FmtIInv /\ Reconnect => FmtIInv'
<1> SUFFICES ASSUME FmtIInv, Reconnect PROVE FmtIInv'
  OBVIOUS
<1> USE DEF Reconnect
<1>1. FmtTypeOK'
  BY FrameFormatsAssumption DEF FmtIInv, FmtTypeOK
<1>2. Sized' /\ Unconverted' /\ Converted'
  BY DEF FmtIInv, Sized, NothingUsed, Unconverted, Converted
<1>3. AccessesFit' /\ PublishedIsWholeImage'
  BY DEF FmtIInv, AccessesFit, ReadsOwnFrame, SameSize, ResizeFits, FillsTensor,
     PublishedIsWholeImage
<1>4. QED
  BY <1>1, <1>2, <1>3 DEF FmtIInv

LEMMA StoreFrameStep == FmtIInv /\ StoreFrame => FmtIInv'
<1> SUFFICES ASSUME FmtIInv, StoreFrame PROVE FmtIInv'
  OBVIOUS
<1> USE DEF StoreFrame
<1>1. camera \in Modes /\ meta' = FreshMeta(camera)
  BY DEF FmtIInv, FmtTypeOK, FreshMeta
<1>2. FmtTypeOK'
  BY <1>1, ModeFacts, NoneFits DEF FmtIInv, FmtTypeOK
<1>3. Sized' /\ Unconverted' /\ Converted' /\ NothingUsed'
  BY <1>1 DEF FmtIInv, Sized, NothingUsed, Unconverted, Converted, FreshMeta
<1>4. AccessesFit'
  <2>1. ImageBytes(Unstereo(frame.format), frame.w, frame.h)' \in Nat
    BY <1>1, ImageBytesNat, ModeFacts
  <2>2. resize_bytes \in Nat
    BY ProductNat, ModelFacts DEF FmtIInv, Sized
  <2>3. QED
    BY <1>3, <2>1, <2>2, NoneFits DEF AccessesFit, ReadsOwnFrame, ResizeFits, FillsTensor, NothingUsed, MatBytes
<1>5. PublishedIsWholeImage'
  BY DEF PublishedIsWholeImage
<1>6. QED
  BY <1>2, <1>3, <1>4, <1>5 DEF FmtIInv

\* The first frame only sizes the buffers.
LEMMA FirstFrameStep == FmtIInv /\ FirstFrame => FmtIInv'
<1> SUFFICES ASSUME FmtIInv, FirstFrame PROVE FmtIInv'
  OBVIOUS
<1> USE DEF FirstFrame
<1>1. frame \in Modes /\ meta = FreshMeta(frame) /\ NothingUsed /\ published = NoMeta
  BY DEF FmtIInv, Unconverted
<1>2. FmtTypeOK'
  BY DEF FmtIInv, FmtTypeOK
<1>3. Sized' /\ Unconverted' /\ Converted' /\ NothingUsed'
  <2>1. frame # None /\ meta.format = frame.format
    BY <1>1, ModeFacts DEF FreshMeta
  <2>2. QED
    BY <1>1, <2>1 DEF Sized, NothingUsed, Unconverted, Converted
<1>4. AccessesFit'
  <2>1. ImageBytes(Unstereo(frame.format), frame.w, frame.h) \in Nat
    BY <1>1, ImageBytesNat, ModeFacts
  <2>2. resize_bytes' \in Nat
    BY ProductNat, ModelFacts
  <2>3. FillsTensor'
    BY DEF FmtIInv, AccessesFit, FillsTensor
  <2>4. QED
    BY <1>3, <2>1, <2>2, <2>3 DEF AccessesFit, ReadsOwnFrame, ResizeFits, NothingUsed
<1>5. PublishedIsWholeImage'
  BY <1>1 DEF PublishedIsWholeImage
<1>6. QED
  BY <1>2, <1>3, <1>4, <1>5 DEF FmtIInv

\* The conversion of a colour frame reads one image of its format, if the camera
\* kept its dimensions, and rewrites the metadata.
LEMMA ColourStep == FmtIInv /\ PreprocessColour => FmtIInv'
<1> SUFFICES ASSUME FmtIInv, PreprocessColour PROVE FmtIInv'
  OBVIOUS
<1> USE DEF PreprocessColour
<1>1. /\ frame \in Modes /\ meta = FreshMeta(frame) /\ NothingUsed /\ published = NoMeta
      /\ meta.format = frame.format /\ meta.w = frame.w /\ meta.h = frame.h
  BY DEF FmtIInv, Unconverted, FreshMeta
<1>2. /\ frame.w \in Nat /\ frame.h \in Nat /\ first.w \in Nat /\ first.h \in Nat
      /\ frame.h * frame.w * 3 \in Nat /\ frame.w * 3 \in Nat
  BY <1>1, ModeFacts, FirstFacts, ProductNat DEF FmtIInv, FmtTypeOK
<1>3. meta' = [format |-> "RGB", w |-> frame.w, h |-> frame.h,
               size |-> frame.h * frame.w * 3, stride |-> frame.w * 3]
  BY <1>1 DEF FreshMeta
<1>4. FmtTypeOK'
  BY <1>2, <1>3, ForModelFacts DEF FmtIInv, FmtTypeOK, MatType, MetaType, Mat
<1>5. Sized' /\ Unconverted'
  BY DEF FmtIInv, Sized, Unconverted
<1>6. Converted'
  BY <1>1, <1>3 DEF Converted, ForModel
<1>7. ReadsOwnFrame'
  <2>1. ImageBytes(Unstereo(frame.format), frame.w, frame.h) \in Nat
    BY <1>2, ImageBytesNat
  <2>2. QED
    BY <1>1, <2>1 DEF ReadsOwnFrame, SameSize
<1>8. ResizeFits'
  <2>1. model_height * model_width \in Nat
    BY ProductNat, ModelFacts
  <2>2. CASE first.format = "RAW8"
    BY <1>1, <2>2 DEF ResizeFits
  <2>3. CASE first.format # "RAW8"
    BY <2>1, <2>3 DEF ResizeFits, FmtIInv, Sized
  <2>4. QED
    BY <2>2, <2>3
<1>9. FillsTensor'
  <2>1. /\ filled' = 0 /\ MatBytes(ForModel(3)) \in Nat
    BY <1>1, ModelFacts, ForModelFacts, ProductNat, ModelFacts DEF NothingUsed, MatBytes
  <2>2. preprocessed_image' = ForModel(3)
    OBVIOUS
  <2>3. QED
    BY <2>1, <2>2 DEF FillsTensor, MatBytes
<1>10. PublishedIsWholeImage'
  BY <1>1 DEF PublishedIsWholeImage
<1>11. QED
  BY <1>4, <1>5, <1>6, <1>7, <1>8, <1>9, <1>10 DEF FmtIInv, AccessesFit

\* A grey frame is used in place; the size of a pair stays in its metadata.
LEMMA GreyStep == FmtIInv /\ PreprocessGrey => FmtIInv'
<1> SUFFICES ASSUME FmtIInv, PreprocessGrey PROVE FmtIInv'
  OBVIOUS
<1> USE DEF PreprocessGrey
<1>1. /\ frame \in Modes /\ meta = FreshMeta(frame) /\ NothingUsed /\ published = NoMeta
      /\ meta.format = frame.format
  BY DEF FmtIInv, Unconverted, FreshMeta
<1>2. /\ frame.w \in Nat /\ frame.h \in Nat /\ first.w \in Nat /\ first.h \in Nat
      /\ MetaType(meta')
  BY <1>1, ModeFacts, FirstFacts DEF FmtIInv, FmtTypeOK, MetaType, FreshMeta
<1>3. FmtTypeOK'
  BY <1>2, ForModelFacts DEF FmtIInv, FmtTypeOK, MatType, Mat
<1>4. Sized' /\ Unconverted'
  BY DEF FmtIInv, Sized, Unconverted
<1>5. Converted'
  BY <1>1 DEF Converted, ForModel
<1>6. ReadsOwnFrame'
  <2>1. ImageBytes(Unstereo(frame.format), frame.w, frame.h) = frame.h * frame.w
    BY <1>1 DEF ImageBytes
  <2>2. frame.w * frame.h = frame.h * frame.w /\ frame.h * frame.w \in Nat
    BY <1>2, ProductNat
  <2>3. QED
    BY <1>1, <2>1, <2>2 DEF ReadsOwnFrame, SameSize
<1>7. ResizeFits'
  <2>1. model_height * model_width \in Nat
    BY ProductNat, ModelFacts
  <2>2. resize_bytes >= model_height * model_width
    BY <2>1 DEF FmtIInv, Sized
  <2>3. QED
    BY <2>1, <2>2 DEF ResizeFits, FmtIInv, Sized
<1>8. FillsTensor'
  <2>1. /\ filled' = 0 /\ MatBytes(ForModel(3)) \in Nat
    BY <1>1, ModelFacts, ForModelFacts, ProductNat, ModelFacts DEF NothingUsed, MatBytes
  <2>2. preprocessed_image' = ForModel(3)
    OBVIOUS
  <2>3. QED
    BY <2>1, <2>2 DEF FillsTensor, MatBytes
<1>9. PublishedIsWholeImage'
  BY <1>1 DEF PublishedIsWholeImage
<1>10. QED
  BY <1>3, <1>4, <1>5, <1>6, <1>7, <1>8, <1>9 DEF FmtIInv, AccessesFit

LEMMA RefuseStep == FmtIInv /\ RefuseFormat => FmtIInv'
<1> SUFFICES ASSUME FmtIInv, RefuseFormat PROVE FmtIInv'
  OBVIOUS
<1> USE DEF RefuseFormat
<1>1. FmtTypeOK' /\ Sized' /\ Unconverted' /\ Converted'
  BY DEF FmtIInv, FmtTypeOK, Sized, NothingUsed, Unconverted, Converted
<1>2. AccessesFit' /\ PublishedIsWholeImage'
  BY DEF FmtIInv, AccessesFit, ReadsOwnFrame, SameSize, ResizeFits, FillsTensor,
     PublishedIsWholeImage
<1>3. QED
  BY <1>1, <1>2 DEF FmtIInv

\* The tensor has at most the three channels of the image, of the same width.
LEMMA InferenceStep == FmtIInv /\ RunInference => FmtIInv'
<1> SUFFICES ASSUME FmtIInv, RunInference PROVE FmtIInv'
  OBVIOUS
<1> USE DEF RunInference
<1>1. /\ frame \in Modes /\ first # None /\ published = NoMeta
      /\ preprocessed_image = ForModel(3)
  BY DEF FmtIInv, Converted
<1>2. FmtTypeOK'
  BY <1>1, ModelFacts, ForModelFacts DEF FmtIInv, FmtTypeOK
<1>3. Sized' /\ Unconverted' /\ Converted'
  BY <1>1 DEF FmtIInv, Sized, Unconverted, Converted, ForModel
<1>4. FillsTensor'
  <2>. DEFINE fixed == [w |-> YOLO_SIDE, h |-> YOLO_SIDE, channels |-> 3]
              all == Elem * (model_height * model_width * model_channels)
  <2>1. CASE helper = "YoloV8" /\ model # fixed
    BY <2>1 DEF FillsTensor
  <2>2. CASE ~(helper = "YoloV8" /\ model # fixed)
    <3>1. filled' = all
      BY <2>2
    <3>2. MatBytes(ForModel(3)) = model_width * model_height * 3 * Elem
      BY DEF MatBytes, ForModel, Mat
    <3>3. all <= MatBytes(ForModel(3))
      BY <3>2, ModelFacts, TensorFits
    <3>4. preprocessed_image' = ForModel(3) /\ all' = all
      BY <1>1
    <3>. QED  BY <3>1, <3>3, <3>4 DEF FillsTensor
  <2>. QED  BY <2>1, <2>2
<1>5. ReadsOwnFrame' /\ ResizeFits' /\ PublishedIsWholeImage'
  BY <1>1 DEF FmtIInv, AccessesFit, ReadsOwnFrame, SameSize, ResizeFits,
     PublishedIsWholeImage
<1>6. QED
  BY <1>2, <1>3, <1>4, <1>5 DEF FmtIInv, AccessesFit

\* A worker that writes an image whose size its metadata states, or one of the two
\* exceptions, ends the work on the frame.
LEMMA WriteStep ==
    ASSUME FmtIInv, pc = "worker", NEW m, NEW image, Write(m, image),
           MetaType(m), MatType(image),
           \/ /\ m.size = ImageBytes(m.format, m.w, m.h)
              /\ m.size = MatBytes(image)
           \/ helper \notin {"FastDepth", "DeepLab"} /\ ~SameSize
           \/ helper \notin {"FastDepth", "DeepLab"} /\ frame.format = "STEREO_RAW8"
    PROVE  FmtIInv'
<1> USE DEF Write
<1>1. first # None
  BY DEF FmtIInv, Converted
<1>2. FmtTypeOK'
  BY DEF FmtIInv, FmtTypeOK
<1>3. Sized' /\ Unconverted' /\ Converted'
  BY <1>1 DEF FmtIInv, Sized, Unconverted, Converted
<1>4. AccessesFit'
  BY DEF FmtIInv, AccessesFit, ReadsOwnFrame, SameSize, ResizeFits, FillsTensor, MatBytes
<1>5. PublishedIsWholeImage'
  <2>1. published' = m /\ output_image' = image
    OBVIOUS
  <2>2. MatBytes(output_image)' = MatBytes(image)
    BY <2>1 DEF MatBytes
  <2>3. ImageBytes(published.format, published.w, published.h)' = ImageBytes(m.format, m.w, m.h)
    BY <2>1
  <2>4. SameSize' = SameSize /\ helper' = helper /\ frame' = frame
    BY DEF SameSize
  <2>5. QED
    BY <2>1, <2>2, <2>3, <2>4 DEF PublishedIsWholeImage
<1>6. QED
  BY <1>2, <1>3, <1>4, <1>5 DEF FmtIInv

\* The helpers that draw on the frame publish it under the metadata of its
\* conversion.
LEMMA DrawStep ==
    ASSUME FmtIInv, NEW class \in HelperClasses \ {"FastDepth", "DeepLab"}, DrawOnFrame(class)
    PROVE  FmtIInv'
<1> USE DEF DrawOnFrame
<1>1. /\ frame \in Modes /\ MetaType(meta) /\ MatType(output_image)
      /\ frame.w \in Nat /\ frame.h \in Nat /\ first.w \in Nat /\ first.h \in Nat
      /\ helper \notin {"FastDepth", "DeepLab"}
  BY ModeFacts, FirstFacts DEF FmtIInv, FmtTypeOK, Converted
<1>2. ASSUME SameSize, frame.format # "STEREO_RAW8"
      PROVE  /\ meta.size = ImageBytes(meta.format, meta.w, meta.h)
             /\ meta.size = MatBytes(output_image)
  <2>1. frame.h * frame.w \in Nat /\ frame.h * frame.w = first.w * first.h
    BY <1>1, <1>2, ProductNat DEF SameSize
  <2>2. CASE Unstereo(frame.format) \in Colour
    <3>1. /\ meta = [format |-> "RGB", w |-> frame.w, h |-> frame.h,
                     size |-> frame.h * frame.w * 3, stride |-> frame.w * 3]
          /\ output_image = Mat(first.w, first.h, 3, 1)
      BY <2>2, FormatClasses DEF FmtIInv, Converted
    <3>2. ImageBytes(meta.format, meta.w, meta.h) = frame.h * frame.w * 3
      BY <3>1 DEF ImageBytes
    <3>3. MatBytes(output_image) = first.w * first.h * 3
      BY <1>1, <2>1, <3>1 DEF MatBytes, Mat
    <3>4. QED
      BY <2>1, <3>1, <3>2, <3>3
  <2>3. CASE Unstereo(frame.format) = "RAW8"
    <3>1. /\ meta = [FreshMeta(frame) EXCEPT !.format = "RAW8"]
          /\ output_image = Mat(first.w, first.h, 1, 1)
      BY <2>3, FormatClasses DEF FmtIInv, Converted
    <3>2. frame.format = "RAW8"
      BY <1>2, <2>3, FormatClasses
    <3>3. meta.size = frame.h * frame.w
      BY <2>1, <3>1, <3>2 DEF FreshMeta, FrameBytes, ImageBytes, Unstereo
    <3>4. ImageBytes(meta.format, meta.w, meta.h) = frame.h * frame.w
      BY <3>1 DEF ImageBytes, FreshMeta
    <3>5. MatBytes(output_image) = first.w * first.h
      BY <1>1, <2>1, <3>1 DEF MatBytes, Mat
    <3>6. QED
      BY <2>1, <3>3, <3>4, <3>5
  <2>4. QED
    BY <2>2, <2>3 DEF FmtIInv, Converted
<1>3. Write(meta, output_image)
  OBVIOUS
<1>4. QED
  BY <1>1, <1>2, <1>3, WriteStep

LEMMA FastDepthStep == FmtIInv /\ FastDepth => FmtIInv'
<1> SUFFICES ASSUME FmtIInv, FastDepth PROVE FmtIInv'
  OBVIOUS
<1> DEFINE m == [format |-> "RGB", w |-> model_width, h |-> model_height,
                 size |-> model_width * model_height * 3, stride |-> model_width * 3]
           image == Mat(model_width, model_height, 3, 1)
<1>1. /\ model_width * model_height \in Nat /\ model_width \in Nat /\ model_height \in Nat
      /\ model_width * model_height = model_height * model_width
  BY ProductNat, ModelFacts, FrameFormatsAssumption
<1>2. MetaType(m) /\ MatType(image)
  BY <1>1 DEF MetaType, MatType, Mat
<1>3. m.size = ImageBytes(m.format, m.w, m.h)
  BY <1>1 DEF ImageBytes
<1>4. m.size = MatBytes(image)
  BY <1>1 DEF MatBytes, Mat
<1>5. pc = "worker" /\ Write(m, image)
  BY DEF FastDepth
<1>6. QED
  BY <1>2, <1>3, <1>4, <1>5, WriteStep

\* The key widens the picture and its metadata alike.
LEMMA DeepLabStep == FmtIInv /\ DeepLab => FmtIInv'
<1> SUFFICES ASSUME FmtIInv, DeepLab PROVE FmtIInv'
  OBVIOUS
<1> DEFINE w == model_width + BORDER
           m == [format |-> "RGB", w |-> w, h |-> model_height,
                 size |-> model_height * w * 3, stride |-> w * 3]
           image == [preprocessed_image EXCEPT !.w = w]
<1>1. /\ w \in Nat /\ model_height \in Nat
      /\ w * model_height = model_height * w /\ model_height * w \in Nat
  BY ProductNat, ModelFacts, FrameFormatsAssumption
<1>2. image = Mat(w, model_height, 3, 1)
  BY DEF FmtIInv, Converted, ForModel, Mat, DeepLab
<1> HIDE DEF image
<1>3. MetaType(m) /\ MatType(image)
  BY <1>1, <1>2 DEF MetaType, MatType, Mat
<1>4. m.size = ImageBytes(m.format, m.w, m.h)
  BY <1>1 DEF ImageBytes
<1>5. m.size = MatBytes(image)
  BY <1>1, <1>2 DEF MatBytes, Mat
<1>6. pc = "worker" /\ Write(m, image)
  BY DEF DeepLab, image
<1>7. QED
  BY <1>3, <1>4, <1>5, <1>6, WriteStep

LEMMA GateStep == FmtIInv /\ Gate => FmtIInv'
<1> SUFFICES ASSUME FmtIInv, Gate PROVE FmtIInv'
  OBVIOUS
<1> USE DEF Gate
<1>1. FmtTypeOK' /\ Sized' /\ Unconverted' /\ Converted'
  BY DEF FmtIInv, FmtTypeOK, Sized, NothingUsed, Unconverted, Converted
<1>2. AccessesFit' /\ PublishedIsWholeImage'
  BY DEF FmtIInv, AccessesFit, ReadsOwnFrame, SameSize, ResizeFits, FillsTensor,
     PublishedIsWholeImage
<1>3. QED
  BY <1>1, <1>2 DEF FmtIInv

LEMMA FmtStutter == FmtIInv /\ UNCHANGED fmtVars => FmtIInv'
  BY DEF fmtVars, FmtIInv, FmtTypeOK, Sized, NothingUsed, Unconverted, Converted, AccessesFit,
     ReadsOwnFrame, SameSize, ResizeFits, FillsTensor, PublishedIsWholeImage, ForModel

\* The inductive invariant holds of every behaviour.
THEOREM FormatsInvariant == FmtSpec => []FmtIInv
<1>1. FmtIInv /\ [FmtNext]_fmtVars => FmtIInv'
  <2> SUFFICES ASSUME FmtIInv, [FmtNext]_fmtVars PROVE FmtIInv'
    OBVIOUS
  <2>1. DrawDetections \/ DrawClass \/ DrawPose => FmtIInv'
    BY DrawStep DEF DrawDetections, DrawClass, DrawPose, HelperClasses
  <2>2. QED
    BY <2>1, ReconnectStep, StoreFrameStep, FirstFrameStep, ColourStep, GreyStep, RefuseStep,
       InferenceStep, FastDepthStep, DeepLabStep, GateStep, FmtStutter DEF FmtNext
<1>2. QED
  BY <1>1, InitFmtIInv, PTL DEF FmtSpec

\* Type correctness; a frame that reaches inference has three channels.
THEOREM FormatTypes == FmtSpec => []FmtTypeOK
  BY FormatsInvariant, PTL DEF FmtIInv

\* Whatever modes the camera comes back in, conversion, resize and tensor stay
\* inside the buffers they work on, with the exceptions AccessesFit names.
THEOREM FormatsFit == FmtSpec => []AccessesFit
  BY FormatsInvariant, PTL DEF FmtIInv

\* The image pipe carries whole images of the size their metadata state, with the
\* exceptions PublishedIsWholeImage names.
THEOREM FormatsPublished == FmtSpec => []PublishedIsWholeImage
  BY FormatsInvariant, PTL DEF FmtIInv
-----------------------------------------------------------------------------
(***************************************************************************)
(* resize.c.                                                               *)
(***************************************************************************)

\* A product is monotone in its second factor.
LEMMA Monotone ==
    ASSUME NEW d \in Nat, NEW a \in Int, NEW b \in Int, a <= b
    PROVE  d * a <= d * b
<1>1. d * (b - a) >= 0
  BY SMT
<1>2. d * (b - a) = d * b - d * a
  BY SMT
<1>. QED  BY <1>1, <1>2, SMT

\* The quotient of a position below d*n is below n.
LEMMA QuotientBound ==
    ASSUME NEW d \in Nat \ {0}, NEW n \in Nat, NEW p \in Nat, p < d * n
    PROVE  p \div d \in 0 .. n - 1
<1>. DEFINE q == p \div d
<1>1. /\ q \in Int
      /\ d * q <= p
      /\ p < d * (q + 1)
  BY SMT
<1>2. q >= 0
  <2>1. SUFFICES ASSUME q + 1 <= 0 PROVE FALSE
    BY <1>1, SMT
  <2>2. d * (q + 1) <= d * 0
    BY <2>1, <1>1, Monotone, SMT
  <2>. QED  BY <2>2, <1>1, SMT
<1>3. q < n
  <2>1. SUFFICES ASSUME n <= q PROVE FALSE
    BY <1>1, SMT
  <2>2. d * n <= d * q
    BY <2>1, <1>1, Monotone, SMT
  <2>. QED  BY <2>2, <1>1, SMT
<1>. QED  BY <1>1, <1>2, <1>3, SMT

\* The scale (n_in - 1)/n_out stays a whole step away from the last line, which
\* no rounding can bridge.
LEMMA PositionInside ==
    ASSUME NEW n_in \in Nat \ {0, 1}, NEW n_out \in Nat \ {0},
           NEW i \in 0 .. n_out - 1, NEW e \in {-1, 0, 1}
    PROVE  /\ Position(n_in, i, e) \in Nat
           /\ Position(n_in, i, e) < (K * n_out) * (n_in - 1)
<1>. USE ImageResizeAssumption
<1>. DEFINE m == n_in - 1
<1>. DEFINE s == m * i
<1>0. /\ m \in Nat \ {0} /\ i \in Nat /\ s \in Int
  BY SMT
<1>1. s >= 0
  <2>1. m * 0 <= m * i
    BY <1>0, Monotone, SMT
  <2>. QED  BY <2>1, <1>0, SMT
<1>2. s <= m * n_out - m
  <2>1. m * i <= m * (n_out - 1)
    BY <1>0, Monotone, SMT
  <2>2. m * (n_out - 1) = m * n_out - m
    BY <1>0, SMT
  <2>. QED  BY <2>1, <2>2, <1>0, SMT
<1>3. (K * n_out) * m = K * (m * n_out)
  BY <1>0, SMT
<1>4. /\ K * (m * n_out - m) + 2 <= K * (m * n_out)
      /\ m * n_out - m \in Int
  <2>1. /\ m * n_out \in Int
        /\ m * n_out - m <= m * n_out - 1
    BY <1>0, SMT
  <2>2. K * (m * n_out - m) <= K * (m * n_out - 1)
    BY <2>1, <1>0, Monotone, SMT
  <2>3. K * (m * n_out - 1) = K * (m * n_out) - K
    BY <2>1, SMT
  <2>. QED  BY <2>1, <2>2, <2>3, <1>0, SMT
<1>5. K * s <= K * (m * n_out - m)
  BY <1>0, <1>2, <1>4, Monotone, SMT
<1>6. CASE s = 0
  <2>1. Position(n_in, i, e) = 0
    BY <1>6 DEF Position
  <2>2. 0 <= K * (m * n_out - m)
    BY <1>5, <1>6, SMT
  <2>. QED  BY <2>1, <2>2, <1>3, <1>4, SMT
<1>7. CASE s # 0
  <2>1. Position(n_in, i, e) = s * K + e
    BY <1>7 DEF Position
  <2>2. s * K = K * s /\ K * s \in Int
    BY <1>0, SMT
  <2>3. K * 1 <= K * s
    BY <1>0, <1>1, <1>7, Monotone, SMT
  <2>. QED  BY <2>1, <2>2, <2>3, <1>3, <1>4, <1>5, SMT
<1>. QED  BY <1>6, <1>7

\* So both lines of the 2x2 square exist.
LEMMA SquareFits ==
    ASSUME NEW n_in \in Nat \ {0, 1}, NEW n_out \in Nat \ {0},
           NEW i \in 0 .. n_out - 1, NEW e \in {-1, 0, 1}
    PROVE  Whole(Position(n_in, i, e), n_out) \in 0 .. n_in - 2
<1>. DEFINE p == Position(n_in, i, e)
<1>1. p \in Nat /\ p < (K * n_out) * (n_in - 1)
  BY PositionInside
<1>2. K * n_out \in Nat \ {0}
  <2>1. K * 1 <= K * n_out
    BY ImageResizeAssumption, Monotone, SMT
  <2>. QED  BY <2>1, ImageResizeAssumption, SMT
<1>. DEFINE d == K * n_out
<1>3. d \in Nat \ {0} /\ n_in - 1 \in Nat /\ p < d * (n_in - 1)
  BY <1>1, <1>2, SMT
<1>. HIDE DEF p, d
<1>4. p \div d \in 0 .. (n_in - 1) - 1
  BY <1>1, <1>3, QuotientBound
<1>5. (n_in - 1) - 1 = n_in - 2
  BY SMT
<1>. QED  BY <1>4, <1>5 DEF Whole, p, d
-----------------------------------------------------------------------------
(***************************************************************************)
(* The inductive invariant: the table, once built, is the one computed from *)
(* the sizes and the roundings, and neither changes afterwards.            *)
(***************************************************************************)
ResizeInv ==
    /\ map \in [w_in : InSizes, h_in : InSizes, w_out : OutSizes, h_out : OutSizes]
    /\ dx \in [Below(map.w_out) -> {-1, 0, 1}]
    /\ dy \in [Below(map.h_out) -> {-1, 0, 1}]
    /\ phase \in {"start", "ready", "failed"}
    /\ phase = "ready" => L = [pix \in Pixels |-> Entry(pix)]

\* Every reachable state has the table of its sizes.
THEOREM ResizeInvariant == ResizeSpec => []ResizeInv
<1>1. ResizeInit => ResizeInv
  BY DEF ResizeInit, ResizeInv
<1>2. ResizeInv /\ [ResizeNext]_resizeVars => ResizeInv'
  <2>. SUFFICES ASSUME ResizeInv, [ResizeNext]_resizeVars PROVE ResizeInv'
    OBVIOUS
  <2>0. CASE UNCHANGED <<map, dx, dy, L, phase>>
    BY <2>0 DEF ResizeInv, Pixels, Below, Entry, SourceSquare, IsBlank
  <2>1. CASE InitResizeMap
    BY <2>1 DEF InitResizeMap, ResizeInv, Pixels, Below, Entry, SourceSquare, IsBlank
  <2>2. CASE ResizeGrey
    BY <2>0, <2>2 DEF ResizeGrey
  <2>3. CASE ResizeColour
    BY <2>0, <2>3 DEF ResizeColour
  <2>4. CASE UNCHANGED resizeVars
    BY <2>0, <2>4 DEF resizeVars
  <2>. QED  BY <2>1, <2>2, <2>3, <2>4 DEF ResizeNext
<1>. QED  BY <1>1, <1>2, PTL DEF ResizeSpec

\* Column and row of an output pixel.
LEMMA PixelCoordinates ==
    ASSUME ResizeInv, NEW pix \in Pixels
    PROVE  /\ pix % map.w_out \in Below(map.w_out)
           /\ pix \div map.w_out \in Below(map.h_out)
<1>. DEFINE w == map.w_out
            h == map.h_out
<1>1. w \in Nat \ {0} /\ h \in Nat \ {0}
  BY ImageResizeAssumption DEF ResizeInv
<1>2. pix \in Nat /\ pix < w * h
  <2>1. w * h \in Int
    BY <1>1, SMT
  <2>. QED  BY <2>1, SMT DEF Pixels, Below
<1>. HIDE DEF w, h
<1>3. pix \div w \in 0 .. h - 1
  BY <1>1, <1>2, QuotientBound
<1>4. pix % w \in 0 .. w - 1
  BY <1>1, <1>2, SMT
<1>. QED  BY <1>3, <1>4 DEF w, h, Below

\* The corner a table entry is computed from.
LEMMA SourceInside ==
    ASSUME ResizeInv, NEW pix \in Pixels
    PROVE  /\ map.w_in # 1 => Whole(SourceSquare(pix).x, map.w_out) \in 0 .. map.w_in - 2
           /\ map.h_in # 1 => Whole(SourceSquare(pix).y, map.h_out) \in 0 .. map.h_in - 2
<1>. DEFINE u == pix % map.w_out
            v == pix \div map.w_out
<1>1. /\ map.w_in \in Nat \ {0} /\ map.h_in \in Nat \ {0}
      /\ map.w_out \in Nat \ {0} /\ map.h_out \in Nat \ {0}
  BY ImageResizeAssumption DEF ResizeInv
<1>2. /\ u \in 0 .. map.w_out - 1 /\ dx[u] \in {-1, 0, 1}
      /\ v \in 0 .. map.h_out - 1 /\ dy[v] \in {-1, 0, 1}
  BY PixelCoordinates DEF ResizeInv, Below
<1>3. /\ SourceSquare(pix).x = Position(map.w_in, u, dx[u])
      /\ SourceSquare(pix).y = Position(map.h_in, v, dy[v])
  BY DEF SourceSquare
<1>. HIDE DEF u, v
<1>4. ASSUME map.w_in # 1
      PROVE  Whole(SourceSquare(pix).x, map.w_out) \in 0 .. map.w_in - 2
  BY <1>1, <1>2, <1>3, <1>4, SquareFits
<1>5. ASSUME map.h_in # 1
      PROVE  Whole(SourceSquare(pix).y, map.h_out) \in 0 .. map.h_in - 2
  BY <1>1, <1>2, <1>3, <1>5, SquareFits
<1>. QED  BY <1>4, <1>5

\* An image of one row or column is read at its only line.
LEMMA LineStartsAtZero ==
    ASSUME ResizeInv, NEW pix \in Pixels
    PROVE  /\ map.w_in = 1 => Whole(SourceSquare(pix).x, map.w_out) = 0
           /\ map.h_in = 1 => Whole(SourceSquare(pix).y, map.h_out) = 0
<1>1. /\ map.w_out \in Nat \ {0} /\ map.h_out \in Nat \ {0}
      /\ K \in Nat \ {0}
  BY ImageResizeAssumption DEF ResizeInv
<1>2. \A i \in Int, e \in Int : Position(1, i, e) = 0
  BY SMT DEF Position
<1>3. \A n \in Nat \ {0} : Whole(0, n) = 0
  <2>1. SUFFICES ASSUME NEW n \in Nat \ {0} PROVE 0 \div (K * n) = 0
    BY DEF Whole
  <2>2. K * n \in Nat \ {0}
    <3>1. K * 1 <= K * n
      BY <1>1, Monotone, SMT
    <3>. QED  BY <1>1, <3>1, SMT
  <2>. DEFINE d == K * n
  <2>. HIDE DEF d
  <2>3. d \in Nat \ {0} => 0 \div d = 0
    BY SMT
  <2>. QED  BY <2>2, <2>3 DEF d
<1>4. /\ pix % map.w_out \in Int /\ dx[pix % map.w_out] \in Int
      /\ pix \div map.w_out \in Int /\ dy[pix \div map.w_out] \in Int
  BY PixelCoordinates DEF ResizeInv, Below
<1>. QED  BY <1>1, <1>2, <1>3, <1>4 DEF SourceSquare

\* An entry of the table: the corner inside the image, or blank for a line.
LEMMA EntryInside ==
    ASSUME ResizeInv, phase = "ready", NEW pix \in Pixels
    PROVE  /\ Blank(pix) => (map.w_in = 1 \/ map.h_in = 1)
           /\ ~Blank(pix) => /\ L[pix].I[1] \in 0 .. map.w_in - 2
                             /\ L[pix].I[2] \in 0 .. map.h_in - 2
<1>. DEFINE xl == Whole(SourceSquare(pix).x, map.w_out)
            yl == Whole(SourceSquare(pix).y, map.h_out)
<1>1. map.w_in \in Nat \ {0} /\ map.h_in \in Nat \ {0}
  BY ImageResizeAssumption DEF ResizeInv
<1>2. L[pix] = Entry(pix)
  BY DEF ResizeInv
<1>3. /\ map.w_in # 1 => xl \in 0 .. map.w_in - 2
      /\ map.h_in # 1 => yl \in 0 .. map.h_in - 2
  BY SourceInside
<1>4. /\ IsBlank(xl, yl) => L[pix].I = <<-1, -1>>
      /\ ~IsBlank(xl, yl) => L[pix].I = <<xl, yl>>
  BY <1>2 DEF Entry
<1>5. map.w_in = 1 => xl = 0
  BY <1>1, LineStartsAtZero, PixelCoordinates
<1>6. map.h_in = 1 => yl = 0
  BY <1>1, LineStartsAtZero, PixelCoordinates
<1>. HIDE DEF xl, yl
<1>7. CASE IsBlank(xl, yl)
  <2>1. Blank(pix)
    BY <1>4, <1>7 DEF Blank
  <2>2. map.w_in = 1 \/ map.h_in = 1
    BY <1>1, <1>3, <1>7, SMT DEF IsBlank
  <2>. QED  BY <2>1, <2>2
<1>8. CASE ~IsBlank(xl, yl)
  <2>1. map.w_in # 1 /\ map.h_in # 1
    BY <1>1, <1>5, <1>6, <1>8, SMT DEF IsBlank
  <2>2. L[pix].I[1] = xl /\ L[pix].I[2] = yl
    BY <1>4, <1>8
  <2>3. ~Blank(pix)
    BY <1>1, <1>3, <2>1, <2>2, SMT DEF Blank
  <2>. QED  BY <1>3, <2>1, <2>2, <2>3
<1>. QED  BY <1>7, <1>8

\* Every output pixel gets a value for every size and rounding, unless the image
\* is a single line: the scale never reaches the last row or column.
THEOREM ResizeNoBlank == ResizeSpec => []BlankOnlyForLines
<1>1. ResizeInv => BlankOnlyForLines
  BY EntryInside DEF BlankOnlyForLines
<1>. QED  BY <1>1, ResizeInvariant, PTL
-----------------------------------------------------------------------------
(***************************************************************************)
(* The weights: four truncated quotients that add up to 256 before they are *)
(* truncated.                                                              *)
(***************************************************************************)

\* A quotient, by its bounds.
LEMMA QuotientSandwich ==
    ASSUME NEW d \in Nat \ {0}, NEW p \in Nat
    PROVE  /\ p \div d \in Nat /\ p % d \in 0 .. d - 1
           /\ p = d * (p \div d) + (p % d)
           /\ d * (p \div d) <= p /\ p < d * (p \div d) + d
<1>. DEFINE q == p \div d
<1>1. /\ q \in Int /\ p % d \in 0 .. d - 1
      /\ p = d * q + (p % d)
  BY SMT
<1>2. d * q \in Int
  BY <1>1
<1>3. d * q <= p /\ p < d * q + d
  BY <1>1, <1>2
<1>4. q >= 0
  <2>1. SUFFICES ASSUME q <= -1 PROVE FALSE
    BY <1>1
  <2>2. d * q <= d * (-1)
    BY <2>1, <1>1, Monotone
  <2>3. d * (-1) = -d
    BY SMT
  <2>. QED  BY <2>2, <2>3, <1>2, <1>3
<1>. QED  BY <1>1, <1>3, <1>4

\* A product of factors in order is in order.
LEMMA ProductBound ==
    ASSUME NEW d \in Nat \ {0}, NEW a \in Int, NEW b \in Int, d * a < d * b
    PROVE  a < b
<1>1. SUFFICES ASSUME b <= a PROVE FALSE
  OBVIOUS
<1>2. d * b <= d * a
  BY <1>1, Monotone
<1>3. d * a \in Int /\ d * b \in Int
  OBVIOUS
<1>. QED  BY <1>2, <1>3

\* The four rectangles into which a point divides a unit square of nx by ny.
LEMMA Quarters ==
    ASSUME NEW nx \in Nat \ {0}, NEW ny \in Nat \ {0},
           NEW x \in 0 .. nx - 1, NEW y \in 0 .. ny - 1
    PROVE  LET D == nx * ny
               A == (nx - x) * (ny - y)
               B == x * (ny - y)
               C == (nx - x) * y
               E == x * y
           IN  /\ {D, A, B, C, E} \subseteq Nat /\ D > 0
               /\ A + B + C + E = D
               /\ B + E = x * ny /\ C + E = nx * y
               /\ x * ny < D /\ nx * y < D
               /\ A = D => x = 0 /\ y = 0
               /\ x = 0 /\ y = 0 => A = D
<1>. DEFINE a == nx - x
            b == ny - y
<1>1. /\ a \in Nat \ {0} /\ b \in Nat \ {0} /\ x \in Nat /\ y \in Nat
      /\ nx = a + x /\ ny = b + y
  OBVIOUS
<1>. HIDE DEF a, b
<1>2. /\ a * b \in Nat /\ x * b \in Nat /\ a * y \in Nat /\ x * y \in Nat
      /\ a * b > 0
  BY <1>1
<1>3. nx * ny = a * b + x * b + a * y + x * y
  BY <1>1
<1>4. x * ny = x * b + x * y /\ nx * y = a * y + x * y
  BY <1>1
<1>5. x * b > 0 \/ x = 0
  BY <1>1
<1>6. a * y > 0 \/ y = 0
  BY <1>1
<1>7. x = 0 /\ y = 0 => x * b = 0 /\ a * y = 0 /\ x * y = 0
  BY <1>1
<1>. QED  BY <1>1, <1>2, <1>3, <1>4, <1>5, <1>6, <1>7 DEF a, b

\* A rectangle smaller than the square has a weight that fits in a byte; a
\* quotient is off by less than one.
LEMMA OneWeight ==
    ASSUME NEW D \in Nat \ {0}, NEW X \in Nat, X < D
    PROVE  LET q == ((256 * X) \div D) % 256
           IN  q \in 0 .. 255 /\ D * q <= 256 * X /\ 256 * X < D * q + D
<1>. DEFINE p == 256 * X
            q == p \div D
<1>0. p \in Nat
  OBVIOUS
<1>. HIDE DEF p
<1>a. q \in Nat /\ D * q <= p /\ p < D * q + D
  BY <1>0, QuotientSandwich
<1>. HIDE DEF q
<1>1. q \in Nat /\ D * q <= 256 * X /\ 256 * X < D * q + D
  BY <1>a DEF p
<1>2. D * q \in Nat /\ D * 256 = 256 * D
  BY <1>1
<1>3. D * q < D * 256
  BY <1>1, <1>2
<1>4. q < 256
  BY <1>1, <1>3, ProductBound
<1>5. q % 256 = q
  BY <1>1, <1>4
<1>. QED  BY <1>1, <1>4, <1>5 DEF q, p

\* What is known of the four weights F of a point xw / nx, yw / ny of its square:
\* their sum, that of the right column and that of the lower row.
WeightsOf(F, xw, yw, nx, ny) ==
    /\ F[1] \in Nat /\ F[2] \in Nat /\ F[3] \in Nat /\ F[4] \in Nat
    /\ xw = 0 /\ yw = 0 => F[1] + F[2] + F[3] + F[4] = 0
    /\ ~(xw = 0 /\ yw = 0) => F[1] + F[2] + F[3] + F[4] \in 253 .. 256
    /\ (nx * ny) * (F[2] + F[4]) <= 256 * (xw * ny)
    /\ 256 * (xw * ny) < (nx * ny) * (F[2] + F[4]) + 2 * (nx * ny)
    /\ (nx * ny) * (F[3] + F[4]) <= 256 * (nx * yw)
    /\ 256 * (nx * yw) < (nx * ny) * (F[3] + F[4]) + 2 * (nx * ny)

LEMMA FourWeights ==
    ASSUME NEW nx \in Nat \ {0}, NEW ny \in Nat \ {0},
           NEW xw \in 0 .. nx - 1, NEW yw \in 0 .. ny - 1
    PROVE  WeightsOf(Weights(xw, yw, nx, ny), xw, yw, nx, ny)
<1>. DEFINE F == Weights(xw, yw, nx, ny)
<1>. DEFINE D == nx * ny
            A == (nx - xw) * (ny - yw)
            B == xw * (ny - yw)
            C == (nx - xw) * yw
            E == xw * yw
            P == xw * ny
            R == nx * yw
            q(X) == ((256 * X) \div D) % 256
            f1 == q(A)
            f2 == q(B)
            f3 == q(C)
            f4 == q(E)
<1>1. /\ {D, A, B, C, E} \subseteq Nat /\ D > 0
      /\ A + B + C + E = D
      /\ B + E = P /\ C + E = R
      /\ P < D /\ R < D
      /\ A = D => xw = 0 /\ yw = 0
      /\ xw = 0 /\ yw = 0 => A = D
  BY Quarters
<1>2. F = <<f1, f2, f3, f4>>
  <2>1. \A a, b \in Int : (256 * a) * b = 256 * (a * b)
    OBVIOUS
  <2>2. /\ nx - xw \in Int /\ ny - yw \in Int /\ xw \in Int /\ yw \in Int
    OBVIOUS
  <2>3. /\ 256 * (nx - xw) * (ny - yw) = 256 * A
        /\ 256 * xw * (ny - yw) = 256 * B
        /\ 256 * (nx - xw) * yw = 256 * C
        /\ 256 * xw * yw = 256 * E
    BY <2>1, <2>2
  <2>4. QED
    BY <2>3 DEF Weights
<1>3. D \in Nat \ {0} /\ A \in Nat /\ B \in Nat /\ C \in Nat /\ E \in Nat
  BY <1>1
<1>4. B < D /\ C < D /\ E < D
  BY <1>1, <1>3
<1>5. /\ f2 \in 0 .. 255 /\ D * f2 <= 256 * B /\ 256 * B < D * f2 + D
      /\ f3 \in 0 .. 255 /\ D * f3 <= 256 * C /\ 256 * C < D * f3 + D
      /\ f4 \in 0 .. 255 /\ D * f4 <= 256 * E /\ 256 * E < D * f4 + D
  <2>. HIDE DEF D, A, B, C, E
  <2>1. ASSUME NEW X \in Nat, X < D
        PROVE  q(X) \in 0 .. 255 /\ D * q(X) <= 256 * X /\ 256 * X < D * q(X) + D
    BY <1>3, <2>1, OneWeight
  <2>2. QED
    BY <1>3, <1>4, <2>1
<1>6. A < D => f1 \in 0 .. 255 /\ D * f1 <= 256 * A /\ 256 * A < D * f1 + D
  <2>. HIDE DEF D, A
  <2>1. QED
    BY <1>3, OneWeight
<1>7. f1 \in Nat
  <2>. DEFINE p == 256 * A
  <2>1. p \in Nat
    BY <1>3
  <2>. HIDE DEF p, D, A
  <2>2. p \div D \in Nat
    BY <1>3, <2>1, QuotientSandwich
  <2>. DEFINE r == p \div D
  <2>. HIDE DEF r
  <2>3. r % 256 \in Nat
    BY <2>2 DEF r
  <2>4. QED
    BY <2>3 DEF p, r
<1>. HIDE DEF D, A, B, C, E, P, R, f1, f2, f3, f4, q
<1>8. /\ D * (f2 + f4) = D * f2 + D * f4 /\ D * (f3 + f4) = D * f3 + D * f4
      /\ D * f2 \in Int /\ D * f3 \in Int /\ D * f4 \in Int /\ D * f1 \in Int
      /\ D * (f1 + f2 + f3 + f4) = D * f1 + D * f2 + D * f3 + D * f4
  BY <1>3, <1>5, <1>7
<1>9. /\ D * (f2 + f4) <= 256 * (B + E) /\ 256 * (B + E) < D * (f2 + f4) + 2 * D
      /\ D * (f3 + f4) <= 256 * (C + E) /\ 256 * (C + E) < D * (f3 + f4) + 2 * D
  BY <1>3, <1>5, <1>8
<1>10. ASSUME xw = 0, yw = 0 PROVE f1 + f2 + f3 + f4 = 0
  <2>1. A = D /\ B = 0 /\ C = 0 /\ E = 0
    BY <1>1, <1>3, <1>10
  <2>2. f1 = 0
    <3>1. D * ((256 * D) \div D) <= 256 * D /\ 256 * D < D * ((256 * D) \div D) + D
          /\ (256 * D) \div D \in Nat
      BY <1>3, QuotientSandwich
    <3>. DEFINE r == (256 * D) \div D
    <3>. HIDE DEF r
    <3>2. r \in Nat /\ D * r <= 256 * D /\ 256 * D < D * r + D
      BY <3>1 DEF r
    <3>3. /\ D * r + D = D * (r + 1) /\ 256 * D = D * 256 /\ D * 257 = 256 * D + D
          /\ D * r \in Int /\ D * 256 \in Int
      BY <1>3, <3>2
    <3>4. D * r < D * 257 /\ D * 256 < D * (r + 1)
      BY <1>3, <3>2, <3>3
    <3>5. r < 257 /\ 256 < r + 1
      BY <1>3, <3>2, <3>4, ProductBound
    <3>6. r = 256
      BY <3>2, <3>5
    <3>7. QED
      BY <2>1, <3>6 DEF f1, q, r
  <2>3. f2 = 0 /\ f3 = 0 /\ f4 = 0
    <3>1. \A f \in Nat : D * f <= 0 => f = 0
      <4>1. ASSUME NEW f \in Nat, D * f <= 0 PROVE f = 0
        <5>1. D * f < D * 1
          BY <1>3, <4>1
        <5>2. f < 1
          BY <1>3, <5>1, ProductBound
        <5>3. QED
          BY <5>2
      <4>2. QED
        BY <4>1
    <3>2. QED
      BY <1>5, <2>1, <3>1
  <2>4. QED
    BY <2>2, <2>3
<1>11. ASSUME ~(xw = 0 /\ yw = 0) PROVE f1 + f2 + f3 + f4 \in 253 .. 256
  <2>. DEFINE s == f1 + f2 + f3 + f4
  <2>1. A < D
    BY <1>1, <1>3, <1>11
  <2>2. s \in Nat /\ D * s <= 256 * D /\ 256 * D < D * s + 4 * D
    <3>1. 256 * A + 256 * B + 256 * C + 256 * E = 256 * D
      BY <1>1, <1>3
    <3>2. /\ D * f1 + D * f2 + D * f3 + D * f4 <= 256 * A + 256 * B + 256 * C + 256 * E
          /\ 256 * A + 256 * B + 256 * C + 256 * E
               < (D * f1 + D) + (D * f2 + D) + (D * f3 + D) + (D * f4 + D)
      BY <1>3, <1>5, <1>6, <1>8, <2>1
    <3>3. D * s = D * f1 + D * f2 + D * f3 + D * f4 /\ s \in Nat
      BY <1>5, <1>7, <1>8
    <3>4. (D * f1 + D) + (D * f2 + D) + (D * f3 + D) + (D * f4 + D) = D * s + 4 * D
      BY <1>3, <1>8, <3>3
    <3>5. QED
      BY <3>1, <3>2, <3>3, <3>4
  <2>. HIDE DEF s
  <2>3. /\ D * s < D * 257 /\ D * 252 < D * s
    BY <1>3, <2>2
  <2>4. s < 257 /\ 252 < s
    BY <1>3, <2>2, <2>3, ProductBound
  <2>5. QED
    BY <2>2, <2>4 DEF s
<1>12. /\ F[1] = f1 /\ F[2] = f2 /\ F[3] = f3 /\ F[4] = f4
  BY <1>2
<1>13. /\ f1 \in Nat /\ f2 \in Nat /\ f3 \in Nat /\ f4 \in Nat
       /\ D * (f2 + f4) <= 256 * P /\ 256 * P < D * (f2 + f4) + 2 * D
       /\ D * (f3 + f4) <= 256 * R /\ 256 * R < D * (f3 + f4) + 2 * D
  BY <1>1, <1>3, <1>5, <1>7, <1>9
<1>. HIDE DEF F
<1>14. WeightsOf(F, xw, yw, nx, ny)
  BY <1>10, <1>11, <1>12, <1>13 DEF WeightsOf, D, P, R
<1>. QED
  BY <1>14 DEF F
-----------------------------------------------------------------------------
(***************************************************************************)
(* Positions: where a pixel falls exactly on one of the image, and how near *)
(* the table comes to the exact position.                                  *)
(***************************************************************************)

\* A number of absolute value below d that d divides is zero.
LEMMA SmallMultiple ==
    ASSUME NEW d \in Nat \ {0}, NEW t \in Int, -d < d * t, d * t < d
    PROVE  t = 0
<1>1. d * (-1) < d * t /\ d * t < d * 1
  OBVIOUS
<1>2. -1 < t /\ t < 1
  BY <1>1, ProductBound
<1>. QED  BY <1>2

\* A position without a fraction is that of a whole pixel: a rounding moves it
\* off, never on.
LEMMA ExactPosition ==
    ASSUME NEW n_in \in Nat \ {0}, NEW n_out \in Nat \ {0}, NEW i \in Nat,
           NEW e \in {-1, 0, 1}, Fraction(Position(n_in, i, e), n_out) = 0
    PROVE  ((n_in - 1) * i) % n_out = 0
<1>. DEFINE s == (n_in - 1) * i
            p == s * K + e
            d == K * n_out
<1>1. s \in Nat
  BY Monotone
<1>2. K \in Nat \ {0, 1}
  BY ImageResizeAssumption
<1>. HIDE DEF s
<1>3. CASE s = 0
  <2>1. 0 % n_out = 0
    OBVIOUS
  <2>. QED  BY <1>3, <2>1 DEF s
<1>4. CASE s # 0
  <2>1. p % d = 0
    BY <1>4 DEF Position, Fraction, s
  <2>2. d \in Nat \ {0}
    BY <1>2
  <2>3. p \in Nat
    <3>1. s * K >= K
      BY <1>1, <1>2, <1>4
    <3>. QED  BY <1>1, <1>2, <3>1
  <2>. DEFINE q == p \div d
  <2>4. q \in Nat /\ p = d * q
    <3>. HIDE DEF p, d
    <3>1. q \in Nat /\ p = d * q + (p % d)
      BY <2>2, <2>3, QuotientSandwich
    <3>2. d * q \in Int
      BY <2>2, <3>1
    <3>. QED  BY <2>1, <3>1, <3>2
  <2>. HIDE DEF q
  <2>5. K * (n_out * q - s) = e
    <3>1. d * q = K * (n_out * q)
      BY <1>2, <2>4
    <3>2. K * (n_out * q - s) = K * (n_out * q) - s * K
      BY <1>1, <1>2, <2>4
    <3>. QED  BY <1>1, <1>2, <2>4, <3>1, <3>2
  <2>6. n_out * q - s = 0
    <3>1. n_out * q - s \in Int /\ -K < e /\ e < K
      BY <1>1, <1>2, <2>4
    <3>2. -K < K * (n_out * q - s) /\ K * (n_out * q - s) < K
      BY <2>5, <3>1
    <3>. QED  BY <1>2, <3>1, <3>2, SmallMultiple
  <2>7. s = n_out * q
    BY <1>1, <2>4, <2>6
  <2>. DEFINE c == s \div n_out
              r == s % n_out
  <2>8. c \in Nat /\ r \in 0 .. n_out - 1 /\ s = n_out * c + r
    BY <1>1, QuotientSandwich
  <2>. HIDE DEF c, r
  <2>9. n_out * (q - c) = r
    BY <2>4, <2>7, <2>8
  <2>10. q - c = 0
    BY <2>4, <2>8, <2>9, SmallMultiple
  <2>11. r = 0
    BY <2>9, <2>10
  <2>. QED  BY <2>11 DEF r, s
<1>. QED  BY <1>3, <1>4

\* The point a 2x2 square and its weights stand for.
LEMMA NearPosition ==
    ASSUME NEW n_in \in Nat \ {0, 1}, NEW n_out \in OutSizes,
           NEW i \in 0 .. n_out - 1, NEW e \in {-1, 0, 1}, NEW weight \in Nat,
           (K * n_out) * weight <= 256 * Fraction(Position(n_in, i, e), n_out),
           256 * Fraction(Position(n_in, i, e), n_out) < (K * n_out) * weight + 2 * (K * n_out)
    PROVE  Near(Whole(Position(n_in, i, e), n_out), weight, n_in, n_out, i)
<1>. DEFINE s == (n_in - 1) * i
            p == Position(n_in, i, e)
            nx == K * n_out
            f == Whole(p, n_out)
            x == Fraction(p, n_out)
            u == (256 * f + weight) * n_out - 256 * s
<1>1. /\ K \in Nat \ {0} /\ n_out \in Nat \ {0} /\ nx >= 256
  BY ImageResizeAssumption
<1>2. nx \in Nat \ {0}
  BY <1>1
<1>3. s \in Nat
  BY Monotone
<1>4. p \in Nat
  BY <1>1, PositionInside
<1>. HIDE DEF s, p
<1>5. PICK e1 \in {-1, 0, 1} : p = s * K + e1
  BY <1>1, <1>3 DEF Position, p, s
<1>6. f \in Nat /\ x \in Nat /\ p = nx * f + x
  <2>1. /\ p \div nx \in Nat /\ p % nx \in 0 .. nx - 1
        /\ p = nx * (p \div nx) + (p % nx)
    <3>. HIDE DEF nx
    <3>. QED  BY <1>2, <1>4, QuotientSandwich
  <2>. QED  BY <2>1 DEF Whole, Fraction
<1>7. nx * weight <= 256 * x /\ 256 * x < nx * weight + 2 * nx
  BY DEF p
<1>. HIDE DEF f, x
<1>8. K * u = (256 * f + weight) * nx - 256 * (s * K)
  BY <1>1, <1>3, <1>6
<1>. HIDE DEF nx
<1>9. (256 * f + weight) * nx = 256 * (nx * f) + nx * weight
  BY <1>2, <1>6
<1>10. K * u = 256 * e1 - (256 * x - nx * weight)
  <2>1. /\ nx * f \in Int /\ nx * weight \in Int /\ s * K \in Int
    BY <1>1, <1>2, <1>3, <1>6
  <2>2. nx * f = s * K + e1 - x
    BY <1>5, <1>6, <2>1
  <2>. QED  BY <1>6, <1>8, <1>9, <2>1, <2>2
<1>11. u \in Int
  BY <1>1, <1>3, <1>6
<1>. HIDE DEF u
<1>12. K * u <= nx /\ -3 * nx < K * u
  <2>1. nx * weight \in Int
    BY <1>2
  <2>. QED  BY <1>1, <1>2, <1>6, <1>7, <1>10, <2>1 DEF nx
<1>13. K * (3 * n_out) = 3 * nx /\ K * (-3 * n_out) = -3 * nx
  BY <1>1 DEF nx
<1>14. K * u < K * (3 * n_out) /\ K * (-3 * n_out) < K * u
  BY <1>1, <1>2, <1>11, <1>12, <1>13
<1>15. u < 3 * n_out /\ -3 * n_out < u
  BY <1>1, <1>11, <1>14, ProductBound
<1>16. 256 * (n_in - 1) * i = 256 * s
  BY DEF s
<1>. QED  BY <1>15, <1>16 DEF Near, u, f, p

\* An entry that is not blank, by the position of its pixel.
LEMMA EntryWeights ==
    ASSUME ResizeInv, phase = "ready", NEW pix \in Pixels, ~Blank(pix)
    PROVE  LET u == pix % map.w_out
               v == pix \div map.w_out
               px == Position(map.w_in, u, dx[u])
               py == Position(map.h_in, v, dy[v])
               nx == K * map.w_out
               ny == K * map.h_out
           IN  /\ u \in 0 .. map.w_out - 1 /\ dx[u] \in {-1, 0, 1}
               /\ v \in 0 .. map.h_out - 1 /\ dy[v] \in {-1, 0, 1}
               /\ map.w_in \in Nat \ {0, 1} /\ map.h_in \in Nat \ {0, 1}
               /\ map.w_out \in OutSizes /\ map.h_out \in OutSizes
               /\ nx \in Nat \ {0} /\ ny \in Nat \ {0}
               /\ L[pix].I[1] = Whole(px, map.w_out) /\ L[pix].I[2] = Whole(py, map.h_out)
               /\ Fraction(px, map.w_out) \in 0 .. nx - 1
               /\ Fraction(py, map.h_out) \in 0 .. ny - 1
               /\ L[pix].F = Weights(Fraction(px, map.w_out), Fraction(py, map.h_out), nx, ny)
<1>. DEFINE u == pix % map.w_out
            v == pix \div map.w_out
            px == Position(map.w_in, u, dx[u])
            py == Position(map.h_in, v, dy[v])
            nx == K * map.w_out
            ny == K * map.h_out
            xl == Whole(px, map.w_out)
            yl == Whole(py, map.h_out)
<1>1. /\ map.w_in \in Nat \ {0} /\ map.h_in \in Nat \ {0}
      /\ map.w_out \in OutSizes /\ map.h_out \in OutSizes
      /\ map.w_out \in Nat \ {0} /\ map.h_out \in Nat \ {0}
      /\ K \in Nat \ {0}
  BY ImageResizeAssumption DEF ResizeInv
<1>2. /\ u \in 0 .. map.w_out - 1 /\ dx[u] \in {-1, 0, 1}
      /\ v \in 0 .. map.h_out - 1 /\ dy[v] \in {-1, 0, 1}
  BY PixelCoordinates DEF ResizeInv, Below
<1>3. nx \in Nat \ {0} /\ ny \in Nat \ {0}
  <2>1. \A n \in Nat \ {0} : K * n \in Nat \ {0}
    BY <1>1
  <2>. QED  BY <1>1, <2>1
<1>4. L[pix] = Entry(pix) /\ SourceSquare(pix) = [x |-> px, y |-> py]
  BY DEF ResizeInv, SourceSquare
<1>. HIDE DEF u, v, px, py
<1>5. ~IsBlank(xl, yl)
  <2>1. IsBlank(xl, yl) => L[pix].I = <<-1, -1>>
    BY <1>4 DEF Entry
  <2>. QED  BY <2>1 DEF Blank
<1>6. /\ L[pix].I = <<xl, yl>>
      /\ L[pix].F = Weights(Fraction(px, map.w_out), Fraction(py, map.h_out), nx, ny)
  BY <1>4, <1>5 DEF Entry
<1>7. map.w_in # 1 /\ map.h_in # 1
  <2>1. map.w_in = 1 => xl = 0
    BY <1>4, LineStartsAtZero
  <2>2. map.h_in = 1 => yl = 0
    BY <1>4, LineStartsAtZero
  <2>. HIDE DEF xl, yl
  <2>. QED  BY <1>1, <1>5, <2>1, <2>2 DEF IsBlank
<1>8. px \in Nat /\ py \in Nat
  BY <1>1, <1>2, <1>7, PositionInside DEF px, py
<1>9. /\ Fraction(px, map.w_out) \in 0 .. nx - 1
      /\ Fraction(py, map.h_out) \in 0 .. ny - 1
  <2>. HIDE DEF nx, ny
  <2>1. px % nx \in 0 .. nx - 1 /\ py % ny \in 0 .. ny - 1
    BY <1>3, <1>8, QuotientSandwich
  <2>. QED  BY <2>1 DEF Fraction, nx, ny
<1>. QED  BY <1>1, <1>2, <1>3, <1>6, <1>7, <1>9 DEF u, v, px, py

\* What the four weights sum to, for every size and rounding: 253 to 256, or 0
\* where the pixel falls exactly on a pixel of the image and comes out black.
THEOREM ResizeSums == ResizeSpec => []SumsOfWeights
<1>1. ResizeInv => SumsOfWeights
  <2>. SUFFICES ASSUME ResizeInv, phase = "ready", NEW pix \in Pixels, ~Blank(pix)
                PROVE  \/ Sum(pix) \in 253 .. 256
                       \/ /\ Sum(pix) = 0
                          /\ ((map.w_in - 1) * (pix % map.w_out)) % map.w_out = 0
                          /\ ((map.h_in - 1) * (pix \div map.w_out)) % map.h_out = 0
    BY DEF SumsOfWeights
  <2>. DEFINE u == pix % map.w_out
              v == pix \div map.w_out
              px == Position(map.w_in, u, dx[u])
              py == Position(map.h_in, v, dy[v])
              nx == K * map.w_out
              ny == K * map.h_out
              xw == Fraction(px, map.w_out)
              yw == Fraction(py, map.h_out)
  <2>1. /\ u \in 0 .. map.w_out - 1 /\ dx[u] \in {-1, 0, 1}
        /\ v \in 0 .. map.h_out - 1 /\ dy[v] \in {-1, 0, 1}
        /\ map.w_in \in Nat \ {0, 1} /\ map.h_in \in Nat \ {0, 1}
        /\ map.w_out \in OutSizes /\ map.h_out \in OutSizes
        /\ nx \in Nat \ {0} /\ ny \in Nat \ {0}
        /\ xw \in 0 .. nx - 1 /\ yw \in 0 .. ny - 1
        /\ L[pix].F = Weights(xw, yw, nx, ny)
    BY EntryWeights
  <2>2. u \in Nat /\ v \in Nat /\ map.w_out \in Nat \ {0} /\ map.h_out \in Nat \ {0}
    <3>1. map.w_out \in Nat \ {0} /\ map.h_out \in Nat \ {0}
      BY <2>1, ImageResizeAssumption
    <3>. HIDE DEF u, v
    <3>2. u \in Nat /\ v \in Nat
      BY <2>1, <3>1
    <3>. QED  BY <3>1, <3>2
  <2>3. /\ xw = 0 => ((map.w_in - 1) * u) % map.w_out = 0
        /\ yw = 0 => ((map.h_in - 1) * v) % map.h_out = 0
    <3>. HIDE DEF u, v
    <3>. QED  BY <2>1, <2>2, ExactPosition
  <2>. HIDE DEF u, v, xw, yw, nx, ny
  <2>4. /\ xw = 0 /\ yw = 0 => Sum(pix) = 0
        /\ ~(xw = 0 /\ yw = 0) => Sum(pix) \in 253 .. 256
    <3>. DEFINE F == L[pix].F
    <3>1. Sum(pix) = F[1] + F[2] + F[3] + F[4]
      BY DEF Sum
    <3>2. F = Weights(xw, yw, nx, ny)
      BY <2>1
    <3>. HIDE DEF F
    <3>0. /\ nx \in Nat \ {0} /\ ny \in Nat \ {0}
          /\ xw \in 0 .. nx - 1 /\ yw \in 0 .. ny - 1
      BY <2>1
    <3>4. WeightsOf(Weights(xw, yw, nx, ny), xw, yw, nx, ny)
      BY <3>0, FourWeights
    <3>3. /\ xw = 0 /\ yw = 0 => F[1] + F[2] + F[3] + F[4] = 0
          /\ ~(xw = 0 /\ yw = 0) => F[1] + F[2] + F[3] + F[4] \in 253 .. 256
      BY <3>2, <3>4 DEF WeightsOf
    <3>. QED  BY <3>1, <3>3
  <2>. QED  BY <2>3, <2>4 DEF u, v
<1>. QED  BY <1>1, ResizeInvariant, PTL

\* And a linear ramp comes out as it went in, to 3/256 of a pixel.
THEOREM ResizeRamp == ResizeSpec => []RampPreserved
<1>1. ResizeInv => RampPreserved
  <2>. DEFINE At(pix) ==
          /\ Near(L[pix].I[1], L[pix].F[2] + L[pix].F[4], map.w_in, map.w_out, pix % map.w_out)
          /\ Near(L[pix].I[2], L[pix].F[3] + L[pix].F[4], map.h_in, map.h_out, pix \div map.w_out)
  <2>. SUFFICES ASSUME ResizeInv, phase = "ready", NEW pix \in Pixels, ~Blank(pix)
                PROVE  At(pix)
    BY DEF RampPreserved
  <2>. DEFINE u == pix % map.w_out
              v == pix \div map.w_out
              px == Position(map.w_in, u, dx[u])
              py == Position(map.h_in, v, dy[v])
              nx == K * map.w_out
              ny == K * map.h_out
              xw == Fraction(px, map.w_out)
              yw == Fraction(py, map.h_out)
              F == L[pix].F
  <2>1. /\ u \in 0 .. map.w_out - 1 /\ dx[u] \in {-1, 0, 1}
        /\ v \in 0 .. map.h_out - 1 /\ dy[v] \in {-1, 0, 1}
        /\ map.w_in \in Nat \ {0, 1} /\ map.h_in \in Nat \ {0, 1}
        /\ map.w_out \in OutSizes /\ map.h_out \in OutSizes
        /\ nx \in Nat \ {0} /\ ny \in Nat \ {0}
        /\ L[pix].I[1] = Whole(px, map.w_out) /\ L[pix].I[2] = Whole(py, map.h_out)
        /\ xw \in 0 .. nx - 1 /\ yw \in 0 .. ny - 1
        /\ F = Weights(xw, yw, nx, ny)
    BY EntryWeights
  <2>2. /\ F[2] + F[4] \in Nat /\ F[3] + F[4] \in Nat
        /\ (nx * ny) * (F[2] + F[4]) <= 256 * (xw * ny)
        /\ 256 * (xw * ny) < (nx * ny) * (F[2] + F[4]) + 2 * (nx * ny)
        /\ (nx * ny) * (F[3] + F[4]) <= 256 * (nx * yw)
        /\ 256 * (nx * yw) < (nx * ny) * (F[3] + F[4]) + 2 * (nx * ny)
    <3>. HIDE DEF nx, ny, xw, yw, F
    <3>0. /\ nx \in Nat \ {0} /\ ny \in Nat \ {0}
          /\ xw \in 0 .. nx - 1 /\ yw \in 0 .. ny - 1
          /\ F = Weights(xw, yw, nx, ny)
      BY <2>1
    <3>2. WeightsOf(Weights(xw, yw, nx, ny), xw, yw, nx, ny)
      BY <3>0, FourWeights
    <3>1. /\ F[2] \in Nat /\ F[3] \in Nat /\ F[4] \in Nat
          /\ (nx * ny) * (F[2] + F[4]) <= 256 * (xw * ny)
          /\ 256 * (xw * ny) < (nx * ny) * (F[2] + F[4]) + 2 * (nx * ny)
          /\ (nx * ny) * (F[3] + F[4]) <= 256 * (nx * yw)
          /\ 256 * (nx * yw) < (nx * ny) * (F[3] + F[4]) + 2 * (nx * ny)
      BY <3>0, <3>2 DEF WeightsOf
    <3>. QED  BY <3>1
  <2>3. /\ nx * (F[2] + F[4]) <= 256 * xw /\ 256 * xw < nx * (F[2] + F[4]) + 2 * nx
        /\ ny * (F[3] + F[4]) <= 256 * yw /\ 256 * yw < ny * (F[3] + F[4]) + 2 * ny
    <3>1. ASSUME NEW m \in Nat \ {0}, NEW n \in Nat \ {0}, NEW w \in Nat, NEW x \in Nat,
                 (n * m) * w <= 256 * (x * m), 256 * (x * m) < (n * m) * w + 2 * (n * m)
          PROVE  n * w <= 256 * x /\ 256 * x < n * w + 2 * n
      <4>1. /\ (n * m) * w = m * (n * w) /\ 256 * (x * m) = m * (256 * x)
            /\ (n * m) * w + 2 * (n * m) = m * (n * w + 2 * n)
            /\ n * w \in Nat
        OBVIOUS
      <4>2. 256 * x < n * w + 2 * n
        BY <3>1, <4>1, ProductBound
      <4>3. ~(256 * x < n * w)
        <5>1. SUFFICES ASSUME 256 * x < n * w PROVE FALSE
          OBVIOUS
        <5>2. 256 * x + 1 <= n * w /\ 256 * x + 1 \in Int
          BY <4>1, <5>1
        <5>3. m * (256 * x + 1) <= m * (n * w)
          BY <4>1, <5>2, Monotone
        <5>4. m * (256 * x + 1) = m * (256 * x) + m
          OBVIOUS
        <5>. QED  BY <3>1, <4>1, <5>3, <5>4
      <4>. QED  BY <4>1, <4>2, <4>3
    <3>. DEFINE w1 == F[2] + F[4]
                w2 == F[3] + F[4]
    <3>2. xw \in Nat /\ yw \in Nat /\ w1 \in Nat /\ w2 \in Nat
      BY <2>1, <2>2
    <3>3. nx * yw = yw * nx /\ nx * ny = ny * nx
      BY <2>1, <3>2
    <3>4. /\ (nx * ny) * w1 <= 256 * (xw * ny)
          /\ 256 * (xw * ny) < (nx * ny) * w1 + 2 * (nx * ny)
          /\ (ny * nx) * w2 <= 256 * (yw * nx)
          /\ 256 * (yw * nx) < (ny * nx) * w2 + 2 * (ny * nx)
      BY <2>2, <3>3
    <3>. HIDE DEF nx, ny, xw, yw, F, w1, w2
    <3>5. /\ nx * w1 <= 256 * xw /\ 256 * xw < nx * w1 + 2 * nx
      BY <2>1, <3>1, <3>2, <3>4
    <3>6. /\ ny * w2 <= 256 * yw /\ 256 * yw < ny * w2 + 2 * ny
      BY <2>1, <3>1, <3>2, <3>4
    <3>. QED  BY <3>5, <3>6 DEF w1, w2
  <2>4. Near(Whole(px, map.w_out), F[2] + F[4], map.w_in, map.w_out, u)
    <3>. DEFINE w == F[2] + F[4]
                e == dx[u]
    <3>1. /\ w \in Nat /\ e \in {-1, 0, 1}
          /\ (K * map.w_out) * w <= 256 * Fraction(Position(map.w_in, u, e), map.w_out)
          /\ 256 * Fraction(Position(map.w_in, u, e), map.w_out)
                < (K * map.w_out) * w + 2 * (K * map.w_out)
      BY <2>1, <2>2, <2>3
    <3>. HIDE DEF u, w, e
    <3>2. Near(Whole(Position(map.w_in, u, e), map.w_out), w, map.w_in, map.w_out, u)
      BY <2>1, <3>1, NearPosition
    <3>. QED  BY <3>2 DEF w, e
  <2>5. Near(Whole(py, map.h_out), F[3] + F[4], map.h_in, map.h_out, v)
    <3>. DEFINE w == F[3] + F[4]
                e == dy[v]
    <3>1. /\ w \in Nat /\ e \in {-1, 0, 1}
          /\ (K * map.h_out) * w <= 256 * Fraction(Position(map.h_in, v, e), map.h_out)
          /\ 256 * Fraction(Position(map.h_in, v, e), map.h_out)
                < (K * map.h_out) * w + 2 * (K * map.h_out)
      BY <2>1, <2>2, <2>3
    <3>. HIDE DEF v, w, e
    <3>2. Near(Whole(Position(map.h_in, v, e), map.h_out), w, map.h_in, map.h_out, v)
      BY <2>1, <3>1, NearPosition
    <3>. QED  BY <3>2 DEF w, e
  <2>. QED  BY <2>1, <2>4, <2>5
<1>. QED  BY <1>1, ResizeInvariant, PTL
-----------------------------------------------------------------------------
(***************************************************************************)
(* The output of a colour resize.                                          *)
(***************************************************************************)

\* A colour output is the one the table gives.
ColourOfTable ==
    output.bytes = 3 =>
        /\ phase = "ready"
        /\ output.at = [b \in Below(3 * map.w_out * map.h_out) |->
                          IF Blank(b \div 3) THEN <<>> ELSE Channel(b \div 3, b % 3)]

\* The corner whose weight a byte gets.
CornerAt(at, b) == CHOOSE c \in 0 .. 3 : at[c] = b

LEMMA BlendAt ==
    ASSUME NEW pix, NEW at, NEW b \in {at[c] : c \in 0 .. 3}
    PROVE  Blend(pix, at)[b] = L[pix].F[1 + CornerAt(at, b)]
BY Zenon DEF Blend, CornerAt

\* Two readings of the corners, one with its bytes three times as far apart,
\* blend them alike.
Alike(pix, near, far) ==
    /\ DOMAIN Blend(pix, far) = {3 * i + 0 : i \in DOMAIN Blend(pix, near)}
    /\ \A i \in DOMAIN Blend(pix, near) :
          Blend(pix, far)[3 * i + 0] = Blend(pix, near)[i]

LEMMA BlendScaled ==
    ASSUME NEW pix, NEW near, NEW far,
           \A c \in 0 .. 3 : near[c] \in Int /\ far[c] = 3 * near[c] + 0
    PROVE  Alike(pix, near, far)
<1>1. /\ DOMAIN Blend(pix, near) = {near[c] : c \in 0 .. 3}
      /\ DOMAIN Blend(pix, far) = {far[c] : c \in 0 .. 3}
  BY DEF Blend
<1>2. {far[c] : c \in 0 .. 3} = {3 * i + 0 : i \in {near[c] : c \in 0 .. 3}}
  OBVIOUS
<1>3. ASSUME NEW i \in {near[c] : c \in 0 .. 3}
      PROVE  Blend(pix, far)[3 * i + 0] = Blend(pix, near)[i]
  <2>1. \A c \in 0 .. 3 : far[c] = 3 * i + 0 <=> near[c] = i
    <3>1. i \in Int
      OBVIOUS
    <3>2. \A a, b \in Int : 3 * a + 0 = 3 * b + 0 <=> a = b
      OBVIOUS
    <3>. QED  BY <3>1, <3>2, Zenon
  <2>2. CornerAt(far, 3 * i + 0) = CornerAt(near, i)
    <3>. DEFINE j == 3 * i + 0
    <3>1. \A c \in 0 .. 3 : far[c] = j <=> near[c] = i
      BY <2>1
    <3>. HIDE DEF j
    <3>2. CornerAt(far, j) = CornerAt(near, i)
      BY <3>1, Zenon DEF CornerAt
    <3>. QED  BY <3>2 DEF j
  <2>3. 3 * i + 0 \in {far[c] : c \in 0 .. 3}
    BY <1>2
  <2>4. Blend(pix, far)[3 * i + 0] = L[pix].F[1 + CornerAt(far, 3 * i + 0)]
    BY <2>3, BlendAt
  <2>5. Blend(pix, near)[i] = L[pix].F[1 + CornerAt(near, i)]
    BY BlendAt
  <2>. QED  BY <2>2, <2>4, <2>5
<1>. QED  BY <1>1, <1>2, <1>3 DEF Alike

\* Red is resized as a grey image would be: every pixel of a colour output
\* blends the red bytes of its square with the weights of the grey resize.
THEOREM ResizeRed == ResizeSpec => []RedAsGrey
<1>1. ResizeInit => ColourOfTable
  BY DEF ResizeInit, ColourOfTable, Empty
<1>2. ColourOfTable /\ [ResizeNext]_resizeVars => ColourOfTable'
  <2>. SUFFICES ASSUME ColourOfTable, [ResizeNext]_resizeVars PROVE ColourOfTable'
    OBVIOUS
  <2>1. CASE InitResizeMap
    BY <2>1 DEF InitResizeMap, ColourOfTable
  <2>2. CASE ResizeGrey
    BY <2>2 DEF ResizeGrey, ColourOfTable
  <2>0. ASSUME UNCHANGED <<map, L>>
        PROVE  /\ \A pix : Blank(pix)' = Blank(pix)
               /\ \A pix, k : Channel(pix, k)' = Channel(pix, k)
    BY <2>0 DEF Blank, Channel, Blend, Corner
  <2>3. CASE ResizeColour
    BY <2>0, <2>3 DEF ResizeColour, ColourOfTable, Below
  <2>4. CASE UNCHANGED resizeVars
    <3>. DEFINE At == [b \in Below(3 * map.w_out * map.h_out) |->
                         IF Blank(b \div 3) THEN <<>> ELSE Channel(b \div 3, b % 3)]
    <3>1. At' = At
      BY <2>0, <2>4, Zenon DEF resizeVars, Below
    <3>2. output' = output /\ phase' = phase
      BY <2>4 DEF resizeVars
    <3>. QED  BY <3>1, <3>2, Zenon DEF ColourOfTable
  <2>. QED  BY <2>1, <2>2, <2>3, <2>4 DEF ResizeNext
<1>3. ResizeInv /\ ColourOfTable => RedAsGrey
  <2>. SUFFICES ASSUME ResizeInv, ColourOfTable, output.bytes = 3,
                       NEW pix \in Pixels
                PROVE  /\ DOMAIN output.at[3 * pix + 0] = {3 * i + 0 : i \in DOMAIN GreyPixel(pix)}
                       /\ \A i \in DOMAIN GreyPixel(pix) :
                             output.at[3 * pix + 0][3 * i + 0] = GreyPixel(pix)[i]
    BY DEF RedAsGrey, SameAsGrey
  <2>1. /\ 3 * pix + 0 \in Below(3 * map.w_out * map.h_out)
        /\ (3 * pix + 0) \div 3 = pix
        /\ (3 * pix + 0) % 3 = 0
    <3>1. map.w_out \in Nat /\ map.h_out \in Nat
      BY ImageResizeAssumption DEF ResizeInv
    <3>. DEFINE n == map.w_out * map.h_out
    <3>2. n \in Nat /\ 3 * map.w_out * map.h_out = 3 * n
      BY <3>1
    <3>. HIDE DEF n
    <3>3. pix \in 0 .. n - 1
      BY DEF Pixels, Below, n
    <3>. QED  BY <3>2, <3>3 DEF Below
  <2>2. output.at[3 * pix + 0] = IF Blank(pix) THEN <<>> ELSE Channel(pix, 0)
    BY <2>1 DEF ColourOfTable
  <2>3. CASE Blank(pix)
    BY <2>2, <2>3 DEF GreyPixel
  <2>4. CASE ~Blank(pix)
    <3>. DEFINE near == [c \in 0 .. 3 |-> Corner(pix, c)]
                far == [c \in 0 .. 3 |-> 3 * Corner(pix, c) + 0]
    <3>1. Channel(pix, 0) = Blend(pix, far)
      BY DEF Channel
    <3>2. GreyPixel(pix) = Blend(pix, near)
      BY <2>4 DEF GreyPixel
    <3>3. \A c \in 0 .. 3 : Corner(pix, c) \in Int
      <4>1. map.w_in \in Nat
        BY ImageResizeAssumption DEF ResizeInv
      <4>2. L[pix].I[1] \in Int /\ L[pix].I[2] \in Int
        BY <2>4, <4>1, EntryInside DEF ColourOfTable
      <4>3. \A c \in 0 .. 3 : c \div 2 \in Int /\ c % 2 \in Int
        OBVIOUS
      <4>4. \A a, b, c, d \in Int : a * (b + c) + d \in Int
        OBVIOUS
      <4>. QED  BY <4>1, <4>2, <4>3, <4>4 DEF Corner
    <3>4. \A c \in 0 .. 3 : near[c] \in Int /\ far[c] = 3 * near[c] + 0
      BY <3>3
    <3>. HIDE DEF near, far
    <3>5. Alike(pix, near, far)
      BY <3>4, BlendScaled
    <3>6. output.at[3 * pix + 0] = Blend(pix, far)
      BY <2>2, <2>4, <3>1
    <3>. QED  BY <3>2, <3>5, <3>6 DEF Alike
  <2>. QED  BY <2>3, <2>4
<1>. QED  BY <1>1, <1>2, <1>3, ResizeInvariant, PTL DEF ResizeSpec
=============================================================================
