---------------------------- MODULE FrameDecoder ----------------------------
(***************************************************************************)
(* What new_frame_msg_callback makes of a message: the picture it hands to *)
(* the detection service, or none.                                         *)
(*                                                                         *)
(* A message has the integer headers srcid, imgtype, imgwidth, imgheight   *)
(* and a body.  A body is a picture in some format: "raw" pixels, an image *)
(* that is "encoded" (jpeg, png), "garbage", or "nothing", no byte at all. *)
(* A picture has a size, a number of channels and the objects to be seen   *)
(* on it.  A unit of length stands for 160 pixels.                         *)
(*                                                                         *)
(* A frame of raw pixels is a header over the body, and the body is freed  *)
(* when the callback returns.  Who reads such a frame later may see        *)
(* anything, which is what ReadLater is about.                             *)
(***************************************************************************)
EXTENDS Integers, Sequences

CONSTANTS
  NoSrcId,        \* the header srcid is missing or not an integer
  LastClass,      \* the classes are 0 to LastClass
  Leftovers       \* what may be seen in memory that was freed

(* Scores and the confidence are what the network gives an object.         *)
Object ==
  [left : Nat, right : Nat, top : Nat, bottom : Nat, confidence : Int,
   scores : [0..LastClass -> Int]]

Picture == [cols : Nat \ {0}, rows : Nat \ {0}, channels : Nat \ {0}, objects : Seq(Object)]

Missing == 0              \* int() of a header that is not there
UnknownType == -1         \* imgtype when its header is not an integer

(* OpenCV's number for pixels of 8 bits, CV_8UC1, CV_8UC3.                 *)
TypeOf(channels) == 8 * (channels - 1)
ChannelsOf(imgtype) == (imgtype \div 8) + 1

Blank(cols, rows) == [cols |-> cols, rows |-> rows, channels |-> 3, objects |-> << >>]

(* The zeros that stand in for an image that cannot be decoded, 640x640.   *)
BlankFrame == Blank(4, 4)

-----------------------------------------------------------------------------
(* Headers that describe raw pixels.  CV_8UC1 is 0: a raw gray picture is  *)
(* taken for an encoded one.                                               *)
IsRaw(message) == message.width > 0 /\ message.height > 0 /\ message.imgtype > 0

(* External: imdecode with IMREAD_ANYCOLOR keeps the number of channels,   *)
(* leaves an empty image when it knows no such format, and throws on an    *)
(* empty buffer.  So does the constructor of cv::Mat over no bytes.        *)
CanDecode(body) == body.format = "encoded"
DecodingThrows(message) == message.body.format = "nothing"

(* A header over the bytes of the body, which are not copied.              *)
Overlaid(message) ==
  [cols |-> message.width, rows |-> message.height,
   channels |-> ChannelsOf(message.imgtype), objects |-> << >>]

(* The frame that visit_new_frame is called with, unless the message has   *)
(* no srcid or decoding throws.                                            *)
FrameOf(message) ==
  IF IsRaw(message) THEN Overlaid(message)
  ELSE IF CanDecode(message.body) THEN message.body.picture ELSE BlankFrame

(* What can be recognized in the bytes of the body as long as they are as  *)
(* they were: nothing when the headers are not those of the picture.       *)
Fits(message) ==
  /\ message.body.format = "raw"
  /\ message.imgtype = TypeOf(message.body.picture.channels)
  /\ <<message.width, message.height>> = <<message.body.picture.cols, message.body.picture.rows>>

PixelsOf(message) ==
  Leftovers \cup {IF Fits(message) THEN message.body.picture.objects ELSE << >>}

(* The pictures that the frame of a message may be when it is read after   *)
(* the callback.  A decoded or blank frame has memory of its own.          *)
ReadLater(message, frame) ==
  IF IsRaw(message) THEN {[frame EXCEPT !.objects = pixels] : pixels \in PixelsOf(message)}
  ELSE {frame}

HasSource(message) == message.srcid # NoSrcId
IsOffered(message) == HasSource(message) /\ ~DecodingThrows(message)

(* A message is acknowledged at the end of the callback and when it has no *)
(* srcid; the exception handlers return before that.                       *)
AckedWhenUsable(message) ==                         \* slip: not when it is blank
  ~HasSource(message) \/ (IsOffered(message) /\ FrameOf(message) # BlankFrame)
IsAcked(message) == ~HasSource(message) \/ IsOffered(message)
=============================================================================
