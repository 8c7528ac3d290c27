--------------------------- MODULE TrivialClient ----------------------------
(***************************************************************************)
(* examples/trivial_client.cpp: it announces one source, publishes every   *)
(* second picture of a video as raw pixels, over and over, and reads the   *)
(* results, until a key is pressed.                                        *)
(*                                                                         *)
(* Four threads: main(), the publisher with the thread of its connection   *)
(* (which hands the outbox to the broker), the consumer of results, and a  *)
(* consumer of processed images.  That one ends with the first image after *)
(* the key; the service publishes none, so there is nothing to model of    *)
(* it but that main() waits for it in the end.                             *)
(***************************************************************************)
EXTENDS FrameDecoder

CONSTANTS
  SRC,             \* src_id, 99 in the code
  Video,           \* the pictures of the video file, in order
  MaxSent          \* bound of the model: messages published

VARIABLES
  interrupt,       \* has a key been pressed
  mainPc,          \* where main() is
  publisherPc,     \* where the publisher thread is
  position,        \* how many pictures the publisher has taken of the video
  consumerPc,      \* where the thread is that reads the results
  alive,           \* FALSE after std::terminate
  outbox,          \* what the publisher's connection has not sent yet
  sent,            \* history: every frame message published, by any sender
  inbox,           \* the client's queue at the broker
  received         \* history: the results that the consumer has read

publisherVars == <<publisherPc, position, outbox, sent>>
consumerVars == <<consumerPc, inbox, received>>
clientVars == <<interrupt, mainPc, publisherVars, consumerVars, alive>>

Announcement == 0            \* in the outbox, among the numbers of frames

ClientInit ==
  /\ interrupt = FALSE /\ mainPc = "wait" /\ alive = TRUE
  /\ publisherPc = "announce" /\ position = 0 /\ outbox = << >> /\ sent = << >>
  /\ consumerPc = "declare" /\ inbox = << >> /\ received = << >>

(* A raw picture with all its headers.                                     *)
RawMessage(picture) ==
  [srcid |-> SRC, imgtype |-> TypeOf(picture.channels), width |-> picture.cols,
   height |-> picture.rows, body |-> [format |-> "raw", picture |-> picture]]

-----------------------------------------------------------------------------
PressKey ==
  /\ alive /\ mainPc = "wait"
  /\ interrupt' = TRUE
  /\ mainPc' = "join_publisher"
  /\ UNCHANGED <<publisherVars, consumerVars, alive>>

Join ==
  /\ alive
  /\ \/ mainPc = "join_publisher" /\ publisherPc = "done" /\ mainPc' = "join_consumer"
     \/ mainPc = "join_consumer" /\ consumerPc = "done" /\ mainPc' = "join_img_consumer"
  /\ UNCHANGED <<interrupt, publisherVars, consumerVars, alive>>

-----------------------------------------------------------------------------
SeesCopy == FALSE                           \* slip: interrupt captured by value
SeesInterrupt == interrupt

(* Both exchanges are declared before it on the same channel.              *)
Announce ==
  /\ alive /\ publisherPc = "announce"
  /\ outbox' = Append(outbox, Announcement)
  /\ publisherPc' = "open"
  /\ UNCHANGED <<interrupt, mainPc, position, sent, consumerVars, alive>>

OpenVideo ==
  /\ alive /\ publisherPc = "open" /\ ~SeesInterrupt
  /\ position' = 0
  /\ publisherPc' = "grab"
  /\ UNCHANGED <<interrupt, mainPc, outbox, sent, consumerVars, alive>>

(* The thread returns while the thread of its connection is still          *)
(* joinable: std::terminate ends the program and with it its connections.  *)
CannotOpenVideo ==
  /\ alive /\ publisherPc = "open" /\ ~SeesInterrupt
  /\ alive' = FALSE
  /\ outbox' = << >> /\ inbox' = << >>
  /\ UNCHANGED <<interrupt, mainPc, publisherPc, position, sent, consumerPc, received>>

(* grab() takes a picture that nobody looks at, read() takes the next one. *)
Grab ==
  /\ alive /\ publisherPc = "grab"
  /\ IF position < Len(Video) /\ ~SeesInterrupt
     THEN position' = position + 1 /\ publisherPc' = "read"
     ELSE publisherPc' = "open" /\ UNCHANGED position
  /\ UNCHANGED <<interrupt, mainPc, outbox, sent, consumerVars, alive>>

Publish(message) ==
  /\ sent' = Append(sent, message)
  /\ outbox' = Append(outbox, Len(sent'))

Read ==
  /\ alive /\ publisherPc = "read"
  /\ IF position < Len(Video)
     THEN /\ position' = position + 1 /\ publisherPc' = "grab"
          /\ IF Len(sent) < MaxSent THEN Publish(RawMessage(Video[position']))
                                    ELSE UNCHANGED <<sent, outbox>>
     ELSE publisherPc' = "open" /\ UNCHANGED <<position, sent, outbox>>
  /\ UNCHANGED <<interrupt, mainPc, consumerVars, alive>>

(* The connection is stopped; what it has not sent is lost.                *)
StopPublisher ==
  /\ alive /\ publisherPc = "open" /\ SeesInterrupt
  /\ publisherPc' = "done"
  /\ outbox' = << >>
  /\ UNCHANGED <<interrupt, mainPc, position, sent, consumerVars, alive>>

Publisher == Announce \/ OpenVideo \/ CannotOpenVideo \/ Grab \/ Read \/ StopPublisher

-----------------------------------------------------------------------------
(* The exchange of the results, an exclusive queue, its binding and its    *)
(* consumer; the broker has answered all of it.                            *)
Bound == alive /\ consumerPc = "consume"

BindResults ==
  /\ alive /\ consumerPc = "declare"
  /\ consumerPc' = "consume"
  /\ UNCHANGED <<interrupt, mainPc, publisherVars, inbox, received, alive>>

(* Only a message makes the consumer look at interrupt.                    *)
NeverStops == FALSE                         \* slip: interrupt captured by value
StopsAfterMessage == interrupt

ReceiveResult ==
  /\ Bound /\ inbox # << >>
  /\ received' = Append(received, Head(inbox))
  /\ IF StopsAfterMessage THEN consumerPc' = "done" /\ inbox' = << >>
                          ELSE inbox' = Tail(inbox) /\ UNCHANGED consumerPc
  /\ UNCHANGED <<interrupt, mainPc, publisherVars, alive>>

Consumer == BindResults \/ ReceiveResult
=============================================================================
