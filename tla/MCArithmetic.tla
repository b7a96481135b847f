---------------------------- MODULE MCArithmetic ----------------------------
(***************************************************************************)
(* The small machines, side by side: the mixer, the registry, the frame      *)
(* parser, the channel decoder and the two line readers.  None shares state  *)
(* with another, so a behaviour picks one of them.                          *)
(***************************************************************************)
EXTENDS Mixing, Registry, Framing, Lines

VARIABLE subject

vars == <<subject, mixVars, regVars, frameVars, channelVars, readerVars, bufferVars>>

(* One bit anywhere in the payload, and ramps that set every field.          *)
MCPayloads ==
  {[i \in 1 .. 22 |-> IF i = n THEN 2^k ELSE 0] : n \in 1 .. 22, k \in 0 .. 7}
  \cup {[i \in 1 .. 22 |-> (a * i + b) % 256] : a \in {37, 91}, b \in {0, 85, 255}}

MCChunks == UNION {[1 .. n -> Chars] : n \in 1 .. 3}

Init ==
  /\ subject \in {"mixer", "registry", "frames", "channels", "reader", "buffer"}
  /\ MixInit /\ RegInit /\ FrameInit /\ ChannelInit /\ ReaderInit /\ BufferInit
  /\ subject # "channels" => payload = [i \in 1 .. 22 |-> (37 * i) % 256]

Drive ==
  /\ subject = "mixer" /\ MixNext
  /\ UNCHANGED <<subject, regVars, frameVars, channelVars, readerVars, bufferVars>>

StartUp ==
  /\ subject = "registry" /\ RegNext
  /\ UNCHANGED <<subject, mixVars, frameVars, channelVars, readerVars, bufferVars>>

ParseFrames ==
  /\ subject = "frames" /\ FrameNext
  /\ UNCHANGED <<subject, mixVars, regVars, channelVars, readerVars, bufferVars>>

DecodeChannels ==
  /\ subject = "channels" /\ ChannelNext
  /\ UNCHANGED <<subject, mixVars, regVars, frameVars, readerVars, bufferVars>>

ReadOnBoard ==
  /\ subject = "reader" /\ ReaderNext
  /\ UNCHANGED <<subject, mixVars, regVars, frameVars, channelVars, bufferVars>>

ReadInPage ==
  /\ subject = "buffer" /\ BufferNext
  /\ UNCHANGED <<subject, mixVars, regVars, frameVars, channelVars, readerVars>>

Next == Drive \/ StartUp \/ ParseFrames \/ DecodeChannels \/ ReadOnBoard \/ ReadInPage

Spec == Init /\ [][Next]_vars
=============================================================================
