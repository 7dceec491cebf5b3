---------------------------- MODULE StreamDecoder ----------------------------
(***************************************************************************)
(* ingress/decoder.c: cutting a byte stream into frames of fixed length.   *)
(* A byte is <<f, k>>, the k-th byte of frame f; so the first byte of any  *)
(* frame, whole or cut short, looks like the magic, and the CRC holds for  *)
(* the bytes of one frame in their order and for nothing else.             *)
(***************************************************************************)
EXTENDS Integers, Sequences, SequencesExt

CONSTANTS
  FrameLen,   \* ENV_FRAME_WIRE_SIZE
  BufSize     \* sizeof(st->buf)

ASSUME DecoderAssumption ==
  /\ FrameLen \in Nat \ {0}
  /\ BufSize \in Nat
  /\ FrameLen <= BufSize

\* frame_magic_ok
MagicOk(bytes) == bytes[1][2] = 1

\* frame_decode: crc_ok
FrameDecode(bytes) == \A k \in 1..FrameLen : bytes[k] = <<bytes[1][1], k>>

\* Bug: nothing but the magic is looked at.
DecodeMagicOnly(bytes) == MagicOk(bytes)

DecodeWire(bytes) == MagicOk(bytes) /\ FrameDecode(bytes)

\* frame_stream_reset
StreamReset == [buf |-> << >>, resync |-> 0]

\* Bug: what is in the buffer is left for the next call.
CutNothing(b) == [frames |-> << >>, skipped |-> 0, rest |-> b]

\* The second loop of frame_stream_feed: from the front, a frame where there
\* is one, else one byte is skipped; what is shorter than a frame stays.
CutFrames(b) ==
  LET Cut[i \in 1..(Len(b) + 1)] ==
        IF Len(b) - i + 1 < FrameLen
        THEN [frames |-> << >>, skipped |-> 0, rest |-> SubSeq(b, i, Len(b))]
        ELSE LET bytes == SubSeq(b, i, i + FrameLen - 1)
             IN  IF DecodeWire(bytes)
                 THEN [Cut[i + FrameLen] EXCEPT !.frames = <<bytes[1][1]>> \o @]
                 ELSE [Cut[i + 1] EXCEPT !.skipped = @ + 1]
  IN  Cut[1]

\* The first loop: what does not fit pushes the oldest bytes out.
Overflow(st, data) ==
  LET total == Len(st.buf) + Len(data)
  IN  IF total > BufSize THEN total - BufSize ELSE 0

\* frame_stream_feed
StreamFeed(st, data) ==
  LET over == Overflow(st, data)
      all  == st.buf \o data
      cut  == CutFrames(SubSeq(all, over + 1, Len(all)))
  IN  [stream |-> [buf |-> cut.rest, resync |-> st.resync + over + cut.skipped],
       frames |-> cut.frames]

\* What a decoder ought to find in a stream, without a buffer or a scan: a
\* frame all of whose bytes are there begins with byte i.
WholeAt(bytes, i) ==
  /\ i + FrameLen - 1 <= Len(bytes)
  /\ \A k \in 1..FrameLen : bytes[i + k - 1] = <<bytes[i][1], k>>

=============================================================================
