--------------------------- MODULE AudioConverter ---------------------------
(***************************************************************************)
(* audio_converter::convert (src/src/audio_converter.cpp): a list of       *)
(* buffers is written to a sink, as it is, or with the frames and samples  *)
(* left out that the output has no use for.                                *)
(*                                                                         *)
(* A buffer is its size in bytes.  What is written is not the bytes but    *)
(* where they were read: a piece is [entry, offset, length], the buffer of *)
(* the list, the first byte in it, and how many.  A step is one turn of    *)
(* the loop over a buffer, or the move to the next buffer.                 *)
(***************************************************************************)
EXTENDS Conversion, Sequences

CONSTANTS InProperties, OutProperties,  \* audio properties that occur
          Queues,                       \* lists of buffer sizes that occur
          Seconds,                      \* lengths of clips
          Block                         \* frames a turn of the unrolled loop takes: 8

ASSUME PropertiesKnown ==
    InProperties \subseteq AudioProperties /\ OutProperties \subseteq AudioProperties
ASSUME BuffersNotEmpty == \A q \in Queues : q \in Seq(Nat \ {0}) /\ q # <<>>
ASSUME LengthsNatural == Seconds \subseteq Nat /\ Block \in Nat \ {0}

VARIABLES
    in_props, out_props,
    queue, asked,               \* the arguments of convert: list of buffers, size
    memory, capacity,           \* the sink: in memory or a file; max_size
    pc,                         \* convert, buffer, copy, done, undefined
    entry, offset, buffer_size, \* the loop's buffer, ptr in it, bytes left of it
    size, read_offset,
    written,                    \* the pieces, in order
    m_write_offset              \* bytes in the sink

job == <<in_props, out_props, queue, asked, memory, capacity>>
sink == <<written, m_write_offset>>
vars == <<job, pc, entry, offset, buffer_size, size, read_offset, sink>>

m_op == Operation(in_props, out_props)
frame_size == FrameSize(in_props)
sample_size == SampleSize(in_props)
leap_value == (frame_size * SamplingRate(in_props)) \div SamplingRate(out_props)

\* A clip of so many seconds: the size asked for, and the sink music_id.cpp
\* creates for it, with a second to spare.
Init ==
    /\ in_props \in InProperties
    /\ out_props \in OutProperties \cup {in_props}
    /\ queue \in Queues
    /\ \E seconds \in Seconds :
        /\ asked = seconds * DataRate(in_props)
        /\ capacity = (seconds + 1) * DataRate(out_props)
    /\ memory \in BOOLEAN
    /\ pc = "convert"
    /\ entry = 1 /\ offset = 0 /\ buffer_size = 0
    /\ size = asked
    /\ read_offset = 0
    /\ written = <<>> /\ m_write_offset = 0

-----------------------------------------------------------------------------
\* write_data of the sink.
WriteData(pieces, bytes) ==
    /\ written' = written \o pieces
    /\ m_write_offset' = m_write_offset + bytes

Piece(from, length) == [entry |-> entry, offset |-> from, length |-> length]

Convert ==
    /\ pc = "convert"
    /\ pc' = IF m_op = "UNSUPPORTED_CONVERSION" THEN "done" ELSE "buffer"
    /\ UNCHANGED <<job, entry, offset, buffer_size, size, read_offset, sink>>

\* Mutant: the end of the list is not noticed.
NextBuffer_PastEnd ==
    /\ pc = "buffer" /\ m_op # "NO_CONVERSION"
    /\ pc' = "copy"
    /\ offset' = read_offset
    /\ buffer_size' = IF entry \in DOMAIN queue THEN queue[entry] ELSE 1
    /\ UNCHANGED <<job, entry, size, read_offset, sink>>

\* The loop takes the next buffer; ptr begins where the last one left off.
NextBuffer ==
    /\ pc = "buffer" /\ m_op # "NO_CONVERSION"
    /\ entry \in DOMAIN queue
    /\ pc' = "copy"
    /\ offset' = read_offset
    /\ buffer_size' = queue[entry]
    /\ UNCHANGED <<job, entry, size, read_offset, sink>>

NoMoreBuffers ==
    /\ pc = "buffer"
    /\ entry \notin DOMAIN queue
    /\ pc' = "done"
    /\ UNCHANGED <<job, entry, offset, buffer_size, size, read_offset, sink>>

\* Mutant: size is not counted down.
BufferDone_NotCounted(enough) ==
    /\ entry' = entry + 1
    /\ UNCHANGED size
    /\ pc' = "buffer"

\* The loop ends when so much has been taken that `enough` holds of the rest.
BufferDone(enough) ==
    /\ entry' = entry + 1
    /\ size' = size - queue[entry]
    /\ pc' = IF size' \in enough THEN "done" ELSE "buffer"

AtMostZero == {n \in Int : n <= 0}
Negative   == {n \in Int : n < 0}

\* passthrough goes on when exactly enough has been written.
Passthrough ==
    /\ pc = "buffer" /\ m_op = "NO_CONVERSION"
    /\ entry \in DOMAIN queue
    /\ WriteData(<<Piece(0, queue[entry])>>, queue[entry])
    /\ BufferDone(Negative)
    /\ UNCHANGED <<job, offset, buffer_size, read_offset>>

-----------------------------------------------------------------------------
(* downsample_and_downmix: buffer_size is signed *)

Downsamples == m_op \in {"DOWNSAMPLE", "DOWNMIX_AND_DOWNSAMPLE"}
write_length == IF m_op = "DOWNMIX_AND_DOWNSAMPLE" THEN sample_size ELSE frame_size

\* Mutant: one turn too many.
DownsampleFrame_Inclusive ==
    /\ pc = "copy" /\ Downsamples
    /\ buffer_size >= 0
    /\ WriteData(<<Piece(offset, write_length)>>, write_length)
    /\ buffer_size' = buffer_size - leap_value
    /\ offset' = offset + leap_value
    /\ UNCHANGED <<job, pc, entry, size, read_offset>>

\* Mutant: ptr moves by a frame.
DownsampleFrame_NoLeap ==
    /\ pc = "copy" /\ Downsamples
    /\ buffer_size > 0
    /\ WriteData(<<Piece(offset, write_length)>>, write_length)
    /\ buffer_size' = buffer_size - leap_value
    /\ offset' = offset + frame_size
    /\ UNCHANGED <<job, pc, entry, size, read_offset>>

DownsampleFrame ==
    /\ pc = "copy" /\ Downsamples
    /\ buffer_size > 0
    /\ WriteData(<<Piece(offset, write_length)>>, write_length)
    /\ buffer_size' = buffer_size - leap_value
    /\ offset' = offset + leap_value
    /\ UNCHANGED <<job, pc, entry, size, read_offset>>

\* What the last leap skipped beyond the buffer is where the next one begins;
\* the bytes left of the next one are counted from its start all the same.
DownsampleBufferDone ==
    /\ pc = "copy" /\ Downsamples
    /\ buffer_size <= 0
    /\ read_offset' = -buffer_size
    /\ BufferDone(AtMostZero)
    /\ UNCHANGED <<job, offset, buffer_size, sink>>

-----------------------------------------------------------------------------
(* downmix: buffer_size is unsigned *)

\* 16-bit stereo into memory takes the fast path, which has no regard for size.
FastPath == m_op = "DOWNMIX" /\ memory

\* Mutant: a block is taken whenever anything is left.
DownmixBlock_AnyRest ==
    /\ pc = "copy" /\ FastPath
    /\ buffer_size > 0
    /\ WriteData([i \in 1 .. Block |-> Piece(offset + (i - 1) * frame_size, sample_size)],
                 Block * sample_size)
    /\ offset' = offset + Block * frame_size
    /\ IF buffer_size >= Block * frame_size
         THEN buffer_size' = buffer_size - Block * frame_size /\ UNCHANGED pc
         ELSE pc' = "undefined" /\ UNCHANGED buffer_size
    /\ UNCHANGED <<job, entry, size, read_offset>>

DownmixBlock ==
    /\ pc = "copy" /\ FastPath
    /\ buffer_size >= Block * frame_size
    /\ WriteData([i \in 1 .. Block |-> Piece(offset + (i - 1) * frame_size, sample_size)],
                 Block * sample_size)
    /\ offset' = offset + Block * frame_size
    /\ buffer_size' = buffer_size - Block * frame_size
    /\ UNCHANGED <<job, pc, entry, size, read_offset>>

\* When less than a frame is left the difference wraps and the loop runs on
\* beyond the buffer: undefined.
DownmixFrame ==
    /\ pc = "copy" /\ m_op = "DOWNMIX"
    /\ buffer_size > 0 /\ ~(FastPath /\ buffer_size >= Block * frame_size)
    /\ WriteData(<<Piece(offset, sample_size)>>, sample_size)
    /\ offset' = offset + frame_size
    /\ IF buffer_size >= frame_size
         THEN buffer_size' = buffer_size - frame_size /\ UNCHANGED pc
         ELSE pc' = "undefined" /\ UNCHANGED buffer_size
    /\ UNCHANGED <<job, entry, size, read_offset>>

DownmixBufferDone ==
    /\ pc = "copy" /\ m_op = "DOWNMIX"
    /\ buffer_size = 0
    /\ BufferDone(IF FastPath THEN {} ELSE AtMostZero)
    /\ UNCHANGED <<job, offset, buffer_size, read_offset, sink>>

-----------------------------------------------------------------------------
Next ==
    \/ Convert \/ NextBuffer \/ NoMoreBuffers \/ Passthrough
    \/ DownsampleFrame \/ DownsampleBufferDone
    \/ DownmixBlock \/ DownmixFrame \/ DownmixBufferDone

Spec == Init /\ [][Next]_vars

-----------------------------------------------------------------------------
(* Properties *)

\* Bytes of the buffers before the i-th.
Start(i) ==
    LET sum[n \in 0 .. Len(queue)] == IF n = 0 THEN 0 ELSE sum[n - 1] + queue[n]
    IN  sum[i - 1]
Total == Start(Len(queue) + 1)

\* What one turn of the loop of the operation skips.
Step == CASE Downsamples -> leap_value
          [] m_op = "DOWNMIX" -> frame_size
          [] OTHER -> 1

\* No frame, or group of frames of which one is kept, is split between two
\* buffers.
Aligned == \A i \in DOMAIN queue : queue[i] % Step = 0

\* n, rounded up to a multiple of unit.
RoundUp(n, unit) == n + ((-n) % unit)

\* How far the last leap of the i-th buffer goes beyond its end.
Beyond(i) == IF i \in DOMAIN queue THEN RoundUp(queue[i], Step) - queue[i] ELSE 0

\* What the leaps beyond the buffers before the last one amount to, at the i-th.
Drift(i) ==
    LET sum[n \in 0 .. Len(queue)] == IF n = 0 THEN 0 ELSE sum[n - 1] + Beyond(n - 1)
    IN  sum[i - 1]

\* The types of the variables; above all, the loop never runs past the list.
TypeOK ==
    /\ pc \in {"convert", "buffer", "copy", "done", "undefined"}
    /\ entry \in 1 .. Len(queue) + 1
    /\ pc = "copy" => entry \in DOMAIN queue
    /\ offset \in Nat /\ buffer_size \in Int /\ size \in Int /\ read_offset \in Nat
    /\ m_write_offset \in Nat

\* How far reads go beyond a buffer, whichever way the sizes of the buffers, the
\* leap, the unrolled loop and the unsigned differences meet: not beyond the frame
\* the buffer ends in, and, when the last leap of the buffer before went beyond its
\* end, by no more than that (there the code does read what is behind the buffer).
\* Only a buffer that ends within a frame makes an unsigned difference wrap.
ReadsInBuffer ==
    /\ TypeOK
    /\ pc = "undefined" => m_op = "DOWNMIX" /\ queue[entry] % frame_size # 0
    /\ \A i \in DOMAIN written :
        LET e == written[i].entry
            grain == IF m_op = "NO_CONVERSION" THEN 1 ELSE frame_size
        IN  written[i].offset + written[i].length <= RoundUp(queue[e], grain) + Beyond(e - 1)

\* How the output follows the input, across the borders of buffers and of the
\* unrolled loop: its i-th piece is read where the i-th group of the whole stream
\* begins, up to the second border that splits a group, and from there on lags behind
\* by what the leaps went beyond the buffers before the last one, for read_offset
\* moves ptr but not the count of the bytes left.
OutputFollowsStream ==
    m_op # "NO_CONVERSION" =>
        \A i \in DOMAIN written :
            LET e == written[i].entry
            IN  /\ Start(e) + written[i].offset = (i - 1) * Step - Drift(e)
                /\ written[i].length = IF Downsamples THEN write_length ELSE sample_size

\* When the conversion has ended, it has taken what was asked for or all there
\* was, and stopped at the buffer with which it had enough (the first is always
\* taken, passthrough takes one more when it has exactly enough, the fast path
\* takes all).
TakesWhatWasAsked ==
    pc = "done" /\ m_op # "UNSUPPORTED_CONVERSION" =>
        LET taken == Start(entry)
            before == Start(entry - 1)
        IN  /\ taken >= asked \/ entry = Len(queue) + 1
            /\ \/ FastPath
               \/ before < asked \/ entry = 2
               \/ m_op = "NO_CONVERSION" /\ before = asked

\* music_id.cpp allows a second more than a clip is long: enough, when a buffer
\* holds no more than a second, for every operation but the fast path, and for
\* that one when the queue holds no more than that second too much.
ClipFits ==
    /\ memory
    /\ Aligned
    /\ (\A i \in DOMAIN queue : queue[i] <= DataRate(in_props))
    /\ (FastPath => Total <= asked + DataRate(in_props))
    => m_write_offset <= capacity

-----------------------------------------------------------------------------
(* What comments say and the code does not do *)

\* audio_converter.cpp:156, of read_offset: "to maintain the continuity of
\* 'frame-skipping' across buffer boundaries".  With buffers of whole frames every
\* piece of the output is that of the next group of the stream.
ContinuityKept ==
    Downsamples /\ (\A i \in DOMAIN queue : queue[i] % frame_size = 0) =>
        \A i \in DOMAIN written :
            Start(written[i].entry) + written[i].offset = (i - 1) * Step

\* music_id.cpp:214, of the sink's size: "an extra second to account for the
\* imprecise way in which ACM cuts clips".  The fast path cuts nothing.
ExtraSecondIsEnough ==
    /\ memory
    /\ Aligned
    /\ (\A i \in DOMAIN queue : queue[i] <= DataRate(in_props))
    => m_write_offset <= capacity
=============================================================================
