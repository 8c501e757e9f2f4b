------------------------- MODULE AudioConverterProofs -------------------------
(***************************************************************************)
(* Theorems about audio_converter (module AudioConverter), for all audio   *)
(* properties, lists of buffers of any sizes and clips of any length.      *)
(***************************************************************************)
EXTENDS AudioConverter, NumberLemmas, SequenceTheorems

-----------------------------------------------------------------------------
(* The formats *)

LEMMA Multiple ==
    ASSUME NEW a \in Nat, NEW m \in Nat \ {0}, a % m = 0
    PROVE  \E k \in Nat : a = k * m
<1>1. a = m * (a \div m)
  OBVIOUS
<1>2. a \div m \in Nat
  OBVIOUS
<1>. QED BY <1>1, <1>2

\* Rounding up.
LEMMA RoundsUp ==
    ASSUME NEW n \in Nat, NEW u \in Nat \ {0}
    PROVE  /\ RoundUp(n, u) \in Nat /\ n <= RoundUp(n, u) /\ RoundUp(n, u) < n + u
           /\ \E m \in Nat : RoundUp(n, u) = m * u
<1> DEFINE rest == (-n) % u
           quot == (-n) \div u
<1>1. /\ rest \in 0 .. u - 1 /\ quot \in Int /\ -n = u * quot + rest
  OBVIOUS
<1>2. RoundUp(n, u) = n + rest
  BY DEF RoundUp
<1> HIDE DEF rest, quot
<1>3. RoundUp(n, u) = (-quot) * u
  BY <1>1, <1>2
<1>4. -quot \in Nat
  <2>1. (-quot) * u >= 0 /\ -quot \in Int
    BY <1>1, <1>2, <1>3
  <2>2. \A a \in Int : a < 0 => a * u < 0
    OBVIOUS
  <2>. QED BY <2>1, <2>2
<1>5. \E m \in Nat : RoundUp(n, u) = m * u
  BY <1>3, <1>4
<1>6. RoundUp(n, u) \in Nat /\ n <= RoundUp(n, u) /\ RoundUp(n, u) < n + u
  BY <1>1, <1>2
<1>. QED BY <1>5, <1>6

\* There is one multiple that is the next.
LEMMA RoundsUpTo ==
    ASSUME NEW n \in Nat, NEW u \in Nat \ {0}, NEW m \in Nat, n <= m * u, m * u < n + u
    PROVE  RoundUp(n, u) = m * u
<1>1. PICK k \in Nat : RoundUp(n, u) = k * u
  BY RoundsUp
<1>2. n <= k * u /\ k * u < n + u
  BY <1>1, RoundsUp
<1>3. \A a, b \in Nat : a < b => a * u + u <= b * u
  <2> SUFFICES ASSUME NEW a \in Nat, NEW b \in Nat, a < b PROVE a * u + u <= b * u
    OBVIOUS
  <2>1. PICK c \in Nat : b = (a + 1) + c
    <3>1. b - (a + 1) \in Nat /\ b = (a + 1) + (b - (a + 1))
      OBVIOUS
    <3>. QED BY <3>1
  <2>2. c * u \in Nat /\ b * u = (a * u + u) + c * u
    BY <2>1
  <2>. QED BY <2>2
<1>4. k * u \in Nat /\ m * u \in Nat
  OBVIOUS
<1>5. ~(k < m) /\ ~(m < k)
  BY <1>2, <1>3, <1>4
<1>. QED BY <1>1, <1>5

\* A unit that begins before n ends before n rounded up.
LEMMA UnitFits ==
    ASSUME NEW n \in Nat, NEW u \in Nat \ {0}, NEW c \in Nat, c * u < n
    PROVE  c * u + u <= RoundUp(n, u)
<1>1. PICK m \in Nat : RoundUp(n, u) = m * u
  BY RoundsUp
<1>2. n <= m * u /\ m * u \in Nat /\ c * u \in Nat
  BY <1>1, RoundsUp
<1>3. c < m
  <2>1. ASSUME m <= c PROVE FALSE
    <3>1. PICK d \in Nat : c = m + d
      <4>1. c - m \in Nat /\ c = m + (c - m)
        BY <2>1
      <4>. QED BY <4>1
    <3>2. d * u \in Nat /\ c * u = m * u + d * u
      BY <3>1
    <3>. QED BY <1>2, <3>2
  <2>. QED BY <2>1
<1>4. PICK d \in Nat : m = (c + 1) + d
  <2>1. m - (c + 1) \in Nat /\ m = (c + 1) + (m - (c + 1))
    BY <1>3
  <2>. QED BY <2>1
<1>5. d * u \in Nat /\ m * u = (c * u + u) + d * u
  BY <1>4
<1>. QED BY <1>1, <1>2, <1>5

LEMMA OfFormats ==
    ASSUME NEW p \in AudioProperties
    PROVE  /\ SamplingRate(p) \in 2 .. 6
           /\ SampleSize(p) \in {2, 3}
           /\ FrameSize(p) \in {2, 4, 6, 18} /\ SampleSize(p) <= FrameSize(p)
           /\ DataRate(p) = SamplingRate(p) * FrameSize(p)
           /\ p.format = "16BitStereo" => FrameSize(p) = 4 /\ SampleSize(p) = 2
           /\ p.format \in {"16BitMonoLeft", "16BitMonoRight", "16BitMono"} => FrameSize(p) = 2
<1>1. p.format \in Formats /\ p.sampling_frequency \in Frequencies
  BY DEF AudioProperties
<1>2. SamplingRate(p) \in 2 .. 6
  BY <1>1 DEF Frequencies, SamplingRate
<1>3. BitsPerSample(p) \in {16, 24} /\ NumChannels(p) \in {1, 2, 6}
  BY <1>1 DEF Formats, BitsPerSample, NumChannels
<1>4. BitsPerSample(p) = 8 * SampleSize(p) /\ SampleSize(p) \in {2, 3}
  BY <1>3 DEF SampleSize
<1>5. FrameSize(p) \in {2, 4, 6, 18} /\ SampleSize(p) <= FrameSize(p)
  BY <1>1 DEF Formats, BitsPerSample, NumChannels, SampleSize, FrameSize
<1>6. DataRate(p) = SamplingRate(p) * FrameSize(p)
  BY <1>2, <1>3, <1>4 DEF DataRate, FrameSize
<1>7. p.format = "16BitStereo" => FrameSize(p) = 4 /\ SampleSize(p) = 2
  BY DEF BitsPerSample, NumChannels, SampleSize, FrameSize
<1>8. p.format \in {"16BitMonoLeft", "16BitMonoRight", "16BitMono"} => FrameSize(p) = 2
  BY DEF BitsPerSample, NumChannels, SampleSize, FrameSize
<1>. QED BY <1>2, <1>4, <1>5, <1>6, <1>7, <1>8

LEMMA Operations ==
    m_op \in {"UNSUPPORTED_CONVERSION", "NO_CONVERSION", "DOWNMIX", "DOWNSAMPLE",
              "DOWNMIX_AND_DOWNSAMPLE"}
BY DEF m_op, Operation

Converts == m_op \in {"DOWNMIX", "DOWNSAMPLE", "DOWNMIX_AND_DOWNSAMPLE"}

\* What is kept of each Step bytes.
PieceLength == IF Downsamples THEN write_length ELSE sample_size

-----------------------------------------------------------------------------
(* The inductive invariant *)

\* The arguments of convert, which no step changes.
JobInv ==
    /\ in_props \in AudioProperties /\ out_props \in AudioProperties
    /\ queue \in Seq(Nat \ {0}) /\ queue # <<>>
    /\ memory \in BOOLEAN
    /\ \E seconds \in Nat : /\ asked = seconds * DataRate(in_props)
                            /\ capacity = (seconds + 1) * DataRate(out_props)

Pieces == [entry : Nat, offset : Nat, length : Nat]

\* Where the loop is: size is what is asked for less the buffers done.
PlaceInv ==
    /\ TypeOK
    /\ written \in Seq(Pieces)
    /\ \A i \in 1 .. Len(written) : written[i].entry \in 1 .. Len(queue)
    /\ pc = "copy" => Converts
    /\ pc \in {"buffer", "undefined"} => m_op # "UNSUPPORTED_CONVERSION"
    /\ m_op = "UNSUPPORTED_CONVERSION" => written = <<>> /\ m_write_offset = 0
    /\ pc = "convert" => entry = 1 /\ written = <<>> /\ m_write_offset = 0 /\ read_offset = 0
    /\ size = asked - Start(entry)

\* Before a buffer there is something left to take; afterwards the last one was needed.
StopInv ==
    /\ pc \in {"buffer", "copy"} =>
          FastPath \/ entry = 1 \/ size > 0 \/ (m_op = "NO_CONVERSION" /\ size >= 0)
    /\ pc = "done" /\ m_op # "UNSUPPORTED_CONVERSION" =>
          /\ entry > 1
          /\ size <= 0 \/ entry = Len(queue) + 1
          /\ \/ FastPath \/ entry = 2 \/ size + queue[entry - 1] > 0
             \/ m_op = "NO_CONVERSION" /\ size + queue[entry - 1] = 0

\* Without a conversion every buffer is written as it is.
PassInv ==
    m_op = "NO_CONVERSION" =>
        /\ pc \in {"convert", "buffer", "done"}
        /\ m_write_offset = Start(entry)
        /\ \A i \in 1 .. Len(written) : /\ written[i].offset = 0
                                        /\ written[i].length = queue[written[i].entry]

\* The i-th piece is the beginning of the i-th group, where the leaps have drifted to.
PieceOK(i) ==
    /\ written[i].length = PieceLength
    /\ written[i].offset + written[i].length
         <= RoundUp(queue[written[i].entry], frame_size) + Beyond(written[i].entry - 1)
    /\ Start(written[i].entry) + written[i].offset = (i - 1) * Step - Drift(written[i].entry)

\* Where a buffer begins, and how far the loop is in it.
GroupInv ==
    /\ Len(written) * Step = (Start(entry) + Drift(entry)) + offset
    /\ offset + buffer_size = queue[entry] + Beyond(entry - 1)
    /\ \E k \in Nat : offset = Beyond(entry - 1) + k * Step
    /\ buffer_size > -Step
    /\ m_op = "DOWNMIX" => buffer_size >= 0

\* As many pieces were written as groups were begun.
FollowInv ==
    Converts =>
        /\ pc = "undefined" =>
             m_op = "DOWNMIX" /\ entry \in 1 .. Len(queue) /\ queue[entry] % frame_size # 0
        /\ read_offset = Beyond(entry - 1)
        /\ m_op = "DOWNMIX" => read_offset = 0
        /\ Aligned => Drift(entry) = 0
        /\ pc = "copy" => GroupInv
        /\ pc \notin {"copy", "undefined"} =>
             Len(written) * Step = (Start(entry) + Drift(entry)) + Beyond(entry - 1)
        /\ m_write_offset = Len(written) * PieceLength
        /\ \A i \in 1 .. Len(written) : PieceOK(i)

ConvertInv == JobInv /\ PlaceInv /\ StopInv /\ PassInv /\ FollowInv

-----------------------------------------------------------------------------
(* Constants of a conversion *)

\* The bytes of the first buffers.
LEMMA StartSteps ==
    ASSUME JobInv
    PROVE  /\ Start(1) = 0
           /\ \A i \in 1 .. Len(queue) : Start(i + 1) = Start(i) + queue[i]
           /\ \A i \in 1 .. Len(queue) + 1 : Start(i) \in Nat /\ Start(i) <= Total
<1> DEFINE L == Len(queue)
           f == CHOOSE g : ArePartialSums(g, queue, L)
<1>0. L \in Nat /\ \A i \in 1 .. L : queue[i] \in Nat
  <2>1. L \in Nat /\ \A i \in 1 .. L : queue[i] \in Nat \ {0}
    BY LenProperties, ElementOfSeq DEF JobInv
  <2>. QED BY <2>1
<1>1. ArePartialSums(f, queue, L)
  BY <1>0, PartialSumsExist
<1>2. \A i \in 1 .. L + 1 : Start(i) = f[i - 1]
  BY DEF Start, ArePartialSums
<1> HIDE DEF f, L
<1>3. /\ f[0] = 0 /\ \A k \in 1 .. L : f[k] = f[k - 1] + queue[k]
      /\ \A k \in 0 .. L : f[k] \in Nat /\ f[k] <= f[L]
  BY <1>0, <1>1, PartialSumsSteps
<1>4. Start(1) = 0
  BY <1>0, <1>2, <1>3
<1>5. \A i \in 1 .. L : Start(i + 1) = Start(i) + queue[i]
  <2>1. \A i \in 1 .. L : i \in 1 .. L + 1 /\ i + 1 \in 1 .. L + 1 /\ (i + 1) - 1 = i
    BY <1>0
  <2>. QED BY <1>2, <1>3, <2>1
<1>6. Total = f[L]
  <2>1. L + 1 \in 1 .. L + 1 /\ (L + 1) - 1 = L
    BY <1>0
  <2>. QED BY <1>2, <2>1 DEF Total, L
<1>7. \A i \in 1 .. L + 1 : Start(i) \in Nat /\ Start(i) <= Total
  <2>1. \A i \in 1 .. L + 1 : i - 1 \in 0 .. L
    BY <1>0
  <2>. QED BY <1>2, <1>3, <1>6, <2>1
<1>. QED BY <1>4, <1>5, <1>7 DEF L

\* What is kept of a group, and how the rates of input and output compare.
LEMMA Groups ==
    ASSUME JobInv, Converts
    PROVE  /\ PieceLength \in Nat \ {0} /\ Step \in Nat \ {0} /\ PieceLength <= Step
           /\ \E g \in {2, 3, 4, 6} : /\ Step = g * PieceLength
                                      /\ DataRate(in_props) = g * DataRate(out_props)
           /\ m_op = "DOWNMIX" => Step = 4 /\ PieceLength = 2 /\ frame_size = 4 /\ sample_size = 2
           /\ \E r \in {1, 2, 3} : Step = r * frame_size
           /\ PieceLength <= frame_size
           /\ Downsamples => Step = leap_value /\ PieceLength = write_length
<1> DEFINE in == in_props
           out == out_props
<1>0. in \in AudioProperties /\ out \in AudioProperties
  BY DEF JobInv
<1>1. /\ SamplingRate(in) \in 2 .. 6 /\ SamplingRate(out) \in 2 .. 6
      /\ FrameSize(in) \in {2, 4, 6, 18} /\ FrameSize(out) \in {2, 4, 6, 18}
      /\ DataRate(in) = SamplingRate(in) * FrameSize(in)
      /\ DataRate(out) = SamplingRate(out) * FrameSize(out)
  BY <1>0, OfFormats
<1>2. FormatOk(in, out) /\ SampleRateOk(in, out)
  <2>1. m_op # "UNSUPPORTED_CONVERSION"
    BY DEF Converts
  <2>. QED BY <2>1 DEF m_op, Operation
<1>3. ASSUME Downmixes(in, out)
      PROVE  FrameSize(in) = 4 /\ SampleSize(in) = 2 /\ FrameSize(out) = 2
  BY <1>0, <1>3, OfFormats DEF Downmixes
<1>4. ASSUME ~Downmixes(in, out) PROVE FrameSize(in) = FrameSize(out)
  <2>1. CASE out.format = in.format
    BY <2>1 DEF FrameSize, SampleSize, NumChannels, BitsPerSample
  <2>2. CASE out.format = "16BitMono" /\ in.format \in {"16BitMonoLeft", "16BitMonoRight"}
    BY <1>0, <2>2, OfFormats
  <2>. QED BY <1>2, <1>4, <2>1, <2>2 DEF FormatOk
<1>5. CASE m_op = "DOWNMIX"
  <2>1. Downmixes(in, out) /\ ~(SamplingRate(out) < SamplingRate(in)) /\ ~Downsamples
    BY <1>5 DEF m_op, Operation, Downsamples
  <2>2. SamplingRate(in) = SamplingRate(out)
    BY <1>1, <1>2, <2>1 DEF SampleRateOk
  <2>3. frame_size = 4 /\ sample_size = 2 /\ PieceLength = 2 /\ Step = 4
    BY <1>3, <1>5, <2>1 DEF frame_size, sample_size, PieceLength, Step
  <2>4. DataRate(in) = 2 * DataRate(out)
    BY <1>1, <1>3, <2>1, <2>2
  <2>5. Step = 1 * frame_size /\ PieceLength <= frame_size
    BY <2>3
  <2>. QED BY <2>1, <2>3, <2>4, <2>5
<1>6. CASE Downsamples
  <2>1. SamplingRate(out) < SamplingRate(in) /\ SamplingRate(in) % SamplingRate(out) = 0
    BY <1>2, <1>6 DEF m_op, Operation, Downsamples, SampleRateOk
  <2>2. PICK r \in {2, 3} : SamplingRate(in) = r * SamplingRate(out)
    <3>1. \/ SamplingRate(in) = 4 /\ SamplingRate(out) = 2
          \/ SamplingRate(in) = 6 /\ SamplingRate(out) \in {2, 3}
      BY <1>1, <2>1
    <3>. QED BY <3>1
  <2>3. leap_value = r * frame_size
    <3>1. CASE SamplingRate(out) = 2
      <4>1. leap_value = (frame_size * (r * 2)) \div 2
        BY <2>2, <3>1 DEF leap_value
      <4>. QED BY <1>1, <4>1 DEF frame_size
    <3>2. CASE SamplingRate(out) = 3
      <4>1. leap_value = (frame_size * (r * 3)) \div 3
        BY <2>2, <3>2 DEF leap_value
      <4>. QED BY <1>1, <4>1 DEF frame_size
    <3>. QED BY <1>1, <2>1, <2>2, <3>1, <3>2
  <2>4. Step = leap_value /\ PieceLength = write_length /\ m_op # "DOWNMIX"
    BY <1>6 DEF Step, PieceLength, Downsamples
  <2>5. CASE m_op = "DOWNMIX_AND_DOWNSAMPLE"
    <3>1. Downmixes(in, out)
      BY <2>5 DEF m_op, Operation
    <3>2. PieceLength = 2 /\ Step = 4 * r
      BY <1>3, <2>3, <2>4, <2>5, <3>1 DEF write_length, frame_size, sample_size
    <3>3. DataRate(in) = (2 * r) * DataRate(out)
      BY <1>1, <1>3, <2>2, <3>1
    <3>4. Step = r * frame_size /\ PieceLength <= frame_size
      BY <1>3, <2>3, <2>4, <3>1, <3>2 DEF frame_size
    <3>. QED BY <2>4, <3>2, <3>3, <3>4
  <2>6. CASE m_op = "DOWNSAMPLE"
    <3>1. ~Downmixes(in, out)
      BY <2>6 DEF m_op, Operation
    <3>2. PieceLength = frame_size /\ Step = r * frame_size /\ frame_size \in {2, 4, 6, 18}
      BY <1>1, <2>3, <2>4, <2>6 DEF write_length, frame_size
    <3>3. DataRate(in) = r * DataRate(out)
      BY <1>1, <1>4, <2>2, <3>1
    <3>4. Step = r * frame_size /\ PieceLength <= frame_size
      BY <3>2
    <3>. QED BY <2>4, <3>2, <3>3, <3>4
  <2>. QED BY <1>6, <2>5, <2>6 DEF Downsamples
<1>. QED BY <1>5, <1>6 DEF Converts, Downsamples

LEMMA RatesSame ==
    ASSUME JobInv, m_op = "NO_CONVERSION"
    PROVE  DataRate(in_props) = DataRate(out_props)
<1> DEFINE in == in_props
           out == out_props
<1>0. in \in AudioProperties /\ out \in AudioProperties
  BY DEF JobInv
<1>1. /\ FormatOk(in, out) /\ SampleRateOk(in, out) /\ ~Downmixes(in, out)
      /\ ~(SamplingRate(out) < SamplingRate(in))
  BY DEF m_op, Operation
<1>2. FrameSize(in) = FrameSize(out)
  <2>1. CASE out.format = in.format
    BY <2>1 DEF FrameSize, SampleSize, NumChannels, BitsPerSample
  <2>2. CASE out.format = "16BitMono" /\ in.format \in {"16BitMonoLeft", "16BitMonoRight"}
    BY <1>0, <2>2, OfFormats
  <2>. QED BY <1>1, <2>1, <2>2 DEF FormatOk
<1>3. SamplingRate(in) = SamplingRate(out)
  BY <1>0, <1>1, OfFormats DEF SampleRateOk
<1>4. DataRate(in) = SamplingRate(in) * FrameSize(in)
  BY <1>0, OfFormats
<1>5. DataRate(out) = SamplingRate(out) * FrameSize(out)
  BY <1>0, OfFormats
<1>. QED BY <1>2, <1>3, <1>4, <1>5

\* The job, and all that is computed from it, stays.
LEMMA JobKept ==
    ASSUME [Next]_vars
    PROVE  /\ UNCHANGED job /\ m_op' = m_op /\ frame_size' = frame_size
           /\ sample_size' = sample_size /\ leap_value' = leap_value
           /\ Downsamples' = Downsamples /\ write_length' = write_length
           /\ FastPath' = FastPath /\ Converts' = Converts /\ PieceLength' = PieceLength
           /\ Step' = Step /\ Aligned' = Aligned /\ (JobInv => JobInv')
           /\ \A i : Start(i)' = Start(i) /\ Beyond(i)' = Beyond(i) /\ Drift(i)' = Drift(i)
<1>1. UNCHANGED job
  BY DEF Next, vars, Convert, NextBuffer, NoMoreBuffers, Passthrough, DownsampleFrame,
      DownsampleBufferDone, DownmixBlock, DownmixFrame, DownmixBufferDone
<1>2. UNCHANGED <<in_props, out_props, queue, asked, memory, capacity>>
  BY <1>1 DEF job
<1>3. /\ m_op' = m_op /\ frame_size' = frame_size
      /\ sample_size' = sample_size /\ leap_value' = leap_value
  BY <1>2 DEF m_op, frame_size, sample_size, leap_value
<1>4. Downsamples' = Downsamples /\ write_length' = write_length
  BY <1>3 DEF Downsamples, write_length
<1>5. /\ FastPath' = FastPath /\ Converts' = Converts /\ PieceLength' = PieceLength
      /\ Step' = Step
  BY <1>2, <1>3, <1>4 DEF FastPath, Converts, PieceLength, Step
<1>6. Aligned' = Aligned
  BY <1>2, <1>5 DEF Aligned
<1>7. JobInv => JobInv'
  BY <1>2 DEF JobInv
<1>8. \A i : Start(i)' = Start(i)
  BY <1>2 DEF Start
<1>9. \A i : Beyond(i)' = Beyond(i)
  BY <1>2, <1>5 DEF Beyond
<1>10. \A i : Drift(i)' = Drift(i)
  BY <1>2, <1>9 DEF Drift
<1>. QED BY <1>1, <1>3, <1>4, <1>5, <1>6, <1>7, <1>8, <1>9, <1>10

LEMMA JobFacts ==
    ASSUME JobInv
    PROVE  /\ Len(queue) \in Nat \ {0} /\ DOMAIN queue = 1 .. Len(queue)
           /\ \A i \in 1 .. Len(queue) : queue[i] \in Nat \ {0}
           /\ frame_size \in Nat \ {0} /\ sample_size \in Nat \ {0}
           /\ asked \in Nat
<1>1. /\ Len(queue) \in Nat /\ DOMAIN queue = 1 .. Len(queue)
      /\ \A i \in 1 .. Len(queue) : queue[i] \in Nat \ {0}
  BY LenProperties, ElementOfSeq DEF JobInv
<1>2. Len(queue) # 0
  BY EmptySeq DEF JobInv
<1>3. frame_size \in Nat \ {0} /\ sample_size \in Nat \ {0}
  BY OfFormats DEF JobInv, frame_size, sample_size
<1>4. asked \in Nat
  <2>1. \A s, d \in Nat : s * d \in Nat
    OBVIOUS
  <2>2. DataRate(in_props) \in Nat
    <3>1. in_props \in AudioProperties
      BY DEF JobInv
    <3>2. /\ SamplingRate(in_props) \in Nat /\ FrameSize(in_props) \in Nat
          /\ DataRate(in_props) = SamplingRate(in_props) * FrameSize(in_props)
      BY <3>1, OfFormats
    <3>. QED BY <2>1, <3>2
  <2>3. PICK seconds \in Nat : asked = seconds * DataRate(in_props)
    BY DEF JobInv
  <2>. QED BY <2>1, <2>2, <2>3
<1>. QED BY <1>1, <1>2, <1>3, <1>4

\* What a leap skips beyond a buffer is less than a leap, and none if it is aligned.
LEMMA BeyondLess ==
    ASSUME JobInv, Converts, NEW i \in 0 .. Len(queue)
    PROVE  /\ Beyond(i) \in Nat /\ Beyond(i) < Step
           /\ i = 0 => Beyond(i) = 0
           /\ i # 0 => RoundUp(queue[i], Step) = queue[i] + Beyond(i)
           /\ Aligned => Beyond(i) = 0
<1>1. Step \in Nat \ {0} /\ Len(queue) \in Nat /\ DOMAIN queue = 1 .. Len(queue)
  BY Groups, JobFacts
<1>2. CASE i = 0
  BY <1>1, <1>2 DEF Beyond
<1>3. CASE i # 0
  <2>1. i \in DOMAIN queue /\ queue[i] \in Nat
    BY <1>1, <1>3, JobFacts
  <2>2. /\ RoundUp(queue[i], Step) \in Nat /\ queue[i] <= RoundUp(queue[i], Step)
        /\ RoundUp(queue[i], Step) < queue[i] + Step
    BY <1>1, <2>1, RoundsUp
  <2>3. Beyond(i) = RoundUp(queue[i], Step) - queue[i]
    BY <2>1 DEF Beyond
  <2>4. Aligned => RoundUp(queue[i], Step) = queue[i]
    <3> SUFFICES ASSUME Aligned PROVE RoundUp(queue[i], Step) = queue[i]
      OBVIOUS
    <3>1. PICK k \in Nat : queue[i] = k * Step
      BY <1>1, <2>1, Multiple DEF Aligned
    <3>2. queue[i] <= k * Step /\ k * Step < queue[i] + Step
      BY <1>1, <2>1, <3>1
    <3>. QED BY <1>1, <2>1, <3>1, <3>2, RoundsUpTo
  <2>. QED BY <1>1, <1>3, <2>1, <2>2, <2>3, <2>4
<1>. QED BY <1>2, <1>3

\* The drift grows by what was skipped beyond the buffer before.
LEMMA DriftSteps ==
    ASSUME JobInv, Converts
    PROVE  /\ Drift(1) = 0
           /\ \A i \in 1 .. Len(queue) : Drift(i + 1) = Drift(i) + Beyond(i - 1)
           /\ \A i \in 1 .. Len(queue) + 1 : Drift(i) \in Nat
<1> DEFINE L == Len(queue)
           b == [n \in 1 .. L |-> Beyond(n - 1)]
           f == CHOOSE g : ArePartialSums(g, b, L)
<1>0. L \in Nat
  BY JobFacts
<1>1. \A n \in 1 .. L : b[n] = Beyond(n - 1) /\ b[n] \in Nat
  <2>1. \A n \in 1 .. L : n - 1 \in 0 .. L
    BY <1>0
  <2>. QED BY <2>1, BeyondLess
<1>2. \A i \in 1 .. L + 1 : Drift(i) = f[i - 1]
  <2> DEFINE Sums(g, c) == g = [k \in 0 .. L |-> IF k = 0 THEN 0 ELSE g[k - 1] + c[k]]
             h == CHOOSE g : g = [n \in 0 .. L |-> IF n = 0 THEN 0 ELSE g[n - 1] + Beyond(n - 1)]
  <2>1. \A i : Drift(i) = h[i - 1]
    BY DEF Drift
  <2>2. ASSUME NEW g
        PROVE  [n \in 0 .. L |-> IF n = 0 THEN 0 ELSE g[n - 1] + Beyond(n - 1)]
                 = [k \in 0 .. L |-> IF k = 0 THEN 0 ELSE g[k - 1] + b[k]]
    <3>1. \A n \in 0 .. L : n # 0 => n \in 1 .. L
      BY <1>0
    <3> HIDE DEF b
    <3>. QED BY <1>1, <3>1
  <2>3. h = f
    BY <2>2 DEF ArePartialSums
  <2>. QED BY <2>1, <2>3
<1> HIDE DEF b, L
<1>3. ArePartialSums(f, b, L)
  BY <1>0, <1>1, PartialSumsExist
<1> HIDE DEF f
<1>4. /\ f[0] = 0 /\ \A k \in 1 .. L : f[k] = f[k - 1] + b[k]
      /\ \A k \in 0 .. L : f[k] \in Nat
  BY <1>0, <1>1, <1>3, PartialSumsSteps
<1>5. Drift(1) = 0
  BY <1>0, <1>2, <1>4
<1>6. \A i \in 1 .. L : Drift(i + 1) = Drift(i) + Beyond(i - 1)
  <2>1. \A i \in 1 .. L : i \in 1 .. L + 1 /\ i + 1 \in 1 .. L + 1 /\ (i + 1) - 1 = i
    BY <1>0
  <2>. QED BY <1>1, <1>2, <1>4, <2>1
<1>7. \A i \in 1 .. L + 1 : Drift(i) \in Nat
  <2>1. \A i \in 1 .. L + 1 : i - 1 \in 0 .. L
    BY <1>0
  <2>. QED BY <1>2, <1>4, <2>1
<1>. QED BY <1>5, <1>6, <1>7 DEF L

-----------------------------------------------------------------------------
(* What the parts of an action do *)

\* Pieces are written behind those that are there.
LEMMA Written ==
    ASSUME written \in Seq(Pieces), NEW s \in Seq(Pieces), written' = written \o s
    PROVE  /\ written' \in Seq(Pieces) /\ Len(written') = Len(written) + Len(s)
           /\ Len(written) \in Nat /\ Len(s) \in Nat
           /\ \A i \in 1 .. Len(written) : written'[i] = written[i]
           /\ \A i \in 1 .. Len(s) : written'[Len(written) + i] = s[i]
<1>1. Len(written) \in Nat /\ Len(s) \in Nat
  BY LenProperties
<1>2. /\ written' \in Seq(Pieces) /\ Len(written') = Len(written) + Len(s)
      /\ \A i \in 1 .. Len(written) + Len(s) :
            written'[i] = IF i <= Len(written) THEN written[i] ELSE s[i - Len(written)]
  BY ConcatProperties
<1>3. ASSUME NEW i \in 1 .. Len(s) PROVE written'[Len(written) + i] = s[i]
  <2>1. /\ Len(written) + i \in 1 .. Len(written) + Len(s)
        /\ ~(Len(written) + i <= Len(written))
        /\ (Len(written) + i) - Len(written) = i
    BY <1>1
  <2>. QED BY <1>2, <2>1
<1>4. ASSUME NEW i \in 1 .. Len(written) PROVE written'[i] = written[i]
  <2>1. i \in 1 .. Len(written) + Len(s) /\ i <= Len(written)
    BY <1>1
  <2>. QED BY <1>2, <2>1
<1>. QED BY <1>1, <1>2, <1>3, <1>4

LEMMA WriteOne ==
    ASSUME written \in Seq(Pieces), entry \in Nat, NEW from \in Nat, NEW length \in Nat,
           WriteData(<<Piece(from, length)>>, length)
    PROVE  /\ written' \in Seq(Pieces) /\ Len(written') = Len(written) + 1
           /\ Len(written) \in Nat
           /\ \A i \in 1 .. Len(written) : written'[i] = written[i]
           /\ written'[Len(written) + 1] = [entry |-> entry, offset |-> from, length |-> length]
           /\ m_write_offset' = m_write_offset + length
<1> DEFINE p == [entry |-> entry, offset |-> from, length |-> length]
<1>1. written' = written \o <<p>> /\ m_write_offset' = m_write_offset + length
  BY DEF WriteData, Piece
<1>2. p \in Pieces
  BY DEF Pieces
<1> HIDE DEF p
<1>3. <<p>> \in Seq(Pieces) /\ Len(<<p>>) = 1 /\ <<p>>[1] = p
  BY <1>2
<1>4. 1 \in 1 .. 1
  OBVIOUS
<1>5. /\ written' \in Seq(Pieces) /\ Len(written') = Len(written) + Len(<<p>>)
      /\ Len(written) \in Nat
      /\ \A i \in 1 .. Len(written) : written'[i] = written[i]
      /\ \A i \in 1 .. Len(<<p>>) : written'[Len(written) + i] = <<p>>[i]
  BY <1>1, <1>3, Written
<1>. QED BY <1>1, <1>3, <1>4, <1>5 DEF p

LEMMA WriteBlock ==
    ASSUME JobInv, written \in Seq(Pieces), entry \in Nat, offset \in Nat, DownmixBlock
    PROVE  /\ written' \in Seq(Pieces) /\ Len(written') = Len(written) + Block
           /\ Len(written) \in Nat /\ Block \in Nat \ {0}
           /\ \A i \in 1 .. Len(written) : written'[i] = written[i]
           /\ \A i \in 1 .. Block :
                 /\ written'[Len(written) + i].entry = entry
                 /\ written'[Len(written) + i].offset = offset + (i - 1) * frame_size
                 /\ written'[Len(written) + i].length = sample_size
           /\ m_write_offset' = m_write_offset + Block * sample_size
<1> DEFINE p(i) == [entry |-> entry, offset |-> offset + (i - 1) * frame_size,
                    length |-> sample_size]
           s == [i \in 1 .. Block |-> p(i)]
<1>1. written' = written \o s /\ m_write_offset' = m_write_offset + Block * sample_size
  BY DEF DownmixBlock, WriteData, Piece
<1>2. Block \in Nat \ {0}
  BY LengthsNatural
<1>3. \A i \in 1 .. Block : p(i) \in Pieces
  <2>1. \A i \in 1 .. Block : offset + (i - 1) * frame_size \in Nat
    <3>1. \A i \in 1 .. Block : i - 1 \in Nat
      BY <1>2
    <3>2. \A a, b \in Nat : offset + a * b \in Nat
      OBVIOUS
    <3>. QED BY <3>1, <3>2, JobFacts
  <2>. QED BY <2>1, JobFacts DEF Pieces
<1>4. \A i \in 1 .. Block : /\ p(i).entry = entry /\ p(i).length = sample_size
                            /\ p(i).offset = offset + (i - 1) * frame_size
  OBVIOUS
<1> HIDE DEF p
<1>5. s \in [1 .. Block -> Pieces] /\ \A i \in 1 .. Block : s[i] = p(i)
  BY <1>3
<1> HIDE DEF s
<1>6. s \in Seq(Pieces) /\ Len(s) = Block
  BY <1>2, <1>5, LenProperties, SeqDef
<1>7. /\ written' \in Seq(Pieces) /\ Len(written') = Len(written) + Len(s)
      /\ Len(written) \in Nat
      /\ \A i \in 1 .. Len(written) : written'[i] = written[i]
      /\ \A i \in 1 .. Len(s) : written'[Len(written) + i] = s[i]
  BY <1>1, <1>6, Written
<1>8. \A i \in 1 .. Block : written'[Len(written) + i] = p(i)
  BY <1>5, <1>6, <1>7
<1>. QED BY <1>1, <1>2, <1>6, <1>7, <1>4, <1>8

\* The end of a buffer counts it.
LEMMA Counted ==
    ASSUME JobInv, entry \in 1 .. Len(queue), size = asked - Start(entry),
           entry' = entry + 1, size' = size - queue[entry], UNCHANGED <<queue, asked>>
    PROVE  /\ entry' \in 2 .. Len(queue) + 1 /\ entry' - 1 = entry
           /\ Start(entry) \in Nat /\ queue[entry] \in Nat \ {0}
           /\ Start(entry') = Start(entry) + queue[entry]
           /\ size' = asked - Start(entry') /\ size' \in Int
<1>1. /\ Start(entry) \in Nat /\ queue[entry] \in Nat \ {0} /\ asked \in Nat
      /\ Len(queue) \in Nat /\ entry \in 1 .. Len(queue) + 1
  <2>1. entry \in 1 .. Len(queue) + 1
    BY JobFacts
  <2>. QED BY <2>1, StartSteps, JobFacts
<1>2. Start(entry + 1) = Start(entry) + queue[entry]
  BY StartSteps
<1>. QED BY <1>1, <1>2

-----------------------------------------------------------------------------
(* The invariant is kept *)

LEMMA PlaceNext == JobInv /\ PlaceInv /\ [Next]_vars => PlaceInv'
<1> SUFFICES ASSUME JobInv, PlaceInv, [Next]_vars PROVE PlaceInv'
  OBVIOUS
<1> DEFINE L == Len(queue)
           N == Len(written)
<1>0. /\ L \in Nat \ {0} /\ DOMAIN queue = 1 .. L
      /\ \A i \in 1 .. L : queue[i] \in Nat \ {0}
      /\ frame_size \in Nat \ {0} /\ sample_size \in Nat \ {0} /\ asked \in Nat
  BY JobFacts
<1>1. /\ UNCHANGED <<in_props, out_props, queue, asked, memory, capacity>>
      /\ m_op' = m_op /\ Converts' = Converts /\ Len(queue') = L
      /\ \A i : Start(i)' = Start(i)
  BY JobKept DEF job
<1>2. /\ pc \in {"convert", "buffer", "copy", "done", "undefined"}
      /\ entry \in 1 .. L + 1 /\ (pc = "copy" => entry \in 1 .. L)
      /\ offset \in Nat /\ buffer_size \in Int /\ size \in Int /\ read_offset \in Nat
      /\ m_write_offset \in Nat
      /\ written \in Seq(Pieces) /\ N \in Nat
      /\ \A i \in 1 .. N : written[i].entry \in 1 .. L
      /\ (pc = "copy" => Converts)
      /\ (pc \in {"buffer", "undefined"} => m_op # "UNSUPPORTED_CONVERSION")
      /\ (m_op = "UNSUPPORTED_CONVERSION" => written = <<>> /\ m_write_offset = 0)
      /\ size = asked - Start(entry)
  BY <1>0, LenProperties DEF PlaceInv, TypeOK
<1>3. Converts => m_op # "UNSUPPORTED_CONVERSION" /\ m_op # "NO_CONVERSION"
  BY DEF Converts
<1>4. (Start(entry))' = Start(entry') /\ entry \in Nat
  BY <1>0, <1>1, <1>2 DEF Start
<1> HIDE DEF L, N
<1>5. CASE Convert
  <2>1. /\ UNCHANGED <<entry, offset, buffer_size, size, read_offset, written, m_write_offset>>
        /\ pc' = IF m_op = "UNSUPPORTED_CONVERSION" THEN "done" ELSE "buffer"
    BY <1>5 DEF Convert, sink
  <2>. QED BY <1>0, <1>1, <1>2, <1>4, <2>1 DEF PlaceInv, TypeOK, L
<1>6. CASE NextBuffer
  <2>1. /\ UNCHANGED <<entry, size, read_offset, written, m_write_offset>>
        /\ pc = "buffer" /\ pc' = "copy" /\ m_op # "NO_CONVERSION" /\ entry \in 1 .. L
        /\ offset' = read_offset /\ buffer_size' = queue[entry]
    BY <1>0, <1>6 DEF NextBuffer, sink
  <2>2. Converts /\ buffer_size' \in Int
    BY <1>0, <1>2, <2>1, Operations DEF Converts
  <2>. QED BY <1>0, <1>1, <1>2, <1>3, <1>4, <2>1, <2>2 DEF PlaceInv, TypeOK, L
<1>7. CASE NoMoreBuffers
  <2>1. /\ UNCHANGED <<entry, offset, buffer_size, size, read_offset, written, m_write_offset>>
        /\ pc' = "done"
    BY <1>7 DEF NoMoreBuffers, sink
  <2>. QED BY <1>0, <1>1, <1>2, <1>4, <2>1 DEF PlaceInv, TypeOK, L
<1>8. CASE Passthrough \/ DownsampleBufferDone \/ DownmixBufferDone
  <2>1. /\ entry \in 1 .. L /\ entry' = entry + 1 /\ size' = size - queue[entry]
        /\ m_op # "UNSUPPORTED_CONVERSION" /\ pc' \in {"done", "buffer"}
        /\ UNCHANGED <<offset, buffer_size>>
    BY <1>0, <1>2, <1>3, <1>8
       DEF Passthrough, DownsampleBufferDone, DownmixBufferDone, BufferDone
  <2>2. /\ entry' \in 1 .. L + 1 /\ size' \in Int /\ size' = asked - Start(entry')
        /\ queue[entry] \in Nat
    BY <1>0, <1>1, <1>2, <2>1, Counted DEF L
  <2>3. read_offset' \in Nat
    BY <1>2, <1>8 DEF Passthrough, DownsampleBufferDone, DownmixBufferDone
  <2>4. /\ written' \in Seq(Pieces) /\ m_write_offset' \in Nat
        /\ \A i \in 1 .. Len(written') : written'[i].entry \in 1 .. L
    <3>1. CASE Passthrough
      <4>1. /\ written' \in Seq(Pieces) /\ Len(written') = N + 1
            /\ \A i \in 1 .. N : written'[i] = written[i]
            /\ written'[N + 1].entry = entry
            /\ m_write_offset' = m_write_offset + queue[entry]
        <5>1. WriteData(<<Piece(0, queue[entry])>>, queue[entry])
          BY <3>1 DEF Passthrough
        <5>2. /\ written' \in Seq(Pieces) /\ Len(written') = Len(written) + 1
              /\ \A i \in 1 .. Len(written) : written'[i] = written[i]
              /\ written'[Len(written) + 1] = [entry |-> entry, offset |-> 0,
                                              length |-> queue[entry]]
              /\ m_write_offset' = m_write_offset + queue[entry]
          <6>1. 0 \in Nat
            OBVIOUS
          <6>. QED BY <1>2, <1>4, <2>2, <5>1, <6>1, WriteOne
        <5>. QED BY <5>2 DEF N
      <4>2. ASSUME NEW i \in 1 .. Len(written') PROVE written'[i].entry \in 1 .. L
        <5>1. CASE i = N + 1
          BY <2>1, <4>1, <5>1
        <5>2. CASE i # N + 1
          <6>1. i \in 1 .. N
            BY <1>2, <4>1, <5>2
          <6>. QED BY <1>2, <4>1, <6>1
        <5>. QED BY <5>1, <5>2
      <4>. QED BY <1>2, <2>2, <4>1, <4>2
    <3>2. CASE DownsampleBufferDone \/ DownmixBufferDone
      <4>1. UNCHANGED <<written, m_write_offset>>
        BY <3>2 DEF DownsampleBufferDone, DownmixBufferDone, sink
      <4>. QED BY <1>2, <4>1 DEF N
    <3>. QED BY <1>8, <3>1, <3>2
  <2>. QED BY <1>0, <1>1, <1>2, <1>4, <2>1, <2>2, <2>3, <2>4 DEF PlaceInv, TypeOK, L
<1>9. CASE DownsampleFrame \/ DownmixFrame \/ DownmixBlock
  <2>1. /\ pc = "copy" /\ Converts /\ pc' \in {"copy", "undefined"}
        /\ UNCHANGED <<entry, size, read_offset>>
    BY <1>2, <1>9 DEF DownsampleFrame, DownmixFrame, DownmixBlock
  <2>2. CASE DownsampleFrame
    <3>1. write_length \in Nat /\ leap_value \in Nat \ {0}
      <4>1. Downsamples
        BY <2>2 DEF DownsampleFrame
      <4>. QED BY <2>1, <4>1, Groups
    <3>2. /\ WriteData(<<Piece(offset, write_length)>>, write_length)
          /\ buffer_size' = buffer_size - leap_value /\ offset' = offset + leap_value
      BY <2>2 DEF DownsampleFrame
    <3>3. /\ written' \in Seq(Pieces) /\ Len(written') = N + 1
          /\ \A i \in 1 .. N : written'[i] = written[i]
          /\ written'[N + 1].entry = entry
          /\ m_write_offset' = m_write_offset + write_length
      <4>1. /\ written' \in Seq(Pieces) /\ Len(written') = Len(written) + 1
            /\ \A i \in 1 .. Len(written) : written'[i] = written[i]
            /\ written'[Len(written) + 1] = [entry |-> entry, offset |-> offset,
                                            length |-> write_length]
            /\ m_write_offset' = m_write_offset + write_length
        BY <1>2, <1>4, <3>1, <3>2, WriteOne
      <4>. QED BY <4>1 DEF N
    <3>4. /\ \A i \in 1 .. Len(written') : written'[i].entry \in 1 .. L
          /\ offset' \in Nat /\ buffer_size' \in Int /\ m_write_offset' \in Nat
      <4>1. \A i \in 1 .. Len(written') : written'[i].entry \in 1 .. L
        BY <1>2, <2>1, <3>3
      <4>. QED BY <1>2, <3>1, <3>2, <3>3, <4>1
    <3>. QED BY <1>0, <1>1, <1>2, <1>3, <1>4, <2>1, <3>3, <3>4 DEF PlaceInv, TypeOK, L
  <2>3. CASE DownmixFrame
    <3>1. /\ WriteData(<<Piece(offset, sample_size)>>, sample_size)
          /\ buffer_size' \in {buffer_size, buffer_size - frame_size}
          /\ offset' = offset + frame_size
      BY <2>3 DEF DownmixFrame
    <3>2. /\ written' \in Seq(Pieces) /\ Len(written') = N + 1
          /\ \A i \in 1 .. N : written'[i] = written[i]
          /\ written'[N + 1].entry = entry
          /\ m_write_offset' = m_write_offset + sample_size
      <4>1. /\ written' \in Seq(Pieces) /\ Len(written') = Len(written) + 1
            /\ \A i \in 1 .. Len(written) : written'[i] = written[i]
            /\ written'[Len(written) + 1] = [entry |-> entry, offset |-> offset,
                                            length |-> sample_size]
            /\ m_write_offset' = m_write_offset + sample_size
        BY <1>0, <1>2, <1>4, <3>1, WriteOne
      <4>. QED BY <4>1 DEF N
    <3>3. /\ \A i \in 1 .. Len(written') : written'[i].entry \in 1 .. L
          /\ offset' \in Nat /\ buffer_size' \in Int /\ m_write_offset' \in Nat
      <4>1. \A i \in 1 .. Len(written') : written'[i].entry \in 1 .. L
        BY <1>2, <2>1, <3>2
      <4>. QED BY <1>0, <1>2, <3>1, <3>2, <4>1
    <3>. QED BY <1>0, <1>1, <1>2, <1>3, <1>4, <2>1, <3>2, <3>3 DEF PlaceInv, TypeOK, L
  <2>4. CASE DownmixBlock
    <3>1. /\ written' \in Seq(Pieces) /\ Len(written') = N + Block
          /\ \A i \in 1 .. N : written'[i] = written[i]
          /\ \A i \in 1 .. Block : written'[N + i].entry = entry
          /\ m_write_offset' = m_write_offset + Block * sample_size
          /\ Block \in Nat \ {0}
      <4>1. /\ written' \in Seq(Pieces) /\ Len(written') = Len(written) + Block
            /\ Block \in Nat \ {0}
            /\ \A i \in 1 .. Len(written) : written'[i] = written[i]
            /\ \A i \in 1 .. Block :
                  written'[Len(written) + i].entry = entry
            /\ m_write_offset' = m_write_offset + Block * sample_size
        BY <1>2, <1>4, <2>4, WriteBlock
      <4>. QED BY <4>1 DEF N
    <3>2. /\ buffer_size' = buffer_size - Block * frame_size
          /\ offset' = offset + Block * frame_size
      BY <2>4 DEF DownmixBlock
    <3>3. Block * frame_size \in Nat /\ Block * sample_size \in Nat
      <4>1. \A a, b \in Nat : a * b \in Nat
        OBVIOUS
      <4>. QED BY <1>0, <3>1, <4>1
    <3>4. \A i \in 1 .. Len(written') : written'[i].entry \in 1 .. L
      <4> SUFFICES ASSUME NEW i \in 1 .. N + Block PROVE written'[i].entry \in 1 .. L
        BY <3>1
      <4>1. CASE i \in 1 .. N
        BY <1>2, <3>1, <4>1
      <4>2. CASE i \notin 1 .. N
        <5>1. i - N \in 1 .. Block /\ N + (i - N) = i
          BY <1>2, <3>1, <4>2
        <5>2. written'[i].entry = entry
          BY <3>1, <5>1
        <5>. QED BY <1>2, <2>1, <5>2
      <4>. QED BY <4>1, <4>2
    <3>5. offset' \in Nat /\ buffer_size' \in Int /\ m_write_offset' \in Nat
      <4>1. \A f, w \in Nat : /\ offset + f \in Nat /\ buffer_size - f \in Int
                              /\ m_write_offset + w \in Nat
        BY <1>2
      <4>. QED BY <3>1, <3>2, <3>3, <4>1
    <3>. QED BY <1>0, <1>1, <1>2, <1>3, <1>4, <2>1, <3>1, <3>4, <3>5 DEF PlaceInv, TypeOK, L
  <2>. QED BY <1>9, <2>2, <2>3, <2>4
<1>10. CASE UNCHANGED vars
  <2>1. UNCHANGED <<pc, entry, offset, buffer_size, size, read_offset, written, m_write_offset>>
    BY <1>10 DEF vars, sink
  <2>. QED BY <1>1, <1>2, <1>4, <2>1 DEF PlaceInv, TypeOK, L
<1>. QED BY <1>5, <1>6, <1>7, <1>8, <1>9, <1>10 DEF Next

LEMMA StopNext == JobInv /\ PlaceInv /\ StopInv /\ [Next]_vars => StopInv'
<1> SUFFICES ASSUME JobInv, PlaceInv, StopInv, [Next]_vars PROVE StopInv'
  OBVIOUS
<1> DEFINE L == Len(queue)
<1>0. /\ L \in Nat \ {0} /\ DOMAIN queue = 1 .. L
      /\ \A i \in 1 .. L : queue[i] \in Nat \ {0}
  BY JobFacts
<1>1. /\ UNCHANGED <<queue, asked>> /\ m_op' = m_op /\ FastPath' = FastPath
  BY JobKept DEF job
<1>2. /\ entry \in 1 .. L + 1 /\ size \in Int /\ size = asked - Start(entry)
      /\ (pc = "copy" => entry \in 1 .. L) /\ (pc = "copy" => Converts)
      /\ (pc = "convert" => entry = 1)
  BY DEF PlaceInv, TypeOK
<1>3. Converts => m_op # "NO_CONVERSION"
  BY DEF Converts
<1>4. pc \in {"buffer", "copy"} =>
         FastPath \/ entry = 1 \/ size > 0 \/ (m_op = "NO_CONVERSION" /\ size >= 0)
  BY DEF StopInv
<1>5. CASE Convert
  <2>1. /\ UNCHANGED <<entry, size>> /\ entry = 1
        /\ \/ pc' = "buffer"
           \/ pc' = "done" /\ m_op = "UNSUPPORTED_CONVERSION"
    BY <1>2, <1>5 DEF Convert
  <2>2. entry' = 1 /\ (pc' = "done" => m_op' = "UNSUPPORTED_CONVERSION")
    BY <1>1, <2>1
  <2>3. (FastPath \/ entry = 1 \/ size > 0 \/ (m_op = "NO_CONVERSION" /\ size >= 0))'
    BY <2>2, Zenon
  <2>. QED BY <2>2, <2>3 DEF StopInv
<1>6. CASE NextBuffer
  <2>1. UNCHANGED <<entry, size>> /\ pc = "buffer" /\ pc' = "copy"
    BY <1>6 DEF NextBuffer
  <2>. QED BY <1>1, <1>4, <2>1 DEF StopInv
<1>7. CASE NoMoreBuffers
  <2>1. UNCHANGED <<entry, size>> /\ pc = "buffer" /\ pc' = "done" /\ entry = L + 1
    BY <1>0, <1>2, <1>7 DEF NoMoreBuffers
  <2>2. entry - 1 \in 1 .. L /\ entry > 1 /\ queue[entry - 1] \in Nat \ {0}
    BY <1>0, <2>1
  <2>3. FastPath \/ size + queue[entry - 1] > 0
    BY <1>2, <1>4, <2>1, <2>2
  <2>. QED BY <1>1, <2>1, <2>2, <2>3 DEF StopInv
<1>8. CASE Passthrough \/ DownsampleBufferDone \/ DownmixBufferDone
  <2>1. /\ entry \in 1 .. L /\ entry' = entry + 1 /\ size' = size - queue[entry]
        /\ pc \in {"buffer", "copy"}
    BY <1>0, <1>2, <1>8 DEF Passthrough, DownsampleBufferDone, DownmixBufferDone, BufferDone
  <2>2. entry' > 1 /\ entry' - 1 = entry /\ queue[entry] \in Nat \ {0} /\ size' \in Int
    BY <1>0, <1>2, <2>1
  <2>3. \/ pc' = "buffer" /\ (FastPath \/ size' > 0 \/ (m_op = "NO_CONVERSION" /\ size' >= 0))
        \/ pc' = "done" /\ size' <= 0
    <3>1. CASE Passthrough
      <4>1. m_op = "NO_CONVERSION" /\ pc' = IF size' \in Negative THEN "done" ELSE "buffer"
        BY <3>1 DEF Passthrough, BufferDone
      <4>. QED BY <2>2, <4>1 DEF Negative
    <3>2. CASE DownsampleBufferDone
      <4>1. pc' = IF size' \in AtMostZero THEN "done" ELSE "buffer"
        BY <3>2 DEF DownsampleBufferDone, BufferDone
      <4>. QED BY <2>2, <4>1 DEF AtMostZero
    <3>3. CASE DownmixBufferDone
      <4>1. pc' = IF size' \in (IF FastPath THEN {} ELSE AtMostZero) THEN "done" ELSE "buffer"
        BY <3>3 DEF DownmixBufferDone, BufferDone
      <4>2. CASE FastPath
        <5>1. pc' = "buffer"
          BY <4>1, <4>2
        <5>. QED BY <4>2, <5>1, Zenon
      <4>3. CASE ~FastPath
        <5>1. pc' = IF size' \in AtMostZero THEN "done" ELSE "buffer"
          BY <4>1, <4>3
        <5>. QED BY <2>2, <5>1 DEF AtMostZero
      <4>. QED BY <4>2, <4>3
    <3>. QED BY <1>8, <3>1, <3>2, <3>3
  <2>4. \/ FastPath \/ entry' = 2 \/ size' + queue[entry] > 0
        \/ m_op = "NO_CONVERSION" /\ size' + queue[entry] = 0
    BY <1>2, <1>4, <2>1, <2>2
  <2>. QED BY <1>1, <2>2, <2>3, <2>4 DEF StopInv
<1>9. CASE DownsampleFrame \/ DownmixFrame \/ DownmixBlock
  <2>1. UNCHANGED <<entry, size>> /\ pc = "copy" /\ pc' \in {"copy", "undefined"}
    BY <1>9 DEF DownsampleFrame, DownmixFrame, DownmixBlock
  <2>. QED BY <1>1, <1>4, <2>1 DEF StopInv
<1>10. CASE UNCHANGED vars
  BY <1>1, <1>10 DEF vars, StopInv
<1>. QED BY <1>5, <1>6, <1>7, <1>8, <1>9, <1>10 DEF Next

LEMMA PassNext == JobInv /\ PlaceInv /\ PassInv /\ [Next]_vars => PassInv'
<1> SUFFICES ASSUME JobInv, PlaceInv, PassInv, [Next]_vars, m_op = "NO_CONVERSION"
             PROVE  PassInv'
  BY JobKept DEF PassInv
<1> DEFINE N == Len(written)
<1>1. /\ UNCHANGED <<queue, asked>> /\ m_op' = m_op
  BY JobKept DEF job
<1>2. /\ pc \in {"convert", "buffer", "done"} /\ m_write_offset = Start(entry)
      /\ \A i \in 1 .. N : written[i].offset = 0 /\ written[i].length = queue[written[i].entry]
  BY DEF PassInv
<1>3. (Start(entry))' = Start(entry')
  BY <1>1 DEF Start
<1>4. CASE Convert \/ NoMoreBuffers \/ UNCHANGED vars
  <2>1. /\ UNCHANGED <<entry, written, m_write_offset>>
        /\ pc' \in {"convert", "buffer", "done"}
    BY <1>2, <1>4 DEF Convert, NoMoreBuffers, sink, vars
  <2>. QED BY <1>1, <1>2, <1>3, <2>1 DEF PassInv
<1>5. CASE Passthrough
  <2>1. /\ entry \in DOMAIN queue /\ entry' = entry + 1 /\ pc' \in {"buffer", "done"}
        /\ size' = size - queue[entry]
        /\ WriteData(<<Piece(0, queue[entry])>>, queue[entry])
    BY <1>5 DEF Passthrough, BufferDone
  <2>2. entry \in 1 .. Len(queue) /\ entry \in Nat /\ queue[entry] \in Nat
    BY <2>1, JobFacts
  <2>3. /\ written' \in Seq(Pieces) /\ Len(written') = Len(written) + 1
        /\ \A i \in 1 .. Len(written) : written'[i] = written[i]
        /\ written'[Len(written) + 1] = [entry |-> entry, offset |-> 0, length |-> queue[entry]]
        /\ m_write_offset' = m_write_offset + queue[entry]
    BY <2>1, <2>2, WriteOne DEF PlaceInv
  <2>4. Start(entry') = Start(entry) + queue[entry]
    BY <1>1, <2>1, <2>2, Counted DEF PlaceInv
  <2>5. N \in Nat
    BY LenProperties DEF PlaceInv
  <2>6. ASSUME NEW i \in 1 .. N + 1
        PROVE  written'[i].offset = 0 /\ written'[i].length = queue[written'[i].entry]
    <3>1. CASE i = N + 1
      BY <2>3, <3>1
    <3>2. CASE i # N + 1
      BY <1>2, <2>3, <2>5, <3>2
    <3>. QED BY <3>1, <3>2
  <2>. QED BY <1>1, <1>2, <1>3, <2>1, <2>3, <2>4, <2>6 DEF PassInv
<1>6. pc # "copy" /\ ~NextBuffer
  BY <1>2 DEF NextBuffer
<1>. QED BY <1>4, <1>5, <1>6 DEF Next, DownsampleFrame, DownsampleBufferDone, DownmixBlock,
                               DownmixFrame, DownmixBufferDone

\* What the last conjunct says of the next state.
LEMMA PieceNext ==
    ASSUME [Next]_vars
    PROVE  /\ (Start(entry))' = Start(entry') /\ (Drift(entry))' = Drift(entry')
           /\ (Beyond(entry - 1))' = Beyond(entry' - 1)
           /\ \A i : PieceOK(i)' <=>
                 /\ written'[i].length = PieceLength
                 /\ written'[i].offset + written'[i].length
                      <= RoundUp(queue[written'[i].entry], frame_size)
                           + Beyond(written'[i].entry - 1)
                 /\ Start(written'[i].entry) + written'[i].offset
                      = (i - 1) * Step - Drift(written'[i].entry)
<1>1. /\ UNCHANGED queue /\ PieceLength' = PieceLength /\ Step' = Step
      /\ frame_size' = frame_size
  BY JobKept DEF job
<1>2. \A i : Beyond(i)' = Beyond(i)
  BY JobKept
<1>3. (Start(entry))' = Start(entry')
  BY <1>1 DEF Start
<1>4. (Beyond(entry - 1))' = Beyond(entry' - 1)
  BY <1>1 DEF Beyond
<1>5. (Drift(entry))' = Drift(entry')
  BY <1>1, <1>2 DEF Drift
<1>6. \A i : (Start(written[i].entry))' = Start(written'[i].entry)
  BY <1>1 DEF Start
<1>7. \A i : (Beyond(written[i].entry - 1))' = Beyond(written'[i].entry - 1)
  BY <1>1 DEF Beyond
<1>8. \A i : (Drift(written[i].entry))' = Drift(written'[i].entry)
  BY <1>1, <1>2 DEF Drift
<1>. QED BY <1>1, <1>3, <1>4, <1>5, <1>6, <1>7, <1>8 DEF PieceOK

LEMMA FollowNext == JobInv /\ PlaceInv /\ FollowInv /\ [Next]_vars => FollowInv'
<1> SUFFICES ASSUME JobInv, PlaceInv, FollowInv, [Next]_vars, Converts
             PROVE  FollowInv'
  BY JobKept DEF FollowInv
<1> DEFINE L == Len(queue)
           N == Len(written)
           S == Step
           P == PieceLength
           F == frame_size
           B(e) == Beyond(e - 1)
           Good(i) == /\ written'[i].length = P
                      /\ written'[i].offset + written'[i].length
                           <= RoundUp(queue[written'[i].entry], F) + B(written'[i].entry)
                      /\ Start(written'[i].entry) + written'[i].offset
                           = (i - 1) * S - Drift(written'[i].entry)
           Group(e, o, b) == /\ Len(written') * S = (Start(e) + Drift(e)) + o
                             /\ o + b = queue[e] + B(e)
                             /\ \E k \in Nat : o = B(e) + k * S
                             /\ b > -S
                             /\ m_op = "DOWNMIX" => b >= 0
           Place == /\ pc' = "undefined" =>
                         m_op = "DOWNMIX" /\ entry' \in 1 .. L /\ queue[entry'] % F # 0
                    /\ read_offset' = B(entry')
                    /\ m_op = "DOWNMIX" => read_offset' = 0
                    /\ Aligned => Drift(entry') = 0
                    /\ pc' = "copy" => Group(entry', offset', buffer_size')
                    /\ pc' \notin {"copy", "undefined"} =>
                         Len(written') * S = (Start(entry') + Drift(entry')) + B(entry')
<1>0. /\ L \in Nat \ {0} /\ DOMAIN queue = 1 .. L
      /\ \A i \in 1 .. L : queue[i] \in Nat \ {0}
      /\ S \in Nat \ {0} /\ P \in Nat \ {0} /\ F \in Nat \ {0} /\ P <= F
  BY JobFacts, Groups
<1>1. /\ UNCHANGED <<queue, asked>> /\ m_op' = m_op /\ Step' = S /\ PieceLength' = P
      /\ frame_size' = F /\ Aligned' = Aligned
  BY JobKept DEF job
<1>2. /\ entry \in 1 .. L + 1 /\ (pc = "copy" => entry \in 1 .. L) /\ entry \in Nat
      /\ offset \in Nat /\ buffer_size \in Int
      /\ written \in Seq(Pieces) /\ N \in Nat /\ m_write_offset \in Nat
      /\ size = asked - Start(entry) /\ Start(entry) \in Nat /\ Drift(entry) \in Nat
      /\ B(entry) \in Nat
  <2>1. entry \in 1 .. L + 1 /\ written \in Seq(Pieces)
    BY DEF PlaceInv, TypeOK
  <2>2. Start(entry) \in Nat /\ Drift(entry) \in Nat
    BY <2>1, StartSteps, DriftSteps
  <2>3. entry - 1 \in 0 .. L
    BY <1>0, <2>1
  <2>4. B(entry) \in Nat
    BY <2>3, BeyondLess
  <2>. QED BY <1>0, <2>1, <2>2, <2>4, LenProperties DEF PlaceInv, TypeOK
<1>3. /\ pc = "undefined" =>
           m_op = "DOWNMIX" /\ entry \in 1 .. L /\ queue[entry] % F # 0
      /\ read_offset = B(entry)
      /\ m_op = "DOWNMIX" => read_offset = 0
      /\ Aligned => Drift(entry) = 0
      /\ pc = "copy" => /\ N * S = (Start(entry) + Drift(entry)) + offset
                        /\ offset + buffer_size = queue[entry] + B(entry)
                        /\ \E k \in Nat : offset = B(entry) + k * S
                        /\ buffer_size > -S
                        /\ m_op = "DOWNMIX" => buffer_size >= 0
      /\ pc \notin {"copy", "undefined"} => N * S = (Start(entry) + Drift(entry)) + B(entry)
      /\ m_write_offset = N * P
      /\ \A i \in 1 .. N : PieceOK(i)
  BY DEF FollowInv, GroupInv
<1>4. /\ (Start(entry))' = Start(entry') /\ (Drift(entry))' = Drift(entry')
      /\ (Beyond(entry - 1))' = B(entry')
  BY PieceNext
<1>5. m_op \notin {"NO_CONVERSION", "UNSUPPORTED_CONVERSION"}
  BY DEF Converts
\* What is to be shown.
<1>6. ASSUME Place, m_write_offset' = Len(written') * P, \A i \in 1 .. Len(written') : Good(i)
      PROVE  FollowInv'
  <2>1. \A i \in 1 .. Len(written') : PieceOK(i)'
    BY <1>6, PieceNext
  <2>2. pc' = "copy" => GroupInv'
    BY <1>1, <1>4, <1>6 DEF GroupInv
  <2>. QED BY <1>1, <1>4, <1>6, <2>1, <2>2 DEF FollowInv
<1>7. ASSUME NEW i \in 1 .. N, written'[i] = written[i] PROVE Good(i)
  BY <1>3, <1>7 DEF PieceOK
<1> HIDE DEF L, S, P, F, Good, Place
\* The same pieces, at the same place.
<1>8. ASSUME written' = written, m_write_offset' = m_write_offset, Place
      PROVE  FollowInv'
  <2>1. \A i \in 1 .. N : Good(i)
    BY <1>7, <1>8
  <2>. QED BY <1>3, <1>6, <1>8, <2>1
<1>9. CASE Convert \/ NoMoreBuffers
  <2>1. /\ written' = written /\ m_write_offset' = m_write_offset /\ entry' = entry
        /\ read_offset' = read_offset /\ pc \notin {"copy", "undefined"}
        /\ pc' \in {"done", "buffer"}
    BY <1>9 DEF Convert, NoMoreBuffers, sink
  <2>2. Place
    BY <1>3, <2>1 DEF Place
  <2>. QED BY <1>8, <2>1, <2>2
<1>10. CASE NextBuffer
  <2>1. /\ written' = written /\ m_write_offset' = m_write_offset /\ entry' = entry
        /\ read_offset' = read_offset /\ pc = "buffer" /\ pc' = "copy" /\ entry \in 1 .. L
        /\ offset' = read_offset /\ buffer_size' = queue[entry]
    BY <1>0, <1>10 DEF NextBuffer, sink
  <2>2. queue[entry] \in Nat /\ 0 \in Nat /\ B(entry) = B(entry) + 0 * S /\ queue[entry] > -S
    BY <1>0, <1>2, <2>1
  <2>3. B(entry) + queue[entry] = queue[entry] + B(entry)
    BY <1>2, <2>2
  <2>4. Group(entry, B(entry), queue[entry])
    BY <1>3, <2>1, <2>2, <2>3
  <2>5. Group(entry', offset', buffer_size')
    BY <1>3, <2>1, <2>4
  <2>6. Place
    BY <1>3, <2>1, <2>5 DEF Place
  <2>. QED BY <1>8, <2>1, <2>6
<1>11. CASE DownsampleBufferDone \/ DownmixBufferDone
  <2>1. /\ written' = written /\ m_write_offset' = m_write_offset
        /\ pc = "copy" /\ pc' \in {"done", "buffer"} /\ entry \in 1 .. L
        /\ entry' = entry + 1 /\ size' = size - queue[entry] /\ buffer_size <= 0
    BY <1>2, <1>11 DEF DownsampleBufferDone, DownmixBufferDone, BufferDone, sink
  <2>2. PICK k \in Nat : offset = B(entry) + k * S
    BY <1>3, <2>1
  <2>3. /\ queue[entry] \in Nat /\ k * S \in Nat /\ k * S = queue[entry] - buffer_size
        /\ queue[entry] <= k * S /\ k * S < queue[entry] + S
    <3>1. queue[entry] \in Nat /\ k * S \in Nat /\ S \in Nat
      BY <1>0, <2>1
    <3>2. /\ offset + buffer_size = queue[entry] + B(entry) /\ offset = B(entry) + k * S
          /\ buffer_size > -S /\ buffer_size <= 0
      BY <1>3, <2>1, <2>2
    <3>3. B(entry) \in Nat /\ offset \in Nat /\ buffer_size \in Int
      BY <1>2
    <3> HIDE DEF B
    <3>4. k * S = queue[entry] - buffer_size
      BY <3>1, <3>2, <3>3
    <3>. QED BY <3>1, <3>2, <3>3, <3>4
  <2>4. RoundUp(queue[entry], S) = k * S
    BY <1>0, <2>3, RoundsUpTo
  <2>5. entry' - 1 = entry /\ entry \in 0 .. L /\ entry # 0
    BY <1>2, <2>1
  <2>6. RoundUp(queue[entry], S) = queue[entry] + Beyond(entry) /\ Beyond(entry) \in Nat
    BY <2>5, BeyondLess DEF L, S
  <2>7. B(entry') = -buffer_size
    BY <1>2, <2>3, <2>4, <2>5, <2>6
  <2>8. Start(entry') = Start(entry) + queue[entry]
    BY <1>1, <1>2, <2>1, Counted DEF L
  <2>9. Drift(entry') = Drift(entry) + B(entry)
    BY <2>1, DriftSteps DEF L
  <2>10. N * S = (Start(entry') + Drift(entry')) + B(entry')
    <3>1. N * S = (Start(entry) + Drift(entry)) + offset
      BY <1>3, <2>1
    <3>2. offset + buffer_size = queue[entry] + B(entry)
      BY <1>3, <2>1
    <3>3. /\ B(entry) \in Nat /\ offset \in Nat /\ buffer_size \in Int
          /\ Start(entry) \in Nat /\ Drift(entry) \in Nat /\ queue[entry] \in Nat
      BY <1>2, <2>3
    <3> HIDE DEF B
    <3>4. (Start(entry) + Drift(entry)) + offset
            = ((Start(entry) + queue[entry]) + (Drift(entry) + B(entry))) + (-buffer_size)
      BY <3>2, <3>3
    <3>. QED BY <2>7, <2>8, <2>9, <3>1, <3>4
  <2>11. read_offset' = B(entry') /\ (m_op = "DOWNMIX" => read_offset' = 0)
    <3>1. CASE DownsampleBufferDone
      <4>1. read_offset' = -buffer_size /\ m_op # "DOWNMIX"
        BY <3>1 DEF DownsampleBufferDone, Downsamples
      <4>. QED BY <2>7, <4>1
    <3>2. CASE DownmixBufferDone
      <4>1. read_offset' = read_offset /\ m_op = "DOWNMIX" /\ buffer_size = 0
        BY <3>2 DEF DownmixBufferDone
      <4>2. read_offset' = 0 /\ B(entry') = 0
        BY <1>3, <2>7, <4>1
      <4>. QED BY <4>2
    <3>. QED BY <1>11, <3>1, <3>2
  <2>12. Aligned => Drift(entry') = 0
    <3>1. entry - 1 \in 0 .. L
      BY <1>0, <2>1
    <3>2. Aligned => B(entry) = 0
      BY <3>1, BeyondLess DEF L
    <3>. QED BY <1>3, <2>9, <3>2
  <2>13. Place
    BY <2>1, <2>10, <2>11, <2>12 DEF Place
  <2>. QED BY <1>8, <2>1, <2>13
\* One piece more.
<1>12. ASSUME pc = "copy", WriteData(<<Piece(offset, P)>>, P), buffer_size > 0
       PROVE  /\ Len(written') = N + 1 /\ m_write_offset' = Len(written') * P
              /\ \A i \in 1 .. Len(written') : Good(i)
  <2>1. /\ Len(written') = N + 1 /\ \A i \in 1 .. N : written'[i] = written[i]
        /\ written'[N + 1].entry = entry /\ written'[N + 1].offset = offset
        /\ written'[N + 1].length = P
        /\ m_write_offset' = m_write_offset + P
    <3>1. /\ Len(written') = Len(written) + 1
          /\ \A i \in 1 .. Len(written) : written'[i] = written[i]
          /\ written'[Len(written) + 1] = [entry |-> entry, offset |-> offset, length |-> P]
          /\ m_write_offset' = m_write_offset + P
      BY <1>0, <1>2, <1>12, WriteOne
    <3>. QED BY <3>1
  <2>2. entry \in 1 .. L /\ queue[entry] \in Nat
    BY <1>0, <1>2, <1>12
  <2>3. PICK k \in Nat : offset = B(entry) + k * S
    BY <1>3, <1>12
  <2>4. PICK r \in {1, 2, 3} : S = r * F
    BY Groups DEF S, F
  <2>5. k * r \in Nat /\ k * S = (k * r) * F /\ k * S \in Nat
    BY <1>0, <2>4
  <2>6. k * S < queue[entry]
    <3>1. /\ offset + buffer_size = queue[entry] + B(entry) /\ offset = B(entry) + k * S
          /\ buffer_size > 0
      BY <1>3, <1>12, <2>3
    <3>2. B(entry) \in Nat /\ offset \in Nat /\ buffer_size \in Int
      BY <1>2
    <3> HIDE DEF B
    <3>. QED BY <2>2, <2>5, <3>1, <3>2
  <2>7. k * S + F <= RoundUp(queue[entry], F)
    BY <1>0, <2>2, <2>5, <2>6, UnitFits
  <2>8. RoundUp(queue[entry], F) \in Nat
    BY <1>0, <2>2, RoundsUp
  <2>9. offset + P <= RoundUp(queue[entry], F) + B(entry)
    <3>1. B(entry) \in Nat /\ offset \in Nat /\ P \in Nat /\ F \in Nat /\ P <= F
      BY <1>0, <1>2
    <3> HIDE DEF B
    <3>2. offset + P = (k * S + P) + B(entry)
      BY <2>3, <2>5, <3>1
    <3>3. k * S + P <= RoundUp(queue[entry], F)
      BY <2>5, <2>7, <2>8, <3>1
    <3>. QED BY <2>5, <2>8, <3>1, <3>2, <3>3
  <2>10. Start(entry) + offset = ((N + 1) - 1) * S - Drift(entry)
    <3>1. (N + 1) - 1 = N /\ N * S \in Nat
      BY <1>0, <1>2
    <3>2. N * S = (Start(entry) + Drift(entry)) + offset
      BY <1>3, <1>12
    <3>3. Start(entry) + offset = N * S - Drift(entry)
      BY <1>2, <3>1, <3>2
    <3>. QED BY <3>1, <3>3
  <2>11. Good(N + 1)
    BY <2>1, <2>9, <2>10 DEF Good
  <2>12. \A i \in 1 .. N + 1 : Good(i)
    <3> SUFFICES ASSUME NEW i \in 1 .. N + 1 PROVE Good(i)
      OBVIOUS
    <3>1. CASE i = N + 1
      BY <2>11, <3>1
    <3>2. CASE i # N + 1
      <4>1. i \in 1 .. N
        BY <1>2, <3>2
      <4>. QED BY <1>7, <2>1, <4>1
    <3>. QED BY <3>1, <3>2
  <2>13. (N + 1) * P = N * P + P
    BY <1>0, <1>2
  <2>. QED BY <1>3, <2>1, <2>12, <2>13
\* It was read where the group begins, and the next one is a leap behind.
<1>13. ASSUME pc = "copy", pc' = "copy", entry' = entry, read_offset' = read_offset,
              WriteData(<<Piece(offset, P)>>, P), offset' = offset + S,
              buffer_size > 0, buffer_size' = buffer_size - S,
              m_op = "DOWNMIX" => buffer_size >= S
       PROVE  FollowInv'
  <2>1. /\ Len(written') = N + 1 /\ m_write_offset' = Len(written') * P
        /\ \A i \in 1 .. Len(written') : Good(i)
    BY <1>12, <1>13
  <2>2. entry \in 1 .. L /\ queue[entry] \in Nat
    BY <1>0, <1>2, <1>13
  <2>3. PICK k \in Nat : offset = B(entry) + k * S
    BY <1>3, <1>13
  <2>4. k + 1 \in Nat /\ k * S \in Nat /\ (k + 1) * S = k * S + S
    BY <1>0
  <2> HIDE DEF B
  <2>5. offset' = B(entry) + (k + 1) * S
    BY <1>0, <1>2, <1>13, <2>3, <2>4
  <2>6. offset' + buffer_size' = queue[entry] + B(entry)
    BY <1>0, <1>2, <1>3, <1>13, <2>2
  <2>7. buffer_size' > -S /\ (m_op = "DOWNMIX" => buffer_size' >= 0)
    BY <1>0, <1>2, <1>13
  <2>8. Len(written') * S = (Start(entry) + Drift(entry)) + offset'
    <3>1. (N + 1) * S = N * S + S
      BY <1>0, <1>2
    <3>2. N * S = (Start(entry) + Drift(entry)) + offset
      BY <1>3, <1>13
    <3>3. N * S + S = (Start(entry) + Drift(entry)) + (offset + S)
      <4>1. \A a, d, o, s \in Int : ((a + d) + o) + s = (a + d) + (o + s)
        OBVIOUS
      <4>2. /\ Start(entry) \in Int /\ Drift(entry) \in Int /\ offset \in Int
            /\ S \in Int
        BY <1>0, <1>2
      <4>. QED BY <3>2, <4>1, <4>2
    <3>. QED BY <1>13, <2>1, <3>1, <3>3
  <2>9. \E j \in Nat : offset' = B(entry) + j * S
    BY <2>4, <2>5
  <2>10. Group(entry', offset', buffer_size')
    BY <1>13, <2>6, <2>7, <2>8, <2>9
  <2>11. Place
    BY <1>3, <1>13, <2>10 DEF Place
  <2>. QED BY <1>6, <2>1, <2>11
<1>14. CASE DownsampleFrame
  <2>1. S = leap_value /\ P = write_length /\ m_op # "DOWNMIX"
    BY <1>14, Groups DEF DownsampleFrame, Downsamples, S, P
  <2>. QED BY <1>13, <1>14, <2>1 DEF DownsampleFrame
<1>15. CASE DownmixFrame
  <2>1. S = 4 /\ P = 2 /\ F = 4 /\ frame_size = 4 /\ sample_size = 2
    BY <1>15, Groups DEF DownmixFrame, S, P, F
  <2>2. /\ pc = "copy" /\ buffer_size > 0 /\ entry' = entry /\ read_offset' = read_offset
        /\ WriteData(<<Piece(offset, P)>>, P) /\ offset' = offset + S
        /\ m_op = "DOWNMIX"
    BY <1>15, <2>1 DEF DownmixFrame
  <2>3. CASE buffer_size >= 4
    <3>1. pc' = "copy" /\ buffer_size' = buffer_size - S
      BY <1>15, <2>1, <2>2, <2>3 DEF DownmixFrame
    <3>. QED BY <1>13, <2>1, <2>2, <2>3, <3>1
  <2>4. CASE ~(buffer_size >= 4)
    <3>1. pc' = "undefined"
      BY <1>15, <2>1, <2>4 DEF DownmixFrame
    <3>2. entry \in 1 .. L /\ queue[entry] \in Nat
      BY <1>0, <1>2, <2>2
    <3>3. PICK k \in Nat : offset = B(entry) + k * 4
      BY <1>3, <2>1, <2>2
    <3>4. queue[entry] = k * 4 + buffer_size
      <4> HIDE DEF B
      <4>. QED BY <1>2, <1>3, <2>2, <3>2, <3>3
    <3>5. queue[entry] % 4 # 0
      BY <1>2, <2>2, <2>4, <3>4
    <3>6. Place
      BY <1>3, <2>1, <2>2, <3>1, <3>2, <3>5 DEF Place
    <3>7. /\ m_write_offset' = Len(written') * P
          /\ \A i \in 1 .. Len(written') : Good(i)
      BY <1>12, <2>2
    <3>. QED BY <1>6, <3>6, <3>7
  <2>. QED BY <2>3, <2>4
<1>16. CASE DownmixBlock
  <2>1. /\ S = 4 /\ P = 2 /\ F = 4 /\ frame_size = 4 /\ sample_size = 2
        /\ m_op = "DOWNMIX"
    BY <1>16, Groups DEF DownmixBlock, FastPath, S, P, F
  <2>2. /\ pc = "copy" /\ pc' = "copy" /\ entry' = entry /\ read_offset' = read_offset
        /\ buffer_size >= Block * 4 /\ offset' = offset + Block * 4
        /\ buffer_size' = buffer_size - Block * 4
    BY <1>16, <2>1 DEF DownmixBlock
  <2>3. /\ Len(written') = Len(written) + Block
        /\ Block \in Nat \ {0}
        /\ \A i \in 1 .. Len(written) : written'[i] = written[i]
        /\ \A i \in 1 .. Block :
              /\ written'[Len(written) + i].entry = entry
              /\ written'[Len(written) + i].offset = offset + (i - 1) * 4
              /\ written'[Len(written) + i].length = 2
        /\ m_write_offset' = m_write_offset + Block * 2
    BY <1>2, <1>16, <2>1, WriteBlock
  <2>4. B(entry) = 0
    BY <1>3, <2>1
  <2>5. PICK k \in Nat : offset = k * 4
    <3>1. \E k \in Nat : offset = B(entry) + k * 4
      BY <1>3, <2>1, <2>2
    <3>. QED BY <2>4, <3>1
  <2>6. k + Block \in Nat /\ offset' = (k + Block) * 4
    BY <2>2, <2>3, <2>5
  <2>7. /\ queue[entry] \in Nat /\ entry \in 1 .. L
        /\ N * 4 = (Start(entry) + Drift(entry)) + offset
        /\ offset + buffer_size = queue[entry]
        /\ m_write_offset = N * 2
    <3>1. queue[entry] \in Nat /\ entry \in 1 .. L
      BY <1>0, <1>2, <2>2
    <3>2. offset + buffer_size = queue[entry] + 0
      BY <1>3, <2>2, <2>4
    <3>. QED BY <1>3, <2>1, <2>2, <3>1, <3>2
  <2>8. Len(written') = N + Block /\ Block \in Nat
    BY <2>3
  <2>9. m_write_offset' = Len(written') * 2
    BY <1>2, <2>3, <2>7, <2>8
  <2>10. offset' + buffer_size' = queue[entry] /\ buffer_size' >= 0
    BY <1>2, <2>2, <2>7, <2>8
  <2>11. Len(written') * 4 = (Start(entry) + Drift(entry)) + offset'
    <3>1. (N + Block) * 4 = N * 4 + Block * 4
      BY <1>2, <2>8
    <3>2. (N + Block) * 4 = (Start(entry) + Drift(entry)) + (offset + Block * 4)
      <4>1. \A a, d, o, s \in Int : ((a + d) + o) + s = (a + d) + (o + s)
        OBVIOUS
      <4>2. /\ Start(entry) \in Int /\ Drift(entry) \in Int /\ offset \in Int
            /\ Block * 4 \in Int
        BY <1>2, <2>8
      <4>. QED BY <2>7, <3>1, <4>1, <4>2
    <3>. QED BY <2>2, <2>8, <3>2
  <2>12. Group(entry', offset', buffer_size')
    <3>1. \E j \in Nat : offset' = B(entry) + j * S
      <4>1. offset' = 0 + (k + Block) * 4
        BY <2>6
      <4>. QED BY <2>1, <2>4, <2>6, <4>1
    <3>2. offset' + buffer_size' = queue[entry] + B(entry)
      BY <2>4, <2>7, <2>10
    <3>3. buffer_size' > -S
      <4>1. buffer_size' \in Int
        BY <1>2, <2>2, <2>8
      <4>. QED BY <2>1, <2>10, <4>1
    <3>. QED BY <2>1, <2>2, <2>10, <2>11, <3>1, <3>2, <3>3
  <2>13. ASSUME NEW i \in 1 .. Len(written') PROVE Good(i)
    <3>1. CASE i \in 1 .. N
      BY <1>7, <2>3, <3>1
    <3>2. CASE i \notin 1 .. N
      <4>1. PICK j \in 1 .. Block : N + j = i
        <5>1. i - N \in 1 .. Block /\ N + (i - N) = i
          BY <1>2, <2>8, <3>2
        <5>. QED BY <5>1
      <4>2. /\ written'[i].entry = entry /\ written'[i].length = 2
            /\ written'[i].offset = offset + (j - 1) * 4
        BY <2>3, <4>1
      <4>3. offset + (j - 1) * 4 + 2 <= queue[entry]
        <5>1. j \in Nat /\ j <= Block /\ offset \in Nat
          BY <1>2, <2>8, <4>1
        <5>. QED BY <1>2, <2>2, <2>7, <2>8, <5>1
      <4>4. RoundUp(queue[entry], F) \in Nat /\ queue[entry] <= RoundUp(queue[entry], F)
        BY <1>0, <2>7, RoundsUp
      <4>5. written'[i].offset + written'[i].length
              <= RoundUp(queue[written'[i].entry], F) + B(written'[i].entry)
        <5>1. j \in Nat /\ offset \in Nat
          BY <1>2, <2>8, <4>1
        <5>2. offset + (j - 1) * 4 + 2 <= RoundUp(queue[entry], F) + 0
          BY <2>7, <4>3, <4>4, <5>1
        <5>. QED BY <2>4, <4>2, <5>2
      <4>6. Start(entry) + (offset + (j - 1) * 4) = (i - 1) * 4 - Drift(entry)
        <5>1. j \in Nat /\ i = N + j
          BY <2>8, <4>1
        <5>2. (i - 1) * 4 = N * 4 + (j - 1) * 4
          BY <1>2, <5>1
        <5>3. \A a, d, o, x, y \in Int : y = (a + d) + o => a + (o + x) = (y + x) - d
          OBVIOUS
        <5>4. /\ Start(entry) \in Int /\ Drift(entry) \in Int /\ offset \in Int
              /\ (j - 1) * 4 \in Int /\ N * 4 \in Int
          BY <1>2, <5>1
        <5>. QED BY <2>7, <5>2, <5>3, <5>4
      <4>. QED BY <2>1, <4>2, <4>5, <4>6 DEF Good
    <3>. QED BY <3>1, <3>2
  <2>14. Place
    BY <1>3, <2>2, <2>12 DEF Place
  <2>. QED BY <1>6, <2>1, <2>9, <2>13, <2>14
<1>17. CASE UNCHANGED vars
  <2>1. /\ written' = written /\ m_write_offset' = m_write_offset /\ entry' = entry
        /\ read_offset' = read_offset /\ pc' = pc /\ offset' = offset
        /\ buffer_size' = buffer_size
    BY <1>17 DEF vars, sink
  <2>2. Place
    BY <1>3, <2>1 DEF Place
  <2>. QED BY <1>8, <2>1, <2>2
<1>18. ~Passthrough
  BY <1>5 DEF Passthrough
<1>. QED BY <1>9, <1>10, <1>11, <1>14, <1>15, <1>16, <1>17, <1>18 DEF Next

LEMMA ConvertInit == Init => ConvertInv
<1> SUFFICES ASSUME Init PROVE ConvertInv
  OBVIOUS
<1>1. JobInv
  <2>1. /\ in_props \in AudioProperties /\ out_props \in AudioProperties
        /\ queue \in Seq(Nat \ {0}) /\ queue # <<>> /\ memory \in BOOLEAN
    BY PropertiesKnown, BuffersNotEmpty DEF Init
  <2>2. \E seconds \in Nat : /\ asked = seconds * DataRate(in_props)
                             /\ capacity = (seconds + 1) * DataRate(out_props)
    BY LengthsNatural DEF Init
  <2>. QED BY <2>1, <2>2 DEF JobInv
<1>2. /\ pc = "convert" /\ entry = 1 /\ offset = 0 /\ buffer_size = 0 /\ size = asked
      /\ read_offset = 0 /\ written = <<>> /\ m_write_offset = 0
  BY DEF Init
<1>3. /\ Start(entry) = 0 /\ asked \in Nat /\ Len(queue) \in Nat
      /\ written \in Seq(Pieces) /\ Len(written) = 0
  BY <1>1, <1>2, StartSteps, JobFacts, EmptySeq
<1>4. PlaceInv
  BY <1>2, <1>3 DEF PlaceInv, TypeOK
<1>5. StopInv /\ PassInv
  BY <1>2, <1>3 DEF StopInv, PassInv
<1>6. FollowInv
  <2> SUFFICES ASSUME Converts PROVE FollowInv
    BY DEF FollowInv
  <2>1. Step \in Nat /\ PieceLength \in Nat
    BY <1>1, Groups
  <2>2. Len(written) * Step = 0 /\ Len(written) * PieceLength = 0
    BY <1>3, <2>1
  <2>3. entry - 1 = 0 /\ 0 \in 0 .. Len(queue)
    BY <1>2, <1>3
  <2>4. Beyond(entry - 1) = 0 /\ Drift(entry) = 0
    BY <1>1, <1>2, <2>3, BeyondLess, DriftSteps
  <2>. QED BY <1>2, <1>3, <2>2, <2>4 DEF FollowInv
<1>. QED BY <1>1, <1>4, <1>5, <1>6 DEF ConvertInv

\* The whole invariant of a conversion, whatever the sizes of the buffers: where ptr
\* is in the buffer and in the stream, how far the last leap of the buffer before went
\* beyond it, how much is left, and that so many pieces were written.
THEOREM ConvertKept == Spec => []ConvertInv
<1>1. ConvertInv /\ [Next]_vars => ConvertInv'
  BY JobKept, PlaceNext, StopNext, PassNext, FollowNext DEF ConvertInv
<1>. QED BY <1>1, ConvertInit, PTL DEF Spec

-----------------------------------------------------------------------------
(* What follows *)

\* convert never runs past the list of buffers, and never reads further behind a
\* buffer than the frame it ends in and what the leap of the buffer before went beyond
\* it: through the leaps, the unrolled loop and the unsigned differences, for buffers
\* of any size and a block of any number of frames; an unsigned difference wraps only
\* when a buffer ends within a frame.
THEOREM ReadsStayInBuffer == Spec => []ReadsInBuffer
<1>1. ConvertInv => ReadsInBuffer
  <2> SUFFICES ASSUME ConvertInv PROVE ReadsInBuffer
    OBVIOUS
  <2> USE DEF ConvertInv
  <2> DEFINE grain == IF m_op = "NO_CONVERSION" THEN 1 ELSE frame_size
  <2>1. TypeOK
    BY DEF PlaceInv
  <2>2. DOMAIN written = 1 .. Len(written)
    BY LenProperties DEF PlaceInv
  <2>3. /\ pc = "undefined" => m_op = "DOWNMIX" /\ queue[entry] % frame_size # 0
        /\ \A i \in 1 .. Len(written) :
              written[i].offset + written[i].length
                <= RoundUp(queue[written[i].entry], grain) + Beyond(written[i].entry - 1)
    <3>1. CASE Converts
      <4>1. grain = frame_size
        BY <3>1 DEF Converts
      <4>. QED BY <3>1, <4>1 DEF FollowInv, PieceOK
    <3>2. CASE m_op = "NO_CONVERSION"
      <4> SUFFICES ASSUME NEW i \in 1 .. Len(written)
                   PROVE  written[i].offset + written[i].length
                            <= RoundUp(queue[written[i].entry], 1) + Beyond(written[i].entry - 1)
        BY <3>2 DEF PassInv
      <4>1. written[i].offset = 0 /\ written[i].length = queue[written[i].entry]
        BY <3>2 DEF PassInv
      <4>2. PICK e \in 1 .. Len(queue) : e = written[i].entry
        BY DEF PlaceInv
      <4>3. queue[e] \in Nat /\ Len(queue) \in Nat /\ DOMAIN queue = 1 .. Len(queue)
        BY JobFacts
      <4>4. RoundUp(queue[e], 1) \in Nat /\ queue[e] <= RoundUp(queue[e], 1)
        <5>1. 1 \in Nat \ {0}
          OBVIOUS
        <5>. QED BY <4>3, <5>1, RoundsUp
      <4>5. Step = 1
        BY <3>2 DEF Step, Downsamples
      <4>6. Beyond(e - 1) \in Nat
        <5>1. CASE e - 1 \in DOMAIN queue
          <6>1. queue[e - 1] \in Nat
            BY <4>3, <5>1, JobFacts
          <6>2. 1 \in Nat \ {0}
            OBVIOUS
          <6>3. /\ RoundUp(queue[e - 1], 1) \in Nat
                /\ queue[e - 1] <= RoundUp(queue[e - 1], 1)
            BY <6>1, <6>2, RoundsUp
          <6>4. RoundUp(queue[e - 1], 1) - queue[e - 1] \in Nat
            BY <6>1, <6>3
          <6>. QED BY <4>5, <5>1, <6>4 DEF Beyond
        <5>2. CASE e - 1 \notin DOMAIN queue
          BY <5>2 DEF Beyond
        <5>. QED BY <5>1, <5>2
      <4>. QED BY <4>1, <4>2, <4>3, <4>4, <4>6
    <3>3. CASE m_op = "UNSUPPORTED_CONVERSION"
      <4>1. Len(written) = 0 /\ pc # "undefined"
        BY <3>3, EmptySeq DEF PlaceInv
      <4>. QED BY <4>1
    <3>. QED BY <3>1, <3>2, <3>3, Operations DEF Converts
  <2>. QED BY <2>1, <2>2, <2>3 DEF ReadsInBuffer
<1>. QED BY <1>1, ConvertKept, PTL

\* What the output is of the input, whatever the buffers it came in: its i-th piece is
\* the beginning of the i-th group of the whole input, less what the leaps went beyond
\* the buffers before the last one, of which the code loses count.
THEOREM OutputIsTheStream == Spec => []OutputFollowsStream
<1>1. ConvertInv => OutputFollowsStream
  <2> SUFFICES ASSUME ConvertInv, m_op # "NO_CONVERSION", NEW i \in DOMAIN written
               PROVE  /\ Start(written[i].entry) + written[i].offset
                           = (i - 1) * Step - Drift(written[i].entry)
                      /\ written[i].length = IF Downsamples THEN write_length ELSE sample_size
    BY DEF OutputFollowsStream
  <2>1. i \in 1 .. Len(written)
    BY LenProperties DEF ConvertInv, PlaceInv
  <2>2. CASE Converts
    BY <2>1, <2>2 DEF ConvertInv, FollowInv, PieceOK, PieceLength
  <2>3. CASE m_op = "UNSUPPORTED_CONVERSION"
    <3>1. Len(written) = 0
      BY <2>3, EmptySeq DEF ConvertInv, PlaceInv
    <3>. QED BY <2>1, <3>1
  <2>. QED BY <2>2, <2>3, Operations DEF Converts
<1>. QED BY <1>1, ConvertKept, PTL

\* A conversion ends when it has taken what was asked for, or all there was, and
\* with the buffer that made it enough.
THEOREM TakesItsFill == Spec => []TakesWhatWasAsked
<1>1. ConvertInv => TakesWhatWasAsked
  <2> SUFFICES ASSUME ConvertInv, pc = "done", m_op # "UNSUPPORTED_CONVERSION"
               PROVE  /\ Start(entry) >= asked \/ entry = Len(queue) + 1
                      /\ \/ FastPath
                         \/ Start(entry - 1) < asked \/ entry = 2
                         \/ m_op = "NO_CONVERSION" /\ Start(entry - 1) = asked
    BY DEF TakesWhatWasAsked
  <2> USE DEF ConvertInv
  <2>1. entry \in 1 .. Len(queue) + 1 /\ size = asked - Start(entry) /\ size \in Int
    BY DEF PlaceInv, TypeOK
  <2>2. /\ entry > 1
        /\ size <= 0 \/ entry = Len(queue) + 1
        /\ \/ FastPath \/ entry = 2 \/ size + queue[entry - 1] > 0
           \/ m_op = "NO_CONVERSION" /\ size + queue[entry - 1] = 0
    BY DEF StopInv
  <2>3. /\ entry - 1 \in 1 .. Len(queue) /\ (entry - 1) + 1 = entry
        /\ entry - 1 \in 1 .. Len(queue) + 1
    BY <2>1, <2>2, JobFacts
  <2>4. /\ Start(entry) = Start(entry - 1) + queue[entry - 1]
        /\ Start(entry) \in Nat /\ Start(entry - 1) \in Nat
        /\ queue[entry - 1] \in Nat /\ asked \in Nat
    BY <2>1, <2>3, StartSteps, JobFacts
  <2>5. size <= 0 => Start(entry) >= asked
    BY <2>1, <2>4
  <2>6. size + queue[entry - 1] = asked - Start(entry - 1)
    BY <2>1, <2>4
  <2>7. /\ size + queue[entry - 1] > 0 => Start(entry - 1) < asked
        /\ size + queue[entry - 1] = 0 => Start(entry - 1) = asked
    BY <2>4, <2>6
  <2>. QED BY <2>2, <2>5, <2>7
<1>. QED BY <1>1, ConvertKept, PTL

\* How far the input may have been read.
LEMMA ReadSoFar ==
    ASSUME ConvertInv, m_op # "UNSUPPORTED_CONVERSION", pc # "undefined", NEW second \in Nat,
           \A i \in DOMAIN queue : queue[i] <= second,
           FastPath => Total <= asked + second
    PROVE  /\ Start(entry) <= asked + second
           /\ pc = "copy" => Start(entry) + queue[entry] <= asked + second
<1> USE DEF ConvertInv
<1>1. /\ entry \in 1 .. Len(queue) + 1 /\ size = asked - Start(entry) /\ size \in Int
      /\ (pc = "copy" => entry \in 1 .. Len(queue))
      /\ pc \in {"convert", "buffer", "copy", "done", "undefined"}
      /\ (pc = "convert" => entry = 1)
  BY JobFacts DEF PlaceInv, TypeOK
<1>2. Start(entry) \in Nat /\ Start(entry) <= Total /\ asked \in Nat
  BY <1>1, StartSteps, JobFacts
<1>3. ASSUME NEW i \in 1 .. Len(queue)
      PROVE  /\ queue[i] \in Nat /\ queue[i] <= second
             /\ Start(i + 1) = Start(i) + queue[i] /\ Start(i + 1) <= Total
             /\ Start(i) \in Nat /\ Start(i + 1) \in Nat
  <2>1. i \in 1 .. Len(queue) + 1 /\ i + 1 \in 1 .. Len(queue) + 1 /\ i \in DOMAIN queue
    BY JobFacts
  <2>. QED BY <2>1, StartSteps, JobFacts
<1>4. CASE FastPath
  <2>1. Total \in Nat /\ Total <= asked + second
    <3>1. Len(queue) + 1 \in 1 .. Len(queue) + 1
      BY JobFacts
    <3>. QED BY <1>4, <3>1, StartSteps DEF Total
  <2>2. Start(entry) <= asked + second
    BY <1>2, <2>1
  <2>3. pc = "copy" => Start(entry) + queue[entry] <= asked + second
    <3> SUFFICES ASSUME pc = "copy" PROVE Start(entry) + queue[entry] <= asked + second
      OBVIOUS
    <3>1. Start(entry) + queue[entry] \in Nat /\ Start(entry) + queue[entry] <= Total
      BY <1>1, <1>2, <1>3
    <3>. QED BY <1>2, <2>1, <3>1
  <2>. QED BY <2>2, <2>3
<1>5. CASE ~FastPath /\ pc \in {"convert", "buffer", "copy"}
  <2>1. Start(entry) <= asked
    <3>1. CASE entry = 1
      BY <1>2, <3>1, StartSteps
    <3>2. CASE entry # 1
      <4>1. size >= 0
        BY <1>1, <1>5, <3>2 DEF StopInv
      <4>. QED BY <1>1, <1>2, <4>1
    <3>. QED BY <3>1, <3>2
  <2>. QED BY <1>1, <1>2, <1>3, <2>1
<1>6. CASE ~FastPath /\ pc = "done"
  <2>1. entry - 1 \in 1 .. Len(queue) /\ (entry - 1) + 1 = entry
    BY <1>1, <1>6, JobFacts DEF StopInv
  <2>2. /\ Start(entry) = Start(entry - 1) + queue[entry - 1]
        /\ queue[entry - 1] \in Nat /\ queue[entry - 1] <= second /\ Start(entry - 1) \in Nat
    BY <1>3, <2>1
  <2>3. Start(entry - 1) <= asked
    <3>1. CASE entry = 2
      BY <1>2, <3>1, StartSteps
    <3>2. CASE entry # 2
      <4>1. size + queue[entry - 1] >= 0
        BY <1>1, <1>6, <2>2, <3>2 DEF StopInv
      <4>. QED BY <1>1, <1>2, <2>2, <4>1
    <3>. QED BY <3>1, <3>2
  <2>. QED BY <1>1, <1>2, <1>6, <2>2, <2>3
<1>. QED BY <1>1, <1>4, <1>5, <1>6

\* The sink that music_id.cpp creates, a second longer than the clip, is never
\* full, when no buffer holds more than a second and, on the fast path, the queue
\* holds no more than a second too much: for every pair of formats and rates that
\* convert knows, and clips of any length.
THEOREM SinkIsLargeEnough == Spec => []ClipFits
<1>1. ConvertInv => ClipFits
  <2> SUFFICES ASSUME ConvertInv, Aligned,
                      \A i \in DOMAIN queue : queue[i] <= DataRate(in_props),
                      FastPath => Total <= asked + DataRate(in_props)
               PROVE  m_write_offset <= capacity
    BY DEF ClipFits
  <2> USE DEF ConvertInv
  <2> DEFINE in == DataRate(in_props)
             out == DataRate(out_props)
  <2>1. in \in Nat /\ out \in Nat
    <3>1. \A r \in 2 .. 6, f \in {2, 4, 6, 18} : r * f \in Nat
      OBVIOUS
    <3>. QED BY <3>1, OfFormats DEF JobInv
  <2>2. PICK seconds \in Nat : asked = seconds * in /\ capacity = (seconds + 1) * out
    BY DEF JobInv
  <2>3. asked + in = (seconds + 1) * in
    BY <2>1, <2>2
  <2>4. (seconds + 1) * out \in Nat
    BY <2>1
  <2>5. CASE m_op = "UNSUPPORTED_CONVERSION"
    BY <2>2, <2>4, <2>5 DEF PlaceInv
  <2>6. CASE m_op = "NO_CONVERSION"
    <3>1. pc # "undefined" /\ m_write_offset = Start(entry)
      BY <2>6 DEF PassInv
    <3>2. Start(entry) <= asked + in
      BY <2>1, <2>6, <3>1, ReadSoFar
    <3>3. in = out
      BY <2>6, RatesSame
    <3>. QED BY <2>2, <2>3, <3>1, <3>2, <3>3
  <2>7. CASE Converts
    <3> DEFINE N == Len(written)
               S == Step
               P == PieceLength
               M == N * P
               C == (seconds + 1) * out
    <3>0. pc # "undefined" /\ m_op # "UNSUPPORTED_CONVERSION"
      <4>1. ASSUME pc = "undefined" PROVE FALSE
        <5>1. m_op = "DOWNMIX" /\ entry \in 1 .. Len(queue) /\ queue[entry] % frame_size # 0
          BY <2>7, <4>1 DEF FollowInv
        <5>2. Step = frame_size /\ entry \in DOMAIN queue
          BY <2>7, <5>1, Groups, JobFacts
        <5>. QED BY <5>1, <5>2 DEF Aligned
      <4>. QED BY <2>7, <4>1 DEF Converts
    <3>1. N \in Nat /\ S \in Nat \ {0} /\ P \in Nat /\ Len(queue) \in Nat
      BY <2>7, LenProperties, Groups, JobFacts DEF PlaceInv
    <3>2. N * S <= asked + in
      <4>0. /\ entry \in 1 .. Len(queue) + 1 /\ entry - 1 \in 0 .. Len(queue)
            /\ Start(entry) \in Nat /\ asked \in Nat /\ offset \in Nat /\ buffer_size \in Int
        <5>1. entry \in 1 .. Len(queue) + 1 /\ offset \in Nat /\ buffer_size \in Int
          BY DEF PlaceInv, TypeOK
        <5>2. entry - 1 \in 0 .. Len(queue)
          BY <3>1, <5>1
        <5>. QED BY <5>1, <5>2, StartSteps, JobFacts
      <4>1. Drift(entry) = 0 /\ Beyond(entry - 1) = 0
        BY <2>7, <4>0, BeyondLess DEF FollowInv
      <4>2. CASE pc = "copy"
        <5>1. /\ N * S = (Start(entry) + 0) + offset /\ offset + buffer_size = queue[entry] + 0
              /\ buffer_size > -S
          BY <2>7, <4>1, <4>2 DEF FollowInv, GroupInv
        <5>2. PICK k \in Nat : offset = 0 + k * S
          BY <2>7, <4>1, <4>2 DEF FollowInv, GroupInv
        <5>3. entry \in 1 .. Len(queue) /\ queue[entry] \in Nat /\ queue[entry] % S = 0
          <6>1. entry \in 1 .. Len(queue)
            BY <4>2, JobFacts DEF PlaceInv, TypeOK
          <6>. QED BY <6>1, JobFacts DEF Aligned
        <5>4. PICK j \in Nat : queue[entry] = j * S
          BY <3>1, <5>3, Multiple
        <5>5. offset <= queue[entry]
          <6> HIDE DEF S
          <6>1. ASSUME j < k PROVE FALSE
            <7>1. PICK c \in Nat : k = (j + 1) + c
              <8>1. k - (j + 1) \in Nat /\ k = (j + 1) + (k - (j + 1))
                BY <6>1
              <8>. QED BY <8>1
            <7>2. c * S \in Nat /\ j * S \in Nat /\ k * S = (j * S + S) + c * S
              BY <3>1, <7>1
            <7>. QED BY <3>1, <4>0, <5>1, <5>2, <5>4, <7>2
          <6>2. PICK c \in Nat : j = k + c
            <7>1. j - k \in Nat /\ j = k + (j - k)
              BY <6>1
            <7>. QED BY <7>1
          <6>3. c * S \in Nat /\ k * S \in Nat /\ j * S = k * S + c * S
            BY <3>1, <6>2
          <6>. QED BY <5>2, <5>4, <6>3
        <5>6. Start(entry) + queue[entry] <= asked + in
          BY <2>1, <3>0, <4>2, ReadSoFar
        <5> HIDE DEF in, S, N
        <5>. QED BY <2>1, <4>0, <5>1, <5>3, <5>5, <5>6
      <4>3. CASE pc # "copy"
        <5>1. N * S = (Start(entry) + 0) + 0
          BY <2>7, <3>0, <4>1, <4>3 DEF FollowInv
        <5>2. Start(entry) <= asked + in
          BY <2>1, <3>0, ReadSoFar
        <5> HIDE DEF in, S, N
        <5>. QED BY <4>0, <5>1, <5>2
      <4>. QED BY <4>2, <4>3
    <3>3. PICK g \in {2, 3, 4, 6} : S = g * P /\ in = g * out
      BY <2>7, Groups
    <3>4. M \in Nat /\ C \in Nat
      BY <2>4, <3>1
    <3>5. m_write_offset = M /\ capacity = C
      BY <2>2, <2>7 DEF FollowInv
    <3> HIDE DEF in, out, S, P, N
    <3>6. N * S = g * M
      BY <3>1, <3>3
    <3>7. (seconds + 1) * in = g * C
      BY <2>1, <3>3
    <3> HIDE DEF M, C
    <3>8. g * M <= g * C
      BY <2>3, <3>2, <3>6, <3>7
    <3>9. M <= C
      BY <3>4, <3>8
    <3>. QED BY <3>5, <3>9
  <2>. QED BY <2>5, <2>6, <2>7, Operations DEF Converts
<1>. QED BY <1>1, ConvertKept, PTL
=============================================================================
