----------------------------- MODULE Conversion -----------------------------
(***************************************************************************)
(* Audio formats, and what turns one into another: the parameters behind   *)
(* the enumerations (audio_capture_manager.cpp) and the operation that     *)
(* audio_converter.cpp selects from them.  Rates are in units of 8 kHz, in *)
(* which a second of 48 kHz is 6 frames; 44.1 kHz is 5 of them, which like *)
(* the true rate is between 4 and 6 and no multiple or divisor of a rate.  *)
(***************************************************************************)
EXTENDS Integers

Formats == {"16BitStereo", "24BitStereo", "16BitMonoLeft", "16BitMonoRight", "16BitMono",
            "24Bit5_1"}
Frequencies == {"16000", "24000", "32000", "44100", "48000"}
AudioProperties == [format : Formats, sampling_frequency : Frequencies]

SamplingRate(p) ==
    CASE p.sampling_frequency = "16000" -> 2
      [] p.sampling_frequency = "24000" -> 3
      [] p.sampling_frequency = "32000" -> 4
      [] p.sampling_frequency = "44100" -> 5
      [] p.sampling_frequency = "48000" -> 6

BitsPerSample(p) == IF p.format \in {"24BitStereo", "24Bit5_1"} THEN 24 ELSE 16

NumChannels(p) ==
    CASE p.format \in {"16BitStereo", "24BitStereo"} -> 2
      [] p.format = "24Bit5_1"                       -> 6
      [] OTHER                                       -> 1

SampleSize(p) == BitsPerSample(p) \div 8
FrameSize(p)  == NumChannels(p) * SampleSize(p)

\* Bytes in a second.
DataRate(p) == (BitsPerSample(p) * SamplingRate(p) * NumChannels(p)) \div 8

-----------------------------------------------------------------------------
(* process_conversion_params *)

Downmixes(in, out) == out.format = "16BitMono" /\ in.format = "16BitStereo"

FormatOk(in, out) ==
    \/ Downmixes(in, out)
    \/ out.format = in.format
    \/ out.format = "16BitMono" /\ in.format \in {"16BitMonoLeft", "16BitMonoRight"}

\* Downsampling drops frames: it cannot make new ones, nor keep a fraction.
SampleRateOk(in, out) ==
    /\ SamplingRate(out) <= SamplingRate(in)
    /\ SamplingRate(in) % SamplingRate(out) = 0

Operation(in, out) ==
    LET downsample == SamplingRate(out) < SamplingRate(in)
    IN  IF ~FormatOk(in, out) \/ ~SampleRateOk(in, out)
          THEN "UNSUPPORTED_CONVERSION"
          ELSE CASE Downmixes(in, out) /\ downsample   -> "DOWNMIX_AND_DOWNSAMPLE"
                 [] Downmixes(in, out) /\ ~downsample  -> "DOWNMIX"
                 [] ~Downmixes(in, out) /\ downsample  -> "DOWNSAMPLE"
                 [] ~Downmixes(in, out) /\ ~downsample -> "NO_CONVERSION"
=============================================================================
