-------------------------- MODULE MCAudioConverter --------------------------
(* Instances of AudioConverter for TLC. *)
EXTENDS AudioConverter, SequencesExt

\* Mono is what music_id_client converts to, stereo what it most often gets.
MCOutput == [format : {"16BitMono", "16BitStereo"}, sampling_frequency : Frequencies]
MCMusicOutput == [format : {"16BitMono"}, sampling_frequency : {"48000"}]
MCSlowOutput == [format : {"16BitStereo"}, sampling_frequency : {"16000"}]
MCMusicInput == [format : {"16BitStereo"}, sampling_frequency : {"48000"}]

MCQueues(sizes, n) == BoundedSeq(sizes, n) \ {<<>>}
\* In 16-bit stereo: a frame, one and a half, three (of which one is kept when
\* 48 kHz become 16 kHz), and a second of 48 kHz.
MCSomeQueues == MCQueues({4, 6, 12, 24}, 3) \cup MCQueues({4, 12}, 5)
MCFrameQueues == MCQueues({4, 8, 12}, 3)
MCFullQueues == MCQueues({12, 24}, 4)
=============================================================================
