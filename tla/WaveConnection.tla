---------------------------- MODULE WaveConnection ----------------------------
(***************************************************************************)
(* connect_base64_waves.cc: waves are decoded, brought to one rate and one  *)
(* number of channels, and written one behind the other, sample by sample,  *)
(* with one write position.                                                 *)
(***************************************************************************)
EXTENDS Integers, Sequences, SequencesExt, FiniteSetsExt

CONSTANTS
  Requests,  \* lists of waves: rate and the samples of each channel, or Broken
  Samples    \* what a sample of a wave may be
Broken == [rate |-> 0, channels |-> <<>>]

\* A file is loaded only if it has a channel (decodeWaveFile), and all its
\* channels are filled in one loop.
ASSUME WaveAssumption ==
  \A r \in Requests :
    /\ r \in Seq([rate : Nat, channels : Seq(Seq(Samples))])
    /\ \A k \in DOMAIN r : r[k] # Broken =>
         /\ r[k].channels # <<>>
         /\ \A c \in DOMAIN r[k].channels : Len(r[k].channels[c]) = Len(r[k].channels[1])

VARIABLES
  waves,          \* waves_sr, converted as the loop comes to them
  data,           \* the channels of the result
  current,        \* current_index
  wave, channel, sample,     \* the loops
  pc,             \* "decode", "convert", "copy", "done", "error"; "overrun": undefined from here on
  request         \* history, which no guard reads: the waves as they came

waveVars == <<waves, data, current, wave, channel, sample, pc, request>>

Silence == <<"silence">>
NumChannels(w) == Len(w.channels)
NumSamples(w) == IF w.channels = <<>> THEN 0 ELSE Len(w.channels[1])

WaveInit ==
  /\ request \in Requests
  /\ waves = <<>> /\ data = <<>>
  /\ current = 1 /\ wave = 1 /\ channel = 1 /\ sample = 1
  /\ pc = "decode"

\* decode_base64_waves: the first wave that cannot be decoded or loaded ends it.
DecodeFails ==
  /\ pc = "decode" /\ Broken \in ToSet(request)
  /\ pc' = "error"
  /\ UNCHANGED <<waves, data, current, wave, channel, sample, request>>

MaxRate == Max({w.rate : w \in ToSet(request)} \cup {1})
MaxChannels == Max({NumChannels(w) : w \in ToSet(request)} \cup {1})
SumSample ==
  LET sum[n \in 0..Len(request)] ==
        IF n = 0 THEN 0 ELSE sum[n - 1] + NumSamples(request[n])
  IN sum[Len(request)]

\* Mutant: the last wave is not counted.
DecodeShort ==
  /\ pc = "decode" /\ Broken \notin ToSet(request)
  /\ waves' = request
  /\ data' = [c \in 1..MaxChannels |-> [k \in 1..(SumSample - NumSamples(Last(request))) |-> Silence]]
  /\ pc' = "convert"
  /\ UNCHANGED <<current, wave, channel, sample, request>>

DecodeWaves ==
  /\ pc = "decode" /\ Broken \notin ToSet(request)
  /\ waves' = request
  /\ data' = [c \in 1..MaxChannels |-> [k \in 1..SumSample |-> Silence]]
  /\ pc' = "convert"
  /\ UNCHANGED <<current, wave, channel, sample, request>>

\* setSampleRate sets the rate and leaves the samples; a channel that
\* setNumChannels adds is silent.
Convert ==
  /\ pc = "convert" /\ wave <= Len(waves)
  /\ LET w == waves[wave]
         added == [c \in (NumChannels(w) + 1)..MaxChannels |->
                     [k \in 1..NumSamples(w) |-> Silence]]
     IN waves' = [waves EXCEPT ![wave] =
          [rate |-> MaxRate,
           channels |-> [c \in 1..MaxChannels |->
                           IF c <= NumChannels(w) THEN w.channels[c] ELSE added[c]]]]
  /\ channel' = 1 /\ sample' = 1 /\ pc' = "copy"
  /\ UNCHANGED <<data, current, wave, request>>

\* Mutant: the position is set anew for each wave.
CopyFromStart ==
  /\ pc = "copy" /\ channel <= NumChannels(waves[wave]) /\ sample <= NumSamples(waves[wave])
  /\ IF sample > Len(data[channel]) THEN pc' = "overrun" /\ UNCHANGED data
     ELSE data' = [data EXCEPT ![channel][sample] = waves[wave].channels[channel][sample]] /\ UNCHANGED pc
  /\ current' = current + 1 /\ sample' = sample + 1
  /\ UNCHANGED <<waves, wave, channel, request>>

\* A write behind the end of the vector is undefined.
Copy ==
  /\ pc = "copy" /\ channel <= NumChannels(waves[wave]) /\ sample <= NumSamples(waves[wave])
  /\ IF current > Len(data[channel]) THEN pc' = "overrun" /\ UNCHANGED data
     ELSE data' = [data EXCEPT ![channel][current] = waves[wave].channels[channel][sample]] /\ UNCHANGED pc
  /\ current' = current + 1 /\ sample' = sample + 1
  /\ UNCHANGED <<waves, wave, channel, request>>

NextChannel ==
  /\ pc = "copy" /\ channel <= NumChannels(waves[wave]) /\ sample > NumSamples(waves[wave])
  /\ channel' = channel + 1 /\ sample' = 1
  /\ UNCHANGED <<waves, data, current, wave, pc, request>>

NextWave ==
  /\ pc = "copy" /\ channel > NumChannels(waves[wave])
  /\ wave' = wave + 1 /\ pc' = "convert"
  /\ UNCHANGED <<waves, data, current, channel, sample, request>>

Finish ==
  /\ pc = "convert" /\ wave > Len(waves)
  /\ pc' = "done"
  /\ UNCHANGED <<waves, data, current, wave, channel, sample, request>>

WaveNext == DecodeFails \/ DecodeWaves \/ Convert \/ Copy \/ NextChannel \/ NextWave \/ Finish

WaveSpec == WaveInit /\ [][WaveNext]_waveVars
-----------------------------------------------------------------------------
Mono == \A w \in ToSet(request) : NumChannels(w) <= 1

\* Mono waves are joined: each sample once, in the order of the waves, and
\* nothing between them.  (One position for all waves, one length for all.)
MonoJoined ==
  pc = "done" /\ Mono =>
    data = <<FlattenSeq([k \in 1..Len(request) |-> request[k].channels[1]])>>

\* Mono waves never reach the end of the result.
\* (current_index against sum_sample.)
MonoFits == Mono => pc # "overrun"

\* Mono waves are joined, none of their samples is lost, and none is written
\* behind the result.  (connect_base64_waves; see MonoJoined and MonoFits.)
MonoConnected == MonoJoined /\ MonoFits
================================================================================
