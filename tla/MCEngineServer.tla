---------------------------- MODULE MCEngineServer ----------------------------
(***************************************************************************)
(* Small instances of EngineServer for TLC.                                *)
(***************************************************************************)
EXTENDS EngineServer, TLC

CONSTANTS w1, w2, r1, r2, r3, s1, s2, v1

Synthesis(style, body, n) ==
  [route |-> "synthesis", version |-> NoVersion, style |-> style,
   body |-> body, pages |-> n]
AudioQuery(version, style, body) ==
  [route |-> "audio_query", version |-> version, style |-> style,
   body |-> body, pages |-> 1]
Sing(style, body) ==
  [route |-> "sing", version |-> NoVersion, style |-> style,
   body |-> body, pages |-> 1]

MCWorkers == {w1, w2}
MCStyles == {s1, s2}
MCVersions == {v1}

\* s1 has a model, s2 is a style id no core knows.
MCLoadable == [v \in MCVersions |-> {s1}]

\* Waves of different length that meet in the temporary file.
WaveInputs == {Synthesis(s1, "good", 1), Synthesis(s1, "good", 2)}

\* Every route, with each way a handler can end.
RouteInputs ==
  {Synthesis(s1, "good", 1), Synthesis(s2, "good", 1), Synthesis(s1, "empty", 1),
   Synthesis(NoStyle, "good", 1),
   AudioQuery(NoVersion, s1, "good"), AudioQuery(v1, s2, "good"),
   AudioQuery("unknown", s1, "good"), AudioQuery(NoVersion, NoStyle, "good"),
   AudioQuery(NoVersion, s1, "empty"), AudioQuery(NoVersion, s1, "malformed"),
   Sing(s1, "good"), Sing(s2, "rests"), Sing(s1, "rests"), Sing(s2, "empty")}

\* A session of one client, in any order: a wave, a longer wave, a query, a song.
SerialInputs ==
  WaveInputs \cup {Synthesis(s2, "good", 1), AudioQuery(NoVersion, s1, "good"),
                  AudioQuery(NoVersion, s2, "good"), Sing(s1, "rests"), Sing(s2, "rests")}

Symmetric == Permutations(MCWorkers) \cup Permutations(Requests)
===============================================================================
