---------------------------- MODULE MCEngineStartup ----------------------------
(***************************************************************************)
(* Small instances of EngineStartup for TLC.                               *)
(***************************************************************************)
EXTENDS EngineStartup

\* Character codes: "." is 46, "0" is 48.
V000 == <<48, 46, 48, 46, 48>>
V9   == <<57>>
V10  == <<49, 48>>
V50  == <<53, 46, 48>>
V014 == <<48, 46, 49, 52>>
V015 == <<48, 46, 49, 53>>

\* Dotted and undotted versions the comparator puts in a circle, and two that
\* were released.
MixedVersions == {V000, V9, V10, V50, V014}
ReleasedVersions == {V000, V014, V015}

\* The order of release.
ReleaseOrder ==
  [v \in MixedVersions \cup ReleasedVersions |->
     CASE v = V000 -> 0 [] v = V014 -> 14 [] v = V015 -> 15
       [] v = V50 -> 50 [] v = V9 -> 90 [] v = V10 -> 100]

MixedAge == [v \in MixedVersions |-> ReleaseOrder[v]]
ReleasedAge == [v \in ReleasedVersions |-> ReleaseOrder[v]]

TwoVoicelibs == <<"voicelib1", "voicelib2">>
==============================================================================
