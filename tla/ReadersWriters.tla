---------------------------- MODULE ReadersWriters ----------------------------
(***************************************************************************)
(* What read_write_mutex promises: any number of readers at a time, or one  *)
(* writer and nobody else.                                                  *)
(***************************************************************************)
CONSTANTS Readers, Writers

VARIABLES reading, writing  \* who is inside

vars == <<reading, writing>>

Init == reading = {} /\ writing = {}

Read(p) ==
  /\ p \notin reading /\ writing = {}
  /\ reading' = reading \cup {p} /\ UNCHANGED writing

ReadEnd(p) ==
  /\ p \in reading
  /\ reading' = reading \ {p} /\ UNCHANGED writing

Write(p) ==
  /\ reading = {} /\ writing = {}
  /\ writing' = {p} /\ UNCHANGED reading

WriteEnd(p) ==
  /\ writing = {p}
  /\ writing' = {} /\ UNCHANGED reading

Next ==
  \/ \E p \in Readers : Read(p) \/ ReadEnd(p)
  \/ \E p \in Writers : Write(p) \/ WriteEnd(p)

Spec == Init /\ [][Next]_vars
================================================================================
