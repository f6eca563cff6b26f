--------------------------- MODULE ServiceContract ---------------------------
(***************************************************************************)
(* What a client that waits for each answer before it sends the next       *)
(* request may rely on: one reply per request, decided by the request and  *)
(* by the styles the cores have models for.  No threads, no model loading, *)
(* no temporary file.                                                      *)
(***************************************************************************)
EXTENDS Naturals

CONSTANTS Requests, EngineVersions, DefaultVersion, Loadable,
          NoVersion, NoStyle, NoResponse

VARIABLES input, response, alive

vars == <<input, response, alive>>

Plain(status, kind) == [status |-> status, kind |-> kind, body |-> <<>>]

Engine(i) == IF i.version = NoVersion THEN DefaultVersion ELSE i.version

Understood(i) ==
  i.body # "malformed" /\ Engine(i) \in EngineVersions /\ i.style # NoStyle

Speaks(i) == i.style \in Loadable[Engine(i)]

\* The requests that bring the server down.
Fatal(i) ==
  /\ Understood(i)
  /\ \/ i.route = "synthesis" /\ (i.body = "empty" \/ ~Speaks(i))
     \/ i.route = "sing" /\ i.body # "empty" /\ ~Speaks(i)

\* The reply to every other request.
Answer(r) ==
  LET i == input[r] IN
  IF i.route # "synthesis" /\ i.style = NoStyle THEN Plain(200, "text")
  ELSE IF ~Understood(i) THEN Plain(500, "none")
  ELSE IF i.route = "synthesis"
       THEN [status |-> 200, kind |-> "wav", body |-> [k \in 1..i.pages |-> r]]
  ELSE IF i.route = "audio_query" /\ ~Speaks(i) THEN Plain(500, "none")
  ELSE IF i.route = "sing" /\ i.body = "good" THEN Plain(500, "none")
  ELSE Plain(200, "json")

Init ==
  /\ response = [r \in Requests |-> NoResponse]
  /\ alive = TRUE

Serve(r) ==
  /\ alive /\ response[r] = NoResponse /\ ~Fatal(input[r])
  /\ response' = [response EXCEPT ![r] = Answer(r)]
  /\ UNCHANGED <<input, alive>>

Fail(r) ==
  /\ alive /\ response[r] = NoResponse /\ Fatal(input[r])
  /\ alive' = FALSE
  /\ UNCHANGED <<input, response>>

Next == \E r \in Requests : Serve(r) \/ Fail(r)

Spec == Init /\ [][Next]_vars
=============================================================================
