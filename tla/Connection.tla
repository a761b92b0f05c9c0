----------------------------- MODULE Connection -----------------------------
(***************************************************************************)
(* A connection from its first request to the session: Connect opens it,   *)
(* the handshake authenticates it with commands that Salt encrypts, and    *)
(* the writer takes the salt over from there.                              *)
(*                                                                         *)
(* The handshake takes the next text message for the answer to what it     *)
(* has just asked.  The Miniserver answers in order and pushes tables in   *)
(* between; a message is the command it answers and its LL status, or a    *)
(* table, or the estimated header of one.                                  *)
(***************************************************************************)
EXTENDS Connect, Salt

CONSTANTS
    MaxInterleaved,  \* MAX_INTERLEAVED_FRAMES
    StreamCap        \* bound: messages on their way to the client

ASSUME ConnectionAssumption == MaxInterleaved \in Nat \ {0} /\ StreamCap \in Nat

VARIABLES
    phase,     \* the command whose answer the handshake waits for, "none" or "session"
    asked,     \* commands the Miniserver has not come to
    stream,    \* messages on their way to the client
    budget,    \* iterations left to read_payload
    torn,      \* a read was given up between a header and its payload
    token,     \* the token in memory: none, valid, or close to its expiry
    panicked,  \* HandlerGuard::panicked
    crossed    \* history: the answer to one command was acted on as that to another

streamVars == <<asked, stream, budget, torn>>
handVars == <<phase, streamVars, token, panicked, crossed>>
allVars == <<connectVars, vars, handVars>>

Answers == {"keyexchange", "getkey", "authwithtoken", "killkey", "killtoken", "getkey2",
            "getjwt", "enable"}
Pushes == {"table", "estimate"}

\* LL status: 200, one that invalidates the token, or one that keeps it.
Statuses == {"ok", "rejected", "busy"}

Tokens == {"none", "valid", "expiring"}

ConnInit ==
    /\ ConnectInit /\ Init
    /\ phase = "none" /\ asked = <<>> /\ stream = <<>> /\ budget = 0 /\ torn = FALSE
    /\ token \in Tokens /\ panicked = FALSE /\ crossed = FALSE

-----------------------------------------------------------------------------
(* Sending                                                                 *)

\* send_text of c, and read_payload with its budget from the start.
Send(c) == phase' = c /\ asked' = Append(asked, c) /\ budget' = MaxInterleaved

\* request: the command goes out under the salt.
Request(c) == Send(c) /\ Encrypt /\ UNCHANGED connectVars

\* Handshake::authenticate, by the token at hand.
Authenticate ==
    \/ token = "none" /\ Request("getkey2")
    \/ token = "valid" /\ Request("getkey")
    \/ token = "expiring" /\ Request("killkey")

\* enable_updates, or the session at once where nobody wants updates.
EnableUpdates ==
    \/ options.updates /\ Request("enable")
    \/ ~options.updates /\ phase' = "session" /\ UNCHANGED <<asked, budget, vars, connectVars>>

\* bail!, or the end of the session: the stream is dropped with everything on it.
Dropped ==
    /\ Disconnect /\ UNCHANGED vars
    /\ phase' = "none" /\ asked' = <<>> /\ budget' = 0

\* An error in the step under way.  acquire_token passes over those of kill_token.
Err == IF phase \in {"killkey", "killtoken"} THEN Request("getkey2") ELSE Dropped

-----------------------------------------------------------------------------
(* Answers                                                                 *)

\* Mutant: a key/salt answer without key or salt is made up for with defaults.
ParsesLoosely(a) ==
    \/ phase \in {"keyexchange", "killtoken", "enable", "getkey2"}
    \/ phase \in {"getkey", "killkey"} /\ a \in {"getkey", "killkey", "keyexchange"}
    \/ phase \in {"authwithtoken", "getjwt"} /\ a \in {"authwithtoken", "getjwt"}

\* Whether the answer to a has the value the parser of this step looks for: anything,
\* a string, validUntil, or key and salt.
Parses(a) ==
    \/ phase \in {"keyexchange", "killtoken", "enable"}
    \/ phase \in {"getkey", "killkey"} /\ a \in {"getkey", "killkey", "keyexchange"}
    \/ phase \in {"authwithtoken", "getjwt"} /\ a \in {"authwithtoken", "getjwt"}
    \/ phase = "getkey2" /\ a = "getkey2"

\* The step after an answer that was understood.
Proceed ==
    \/ phase = "keyexchange" /\ Authenticate /\ UNCHANGED token
    \/ phase = "getkey" /\ Request("authwithtoken") /\ UNCHANGED token
    \/ phase = "killkey" /\ Request("killtoken") /\ UNCHANGED token
    \/ phase = "killtoken" /\ Request("getkey2") /\ UNCHANGED token
    \/ phase = "getkey2" /\ Request("getjwt") /\ UNCHANGED token
    \/ phase \in {"authwithtoken", "getjwt"} /\ EnableUpdates /\ token' \in {"valid", "expiring"}
    \/ /\ phase = "enable" /\ phase' = "session" /\ UNCHANGED <<asked, budget, token>>
       /\ UNCHANGED <<vars, connectVars>>

\* kill_token looks at no status; authwithtoken falls back on a fresh token.
OnAnswer(m) ==
    IF Parses(m.of) /\ (m.status = "ok" \/ phase = "killtoken")
    THEN Proceed /\ crossed' = (crossed \/ m.of # phase)
    ELSE /\ crossed' = crossed
         /\ IF phase = "authwithtoken" /\ m.status = "rejected"
            THEN Request("getkey2") /\ token' = "none"
            ELSE Err /\ token' = token

\* Mutant: the loop has no bound.
ReadingUnbounded == phase \in Answers /\ stream # <<>> /\ ~torn /\ ~panicked

\* read_payload can read on.
Reading ==
    /\ phase \in Answers /\ stream # <<>> /\ ~torn /\ budget > 0 /\ ~panicked

\* The stream goes with the connection.
Taken == stream' = IF phase' = "none" THEN <<>> ELSE Tail(stream)

ReadAnswer ==
    /\ Reading /\ Head(stream).of \in Answers
    /\ OnAnswer(Head(stream)) /\ Taken
    /\ UNCHANGED <<torn, panicked>>

\* An event table is handed to the handler, an estimated header passed over.
ReadOther ==
    /\ Reading /\ Head(stream).of \in Pushes
    /\ budget' = budget - 1 /\ stream' = Tail(stream)
    /\ UNCHANGED <<connectVars, vars, phase, asked, torn, token, panicked, crossed>>

\* The handler panics over a message, an answer included.
HandlerPanics ==
    /\ Reading /\ panicked' = TRUE
    /\ Err /\ Taken
    /\ UNCHANGED <<torn, token, crossed>>

\* The handshake gives up on an answer: the timeout, perhaps within a message, the
\* budget, a frame that is no header, a handler that panicked before, a closed stream.
ReadFails ==
    /\ phase \in Answers
    /\ Err
    /\ stream' = IF phase' = "none" THEN <<>> ELSE stream
    /\ torn' \in IF phase' = "none" THEN {FALSE} ELSE {torn, stream # <<>>}
    /\ UNCHANGED <<token, panicked, crossed>>

-----------------------------------------------------------------------------
(* The attempt, the Miniserver and the session                             *)

\* The requests before the WebSocket.
BeforeHandshake ==
    /\ SessionOnce \/ ProbeApiKey \/ ProbeApi \/ Bootstrap \/ GetPublicKey
    /\ UNCHANGED <<vars, handVars>>

\* ws_connect, and key_exchange under the SaltState made for this session.
Open ==
    /\ WsConnect
    /\ \/ step' = "off" /\ UNCHANGED <<vars, handVars>>
       \/ /\ step' = "up" /\ Reconnect /\ Send("keyexchange")
          /\ crossed' = FALSE /\ UNCHANGED <<stream, torn, token, panicked>>

\* The Miniserver answers the next command; those in the salt's wire are encrypted.
Answer ==
    /\ asked # <<>> /\ Len(stream) < StreamCap
    /\ asked' = Tail(asked)
    /\ \E s \in Statuses : stream' = Append(stream, [of |-> Head(asked), status |-> s])
    /\ IF Head(asked) = "keyexchange" THEN UNCHANGED vars ELSE Serve
    /\ UNCHANGED <<connectVars, phase, budget, torn, token, panicked, crossed>>

\* It pushes a table, with or without an estimate ahead of it.
Push ==
    /\ step = "up" /\ phase \in Answers /\ Len(stream) < StreamCap
    /\ \E p \in Pushes : stream' = Append(stream, [of |-> p, status |-> "ok"])
    /\ UNCHANGED <<connectVars, vars, phase, asked, budget, torn, token, panicked, crossed>>

\* The writer's commands, which the Session module is about, and the clock.
InSession ==
    /\ \/ phase = "session" /\ (Encrypt \/ Serve)
       \/ Tick
    /\ UNCHANGED <<connectVars, handVars>>

\* The session ends, and its token may have aged, or gone.
EndSession ==
    /\ phase = "session" /\ Dropped
    /\ stream' = <<>> /\ torn' = FALSE /\ token' \in Tokens
    /\ UNCHANGED <<panicked, crossed>>

ConnNext ==
    \/ BeforeHandshake \/ Open \/ ReadAnswer \/ ReadOther \/ HandlerPanics \/ ReadFails
    \/ Answer \/ Push \/ InSession \/ EndSession

ConnSpec == ConnInit /\ [][ConnNext]_allVars

-----------------------------------------------------------------------------
(* Properties                                                              *)

ConnTypeOK ==
    /\ ConnectTypeOK /\ TypeOK
    /\ phase \in Answers \cup {"none", "session"} /\ (phase # "none") = (step = "up")
    /\ asked \in Seq(Answers)
    /\ stream \in Seq([of : Answers \cup Pushes, status : Statuses])
    /\ budget \in 0..MaxInterleaved /\ torn \in BOOLEAN /\ token \in Tokens
    /\ panicked \in BOOLEAN /\ crossed \in BOOLEAN

\* What acquire_token passes over in kill_token is never built on: a step acts only on
\* the answer to its own command, and when the session begins no answer is still to
\* come that the reader would take for the answer to a later command, no read was cut
\* off within a message, and no handler has panicked.
SessionClean ==
    /\ ~crossed
    /\ phase = "session" =>
         /\ ~torn /\ ~panicked /\ asked = <<>>
         /\ \A i \in 1..Len(stream) : stream[i].of \in Pushes

=============================================================================
