------------------------------- MODULE Frames -------------------------------
(***************************************************************************)
(* What the reader makes of the bytes of a message: the tables it walks,   *)
(* the text it takes LL.control from, and the answer it checks against a   *)
(* waiter.  The three share no state, each works on one message and keeps  *)
(* nothing of it: a behaviour has messages of one sort.                    *)
(***************************************************************************)
EXTENDS Tables, Control, Echo

VARIABLE sort    \* the sort of message that is read

frameVars == <<sort, tableVars, controlVars, echoVars>>

FramesInit ==
    /\ TableInit /\ ControlInit /\ EchoInit
    /\ sort \in {"table", "text", "answer"}
    /\ sort # "table" => kind = "ValueStates"

FramesNext ==
    \/ sort = "table" /\ TableNext /\ UNCHANGED <<sort, controlVars, echoVars>>
    \/ sort = "text" /\ ControlNext /\ UNCHANGED <<sort, tableVars, echoVars>>
    \/ sort = "answer" /\ ResolveHead /\ UNCHANGED <<sort, tableVars, controlVars>>

FramesSpec == FramesInit /\ [][FramesNext]_frameVars

=============================================================================
