--------------------------- MODULE CommandService ---------------------------
(***************************************************************************)
(* What send_command promises, whatever connection carries it: a call is   *)
(* issued once and told one outcome, which never changes; a call that      *)
(* succeeds returns a reply, and its own if the Miniserver is punctual.    *)
(* Sessions, queues and tasks do not appear.                               *)
(***************************************************************************)
CONSTANTS
    Callers,    \* the calls
    Replies,    \* the texts a call can return
    NoReply,    \* what a call that has returned nothing holds
    Own,        \* Own[c] is the answer to the command of c
    Punctual    \* the Miniserver answers every command before its deadline

VARIABLES status, answer

svars == <<status, answer>>

\* How a call fails: its deadline passes, its session ends, too many are in
\* flight, the client is gone, or its caller lost interest.
Failures == {"timeout", "closed", "busy", "gone", "cancelled"}

Init ==
    /\ status = [c \in Callers |-> "idle"]
    /\ answer = [c \in Callers |-> NoReply]

\* The call is accepted, or refused because the client is gone.
Issue(c) ==
    /\ status[c] = "idle"
    /\ status' \in {[status EXCEPT ![c] = "waiting"], [status EXCEPT ![c] = "gone"]}
    /\ UNCHANGED answer

Succeed(c) ==
    /\ status[c] = "waiting"
    /\ status' = [status EXCEPT ![c] = "ok"]
    /\ \E m \in Replies :
        /\ Punctual => m = Own[c]
        /\ answer' = [answer EXCEPT ![c] = m]

\* One event, such as the end of a session, fails any number of waiting calls.
Fail ==
    /\ status' \in [Callers -> Failures \cup {"idle", "waiting", "ok"}]
    /\ \A c \in Callers :
        status'[c] = status[c] \/ (status[c] = "waiting" /\ status'[c] \in Failures)
    /\ UNCHANGED answer

Next == Fail \/ \E c \in Callers : Issue(c) \/ Succeed(c)

Spec == Init /\ [][Next]_svars

=============================================================================
