----------------------------- MODULE Supervisor -----------------------------
(***************************************************************************)
(* The IO supervisor: connect, listen, reconnect or give up, until stop.   *)
(*                                                                         *)
(* What a session does inside is Session's subject; here it ends with an   *)
(* outcome.  Every value the supervisor tells the outside is modelled: the *)
(* ConnState, the answer of connect(), and the lifecycle events, whose     *)
(* delivery runs consumer code that may unwind.                            *)
(***************************************************************************)
EXTENDS Naturals

CONSTANTS
    Budgets,     \* the values of ConnectConfig::max_reconnect_attempts
    AttemptCap   \* the attempt counter saturates here, above every budget

ASSUME BudgetsAssumption ==
    Budgets \subseteq Nat /\ AttemptCap \in Nat /\ \A b \in Budgets : b < AttemptCap

VARIABLES
    budget,    \* max_reconnect_attempts, 0 for unlimited
    pc,        \* where the supervisor is
    state,     \* SharedState::state
    ready,     \* the oneshot connect() waits for
    attempt,   \* reconnect attempts charged to the budget
    ever,      \* ever_connected
    stopped,   \* the stop flag
    panicked,  \* HandlerGuard::panicked
    rx,        \* the supervisor can take the command channel's receiver
    outcome,   \* how the read loop returned
    event,     \* the lifecycle event delivered last
    streak     \* history: sessions begun since one was productive

vars == <<budget, pc, state, ready, attempt, ever, stopped, panicked, rx, outcome, event, streak>>

\* Error::is_terminal, Error::needs_long_backoff, and the rest.
Errors == {"terminal", "long", "plain"}
\* Close codes by terminal_close and backoff_for_close: 4006; 4003, 4007, 4008;
\* all others, the out-of-service message among them.
CloseCodes == {"closeDisabled", "closeLong", "close"}
Events == {"none", "Connected", "Reconnected", "ConnectionClosed", "Closed"}

Init ==
    /\ budget \in Budgets
    /\ pc = "setup" /\ state = "Closed" /\ ready = "pending" /\ attempt = 0
    /\ ever = FALSE /\ stopped = FALSE /\ panicked = FALSE /\ rx = TRUE
    /\ outcome = "plain" /\ event = "none" /\ streak = 0

\* HandlerGuard::lifecycle: the event is delivered even to a handler that has
\* unwound before, and the handler may unwind in it.
Lifecycle(e) == event' = e /\ panicked' \in {panicked, TRUE}

-----------------------------------------------------------------------------
\* Endpoints and TLS context are built, or that fails.
Setup ==
    /\ pc = "setup"
    /\ pc' \in {"top", "finish"}
    /\ UNCHANGED <<budget, state, ready, attempt, ever, stopped, panicked, rx, outcome,
                   event, streak>>

\* Mutant: no backstop for an unwind in a lifecycle callback.
TopWithoutBackstop ==
    /\ pc = "top"
    /\ IF stopped \/ ~rx
       THEN pc' = "finish" /\ UNCHANGED <<state, streak>>
       ELSE /\ pc' = "handshake"
            /\ state' = IF ever THEN "Reconnecting" ELSE "Connecting"
            /\ streak' = IF ever /\ streak < AttemptCap THEN streak + 1 ELSE streak
    /\ UNCHANGED <<budget, ready, attempt, ever, stopped, panicked, rx, outcome, event>>

\* The head of the loop: stop flag, unwound handler, lost channel, next session.
Top ==
    /\ pc = "top"
    /\ IF stopped \/ panicked \/ ~rx
       THEN pc' = "finish" /\ UNCHANGED <<state, streak>>
       ELSE /\ pc' = "handshake"
            /\ state' = IF ever THEN "Reconnecting" ELSE "Connecting"
            /\ streak' = IF ever /\ streak < AttemptCap THEN streak + 1 ELSE streak
    /\ UNCHANGED <<budget, ready, attempt, ever, stopped, panicked, rx, outcome, event>>

\* The Failed arm: give up on a terminal error or before the first success.
Settle(e) == IF e = "terminal" \/ ~ever' THEN pc' = "finish" ELSE pc' = "wait"

\* A step before Connected fails.  Event tables that overtake a handshake answer
\* run consumer code, whose unwinding is a terminal error.
HandshakeFails ==
    /\ pc = "handshake"
    /\ \E e \in Errors :
        /\ (e = "terminal" /\ panicked' = TRUE) \/ UNCHANGED panicked
        /\ UNCHANGED ever /\ Settle(e)
    /\ UNCHANGED <<budget, state, ready, attempt, stopped, rx, outcome, event, streak>>

\* Mutant: connect() is not answered.
HandshakeForgetsReady ==
    /\ pc = "handshake"
    /\ pc' = "read" /\ state' = "Connected"
    /\ Lifecycle(IF ever THEN "Reconnected" ELSE "Connected")
    /\ UNCHANGED <<budget, ready, attempt, ever, stopped, rx, outcome, streak>>

\* session_once reaches Connected: the event, then the answer to connect().
HandshakeSucceeds ==
    /\ pc = "handshake"
    /\ pc' = "read" /\ state' = "Connected"
    /\ Lifecycle(IF ever THEN "Reconnected" ELSE "Connected")
    /\ ready' = IF ready = "pending" THEN "ok" ELSE ready
    /\ UNCHANGED <<budget, attempt, ever, stopped, rx, outcome, streak>>

\* Mutant: the state stays Connected until the reconnect wait.
ReaderReturnsLate ==
    /\ pc = "read"
    /\ outcome' \in CloseCodes \cup {"terminal", "plain"}
    /\ panicked' = (panicked \/ outcome' = "terminal")
    /\ pc' = "join"
    /\ UNCHANGED <<budget, state, ready, attempt, ever, stopped, rx, event, streak>>

\* The read loop returns: a close frame, an idle timeout, a broken or aborted
\* stream, or an unwinding handler, the one terminal error of the read loop.
ReaderReturns ==
    /\ pc = "read"
    /\ outcome' \in CloseCodes \cup {"terminal", "plain"}
    /\ panicked' = (panicked \/ outcome' = "terminal")
    /\ state' = IF stopped THEN state ELSE "Reconnecting"
    /\ pc' = "join"
    /\ UNCHANGED <<budget, ready, attempt, ever, stopped, rx, event, streak>>

\* Mutant: every session that connected clears the budget.
BudgetClears(productive) == 0

\* Mutant: a productive session gives one attempt back.
BudgetRefunds(productive) == IF productive THEN attempt - 1 ELSE attempt

\* PRODUCTIVE_SESSION_SECS: only a session that lasted clears the budget.
BudgetAfter(productive) == IF productive THEN 0 ELSE attempt

\* The writer is joined, or given up on with the receiver; the session's length
\* and the stop flag decide what its end means.
JoinWriter ==
    /\ pc = "join"
    /\ rx' \in BOOLEAN
    /\ ever' = TRUE
    /\ \E productive \in BOOLEAN :
        /\ attempt' = BudgetAfter(productive)
        /\ streak' = IF productive THEN 0 ELSE streak
    /\ IF stopped THEN pc' = "finish"
       ELSE IF outcome \in CloseCodes THEN pc' = "closed" ELSE Settle(outcome)
    /\ UNCHANGED <<budget, state, ready, stopped, panicked, outcome, event>>

\* The Disconnected arm; what it does to the token is Token's subject.
Disconnected ==
    /\ pc = "closed"
    /\ Lifecycle("ConnectionClosed")
    /\ pc' = IF outcome = "closeDisabled" THEN "finish" ELSE "wait"
    /\ UNCHANGED <<budget, state, ready, attempt, ever, stopped, rx, outcome, streak>>

\* Mutant: finish() answers connect() with Ok.
FinishAnswersOk ==
    /\ pc = "finish"
    /\ pc' = "ended" /\ state' = "Closed"
    /\ ready' = IF ready = "pending" THEN "ok" ELSE ready
    /\ Lifecycle("Closed")
    /\ UNCHANGED <<budget, attempt, ever, stopped, rx, outcome, streak>>

\* finish(): the state, the answer connect() still waits for, the Closed event.
Finish ==
    /\ pc = "finish"
    /\ pc' = "ended" /\ state' = "Closed"
    /\ ready' = IF ready = "pending" THEN "err" ELSE ready
    /\ Lifecycle("Closed")
    /\ UNCHANGED <<budget, attempt, ever, stopped, rx, outcome, streak>>

\* should_continue: 0 means no limit.
ShouldContinue == budget = 0 \/ attempt < budget

\* Mutant: an exhausted budget also goes through finish().
WaitThenFinish ==
    /\ pc = "wait"
    /\ IF ShouldContinue
       THEN /\ attempt' = IF attempt < AttemptCap THEN attempt + 1 ELSE attempt
            /\ state' = "Reconnecting" /\ pc' = "sleep"
            /\ UNCHANGED <<panicked, event>>
       ELSE /\ state' = "Closed" /\ Lifecycle("Closed") /\ pc' = "finish"
            /\ UNCHANGED attempt
    /\ UNCHANGED <<budget, ready, ever, stopped, rx, outcome, streak>>

\* wait_reconnect, up to its sleep.
WaitReconnect ==
    /\ pc = "wait"
    /\ IF ShouldContinue
       THEN /\ attempt' = IF attempt < AttemptCap THEN attempt + 1 ELSE attempt
            /\ state' = "Reconnecting" /\ pc' = "sleep"
            /\ UNCHANGED <<panicked, event>>
       ELSE /\ state' = "Closed" /\ Lifecycle("Closed") /\ pc' = "ended"
            /\ UNCHANGED attempt
    /\ UNCHANGED <<budget, ready, ever, stopped, rx, outcome, streak>>

\* Mutant: a stop during the wait returns without telling the handler.
SleepReturnsSilently ==
    /\ pc = "sleep"
    /\ IF stopped THEN state' = "Closed" /\ pc' = "ended" ELSE pc' = "top" /\ UNCHANGED state
    /\ UNCHANGED <<budget, ready, attempt, ever, stopped, panicked, rx, outcome, event, streak>>

\* sleep_unless_stopped polls the flag; otherwise its time runs out.
SleepUnlessStopped ==
    /\ pc = "sleep"
    /\ IF stopped
       THEN state' = "Closed" /\ Lifecycle("Closed") /\ pc' = "ended"
       ELSE pc' = "top" /\ UNCHANGED <<state, panicked, event>>
    /\ UNCHANGED <<budget, ready, attempt, ever, stopped, rx, outcome, streak>>

\* The caller drops the connect() future: the supervisor goes on, and nobody holds
\* its stop flag any more.
CancelConnect ==
    /\ ready = "pending"
    /\ ready' = "dropped"
    /\ UNCHANGED <<budget, pc, state, attempt, ever, stopped, panicked, rx, outcome, event, streak>>

\* stop() and Drop need the client connect() returned; connect() itself sets the
\* flag when it fails.
Stop ==
    /\ ~stopped /\ ready \in {"ok", "err"}
    /\ stopped' = TRUE
    /\ UNCHANGED <<budget, pc, state, ready, attempt, ever, panicked, rx, outcome, event, streak>>

\* Drop's last resort, for a full channel and no runtime: the task is aborted
\* at whichever await it is in.
Abort ==
    /\ ~stopped /\ ready = "ok"
    /\ pc \in {"handshake", "read", "join", "sleep"}
    /\ pc' = "aborted" /\ stopped' = TRUE
    /\ UNCHANGED <<budget, state, ready, attempt, ever, panicked, rx, outcome, event, streak>>

Over == pc \in {"ended", "aborted"}

\* The client is over.
Terminated == Over /\ UNCHANGED vars

Steps ==
    \/ Setup \/ Top \/ HandshakeFails \/ HandshakeSucceeds \/ JoinWriter \/ Disconnected
    \/ Finish \/ WaitReconnect \/ SleepUnlessStopped

Next == Steps \/ ReaderReturns \/ CancelConnect \/ Stop \/ Abort \/ Terminated

Spec == Init /\ [][Next]_vars

\* The awaits no timeout ends.  ws_connect and the writes of the handshake last as
\* long as the peer lets them.  After a stop the writer may be held up in its last
\* flush: then nothing aborts the read, and the channel the supervisor tells it to
\* shut down through may stay full.
Unbounded == pc = "handshake" \/ (stopped /\ pc \in {"read", "join"})

\* Every other step is bounded by a timeout, or is no wait at all.  A session may
\* last for ever, unless its handler has unwound: then the next message, a
\* keepalive answer at the latest, or its absence ends it.
FairSpec ==
    /\ Spec
    /\ WF_vars(~Unbounded /\ Steps)
    /\ WF_vars(~Unbounded /\ panicked /\ ReaderReturns)

-----------------------------------------------------------------------------
(* Properties                                                              *)

TypeOK ==
    /\ budget \in Budgets
    /\ pc \in {"setup", "top", "handshake", "read", "join", "closed", "finish", "wait",
              "sleep", "ended", "aborted"}
    /\ state \in {"Closed", "Connecting", "Connected", "Reconnecting"}
    /\ ready \in {"pending", "ok", "err", "dropped"}
    /\ attempt \in 0..AttemptCap /\ streak \in 0..AttemptCap
    /\ ever \in BOOLEAN /\ stopped \in BOOLEAN /\ panicked \in BOOLEAN /\ rx \in BOOLEAN
    /\ outcome \in Errors \cup CloseCodes /\ event \in Events

\* Whichever of its ways out the supervisor takes, it leaves the state Closed, has
\* answered connect() and has delivered Closed, so that no client is "wedged in
\* Connected" and no caller of connect() waits for ever; a supervisor whose caller
\* has gone is no exception.
EndsClosed ==
    pc = "ended" => state = "Closed" /\ event = "Closed" /\ ready # "pending"

\* connect() returns Ok only if a handshake has succeeded, and an error only from
\* a supervisor that has ended without one: no client is handed out that never had
\* a session, and none is refused that has one.  While it waits there has been
\* none.
ReadyHonest ==
    /\ ready = "pending" => ~ever /\ pc \notin {"read", "join"}
    /\ ready = "ok" => ever \/ pc \in {"read", "join", "aborted"}
    /\ ready = "err" => pc = "ended" /\ ~ever

\* The state says Connected only while a session is being read, but for a stop
\* under way: require_live relies on it to refuse controls nobody would take.
StateHonest == state = "Connected" => pc = "read" \/ stopped

\* "max_reconnect_attempts bounds consecutive failures": no more sessions follow
\* one another without a productive one than the configuration allows, however
\* failed handshakes and flapping sessions alternate.
BudgetHolds == budget # 0 => streak <= budget

\* Closed is the last event, and none comes after the supervisor has returned.
ClosedIsLast == [][event = "Closed" => UNCHANGED <<event, state, pc>>]_vars

\* An unwound handler never gets another session: "a retry would only hit the
\* same bug".
NoSessionAfterPanic == [][panicked /\ pc # "handshake" => pc' # "handshake"]_vars

\* stop() and an unwinding handler both end the client, wherever they find it and
\* however many sessions its budget would still allow; a client that does not end
\* waits for ever in one of the awaits that have no timeout.
StopEnds == (stopped \/ panicked) ~> Over \/ []Unbounded

\* connect() is answered, whatever fails and however often, unless the Miniserver
\* holds its one handshake for ever.
ConnectAnswered == <>(ready # "pending") \/ <>[](pc = "handshake")

\* A handler that resets its state "on ConnectionClosed instead" sees one between
\* any two connections.
ResetBetweenSessions ==
    [][pc = "handshake" /\ event' = "Reconnected" /\ pc' = "read"
            => event = "ConnectionClosed"]_vars

=============================================================================
