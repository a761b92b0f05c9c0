------------------------------ MODULE Session ------------------------------
(***************************************************************************)
(* The command path of loxwebsocket: facade -> command channel -> writer   *)
(* task -> Miniserver -> reader loop -> pending queue -> facade, across    *)
(* successive sessions that share one command channel.                     *)
(*                                                                         *)
(* Two tasks act: the supervisor, which runs the reader inline (`sup' is   *)
(* its program counter), and the writer (`wr').  A step goes from one      *)
(* await or lock release to the next.  A command is its verb and the       *)
(* request it carries; salts, hashes and JSON are left to other modules.   *)
(*                                                                         *)
(* `chan' holds the mpsc channel followed by the senders parked on it in   *)
(* their FIFO order: the first ChanDepth elements are in the channel.      *)
(* `overdue' counts the leading pending entries whose deadline has passed: *)
(* every entry gets the same timeout, so they always form a prefix.        *)
(***************************************************************************)
EXTENDS Naturals, Sequences, FiniteSets

CONSTANTS
    Commands,      \* send_command calls of the facade's users
    Refreshes,     \* request/response commands of the token refresher
    Controls,      \* send_control and try_send_control calls
    Visus,         \* send_visu_control calls
    Impatient,     \* requests whose callers may drop their future
    None,          \* no request
    MaxPending,    \* ConnectConfig::max_pending_commands
    ChanDepth,     \* ConnectConfig::command_channel_depth
    OutDepth,      \* WRITER_CHANNEL_DEPTH
    KillOnStop,    \* ConnectConfig::kill_token_on_stop
    MaxSessions,   \* bound on the sessions explored
    MaxPushed,     \* bound on unread frames when the Miniserver pushes one
    Prompt         \* the Miniserver answers each command before its deadline,
                   \* unless it falls silent for good, and pushes no text

Calls == Commands \cup Refreshes
Requests == Calls \cup Controls \cup Visus

ASSUME RequestsAssumption ==
    /\ Commands \cap Refreshes = {} /\ Calls \cap Controls = {}
    /\ (Calls \cup Controls) \cap Visus = {}
    /\ None \notin Requests /\ Impatient \subseteq Requests \ Refreshes

ASSUME BoundsAssumption ==
    /\ MaxPending \in Nat \ {0} /\ ChanDepth \in Nat \ {0} /\ OutDepth \in Nat \ {0}
    /\ MaxSessions \in Nat \ {0} /\ MaxPushed \in Nat
    /\ KillOnStop \in BOOLEAN /\ Prompt \in BOOLEAN

VARIABLES
    call,      \* what each request's caller has been told
    reply,     \* the type-0 answer a finished call returned
    chan,      \* command channel and parked senders
    rx,        \* who owns the channel's receiver
    pending,   \* PendingQueue::entries
    overdue,   \* leading entries of pending past their deadline
    mismatch,  \* the correlation_mismatches metric is positive
    visu,      \* VisuQueue::pending
    keyed,     \* the answer whose key hashed each secured control's password
    out,       \* reader-to-writer channel
    wr, wout,  \* writer task: program counter, frame being written
    sup, got,  \* supervisor task: program counter, message in hand
    live,      \* ConnState is Connected
    stopped,   \* the stop flag
    session,   \* number of the session
    gaveUp,    \* this session's refresher has sent DropSession
    toServer, toClient, server  \* wire and Miniserver

callVars == <<call, reply, keyed, mismatch>>
queueVars == <<pending, overdue, visu>>
wireVars == <<toServer, toClient, server>>
supVars == <<sup, got, live, session, gaveUp>>
vars == <<callVars, chan, rx, queueVars, out, wr, wout, supVars, stopped, wireVars>>

Cmd(verb, req) == [verb |-> verb, req |-> req]
NoCmd == Cmd("push", None)

\* Commands that register a waiter, and what else the tasks exchange.
Registered ==
    [verb : {"command"}, req : Calls] \cup [verb : {"io"}, req : Controls]
    \cup [verb : {"getvisusalt", "ios"}, req : Visus]
    \cup [verb : {"getkey", "killtoken"}, req : {None}]
Texts == Registered \cup {NoCmd}
WriterMsgs == [verb : {"ios"}, req : Visus] \cup [verb : {"echo", "shutdown"}, req : {None}]

IoCommands ==
    [op : {"encrypted"}, req : Calls, in : Nat] \cup [op : {"control"}, req : Controls, in : Nat]
    \cup [op : {"visu"}, req : Visus, in : Nat] \cup [op : {"drop", "stop"}, req : {None}, in : Nat]
IoCommand(op, req) == [op |-> op, req |-> req, in |-> session]

\* Frames that register no waiter: they are neither answered nor in the queue.
Unregistered == {"keepalive", "echo"}

-----------------------------------------------------------------------------
\* Mutant: an outcome overwrites an earlier one.
CompleteAgain(f, reqs, how) == [r \in DOMAIN f |-> IF r \in reqs THEN how ELSE f[r]]

\* A oneshot is completed once; a caller that has gone is not told.
Complete(f, reqs, how) ==
    [r \in DOMAIN f |-> IF r \in reqs /\ f[r] = "waiting" THEN how ELSE f[r]]
ReqsOf(s) == {s[i].req : i \in DOMAIN s}

Init ==
    /\ call = [r \in Requests |-> "idle"] /\ reply = [r \in Calls |-> NoCmd]
    /\ keyed = [v \in Visus |-> NoCmd] /\ mismatch = FALSE
    /\ chan = <<>> /\ rx = "writer"
    /\ pending = <<>> /\ overdue = 0 /\ visu = <<>> /\ out = <<>>
    /\ wr = "select" /\ wout = NoCmd
    /\ sup = "read" /\ got = NoCmd /\ live = TRUE /\ stopped = FALSE
    /\ session = 1 /\ gaveUp = FALSE
    /\ toServer = <<>> /\ toClient = <<>> /\ server = "up"

-----------------------------------------------------------------------------
(* The facade and the refresher: the senders of the command channel.       *)

\* cmd_tx.send(..).await: the message joins the channel or its waiters, or the
\* receiver is gone.
Enqueue(op, r, status) ==
    IF rx = "closed"
    THEN call' = [call EXCEPT ![r] = "gone"] /\ UNCHANGED chan
    ELSE call' = [call EXCEPT ![r] = status] /\ chan' = Append(chan, IoCommand(op, r))

FacadeFrame ==
    UNCHANGED <<reply, keyed, mismatch, rx, queueVars, out, wr, wout, supVars,
                stopped, wireVars>>

\* send_command has no liveness check.
SendCommand(c) ==
    /\ call[c] = "idle" /\ ~stopped
    /\ Enqueue("encrypted", c, "waiting")
    /\ FacadeFrame

\* require_live, then a send that may park.
SendControl(r) ==
    /\ call[r] = "idle" /\ ~stopped
    /\ IF live
       THEN Enqueue(IF r \in Visus THEN "visu" ELSE "control", r, "accepted")
       ELSE call' = [call EXCEPT ![r] = "refused"] /\ UNCHANGED chan
    /\ FacadeFrame

\* The same without waiting: a full channel refuses.
TrySendControl(r) ==
    /\ call[r] = "idle" /\ ~stopped
    /\ IF live /\ Len(chan) < ChanDepth
       THEN Enqueue("control", r, "accepted")
       ELSE call' = [call EXCEPT ![r] = "refused"] /\ UNCHANGED chan
    /\ FacadeFrame

\* The sequence without its element at i.
RemoveAt(s, i) == SubSeq(s, 1, i - 1) \o SubSeq(s, i + 1, Len(s))

\* Where the senders of the given operations or requests are parked, and what is
\* left of the channel when such a sender is dropped; it parks one message at a
\* time.
ParkedAt(ops, reqs) ==
    {i \in DOMAIN chan : i > ChanDepth /\ (chan[i].op \in ops \/ chan[i].req \in reqs)}
Withdraw(ops, reqs) ==
    IF ParkedAt(ops, reqs) = {} THEN chan
    ELSE RemoveAt(chan, CHOOSE i \in ParkedAt(ops, reqs) : TRUE)

Parked(r) == ParkedAt({}, {r}) # {}

\* A call that has not returned: a request/response one until it is told its
\* outcome, a control only while it waits for room.
InProgress(f, r) == f[r] = "waiting" \/ (r \notin Calls /\ Parked(r))

\* A caller drops its future: a parked send is withdrawn, a queued or written
\* command stays, with nobody to hear its answer.
Cancel(r) ==
    /\ InProgress(call, r)
    /\ call' = [call EXCEPT ![r] = "cancelled"]
    /\ chan' = Withdraw({}, {r})
    /\ FacadeFrame

\* stop() and Drop take the client by value: no facade call is in progress.
Stop ==
    /\ ~stopped /\ \A r \in Requests \ Refreshes : ~InProgress(call, r)
    /\ stopped' = TRUE
    /\ chan' = IF rx = "closed" THEN chan ELSE Append(chan, IoCommand("stop", None))
    /\ UNCHANGED <<callVars, rx, queueVars, out, wr, wout, supVars, wireVars>>

\* The refresher lives as long as the reader loop runs.
RefresherRuns == sup \in {"read", "visu", "forward", "echo"} /\ ~gaveUp

SendRefresh(r) ==
    /\ RefresherRuns /\ call[r] = "idle"
    /\ \A q \in Refreshes : call[q] # "waiting"
    /\ Enqueue("encrypted", r, "waiting")
    /\ FacadeFrame

\* After MAX_REFRESH_ATTEMPTS failures it sends DropSession and returns.
RefresherGivesUp ==
    /\ RefresherRuns /\ rx # "closed"
    /\ \A q \in Refreshes : call[q] # "waiting"
    /\ \E q \in Refreshes : call[q] # "idle"
    /\ gaveUp' = TRUE
    /\ chan' = Append(chan, IoCommand("drop", None))
    /\ UNCHANGED <<callVars, rx, queueVars, out, wr, wout, sup, got, live, session,
                   stopped, wireVars>>

-----------------------------------------------------------------------------
(* The writer task.  The select! is biased: reader messages, then commands, *)
(* then the keepalive tick, then the expiry of the oldest waiter.           *)

WriterFrame == UNCHANGED <<rx, supVars, toClient, server>>

\* prepare_command: encrypt, register the waiter, hand the frame to the write.
\* Its error branch is dead: SaltState::encrypt pads its buffers to the sizes the
\* cipher and the encoder require.
PrepareCommand(cmd) ==
    /\ pending' = Append(pending, cmd)
    /\ wout' = cmd /\ wr' = "write"
    /\ UNCHANGED call

OnWriterMsg ==
    /\ wr = "select" /\ out # <<>>
    /\ out' = Tail(out)
    /\ LET msg == Head(out) IN
       \/ msg.verb = "shutdown" /\ wr' = "finish" /\ UNCHANGED <<call, pending, wout>>
       \/ msg.verb = "echo" /\ wr' = "write" /\ wout' = msg /\ UNCHANGED <<call, pending>>
       \/ msg.verb = "ios" /\ PrepareCommand(msg)
    /\ UNCHANGED <<reply, keyed, mismatch, chan, overdue, visu, stopped, toServer>>
    /\ WriterFrame

TakeCommand(op) ==
    /\ wr = "select" /\ out = <<>> /\ chan # <<>>
    /\ Head(chan).op = op
    /\ chan' = Tail(chan)

\* Mutant: off by one.
AtLimitExceeded == Len(pending) > MaxPending
AtLimit == Len(pending) >= MaxPending

\* Mutant: the waiter is registered before the limit is checked.
RegisterThenCheck ==
    /\ TakeCommand("encrypted")
    /\ LET c == Head(chan).req IN
       IF AtLimit
       THEN /\ call' = Complete(call, {c}, "busy")
            /\ wr' = "expire" /\ pending' = Append(pending, Cmd("command", c))
            /\ UNCHANGED wout
       ELSE PrepareCommand(Cmd("command", c))
    /\ UNCHANGED <<reply, keyed, mismatch, overdue, visu, out, stopped, toServer>>
    /\ WriterFrame

\* send_command beyond max_pending fails fast; only this kind is limited.
OnEncrypted ==
    /\ TakeCommand("encrypted")
    /\ LET c == Head(chan).req IN
       IF AtLimit
       THEN /\ call' = Complete(call, {c}, "busy")
            /\ wr' = "expire"
            /\ UNCHANGED <<pending, wout>>
       ELSE PrepareCommand(Cmd("command", c))
    /\ UNCHANGED <<reply, keyed, mismatch, overdue, visu, out, stopped, toServer>>
    /\ WriterFrame

\* Mutant: a fire-and-forget control registers no waiter.
ControlWithoutWaiter ==
    /\ TakeCommand("control")
    /\ wout' = Cmd("io", Head(chan).req) /\ wr' = "write"
    /\ UNCHANGED <<callVars, queueVars, out, stopped, toServer>>
    /\ WriterFrame

OnControl ==
    /\ TakeCommand("control")
    /\ PrepareCommand(Cmd("io", Head(chan).req))
    /\ UNCHANGED <<reply, keyed, mismatch, overdue, visu, out, stopped, toServer>>
    /\ WriterFrame

\* VisuQueue::push: the oldest control makes room for the newest.
PushVisu(queue, req) == Append(IF queue # <<>> THEN Tail(queue) ELSE queue, req)

\* The secured control waits while a salt is asked for.
OnVisuControl ==
    /\ TakeCommand("visu")
    /\ visu' = PushVisu(visu, Head(chan).req)
    /\ PrepareCommand(Cmd("getvisusalt", Head(chan).req))
    /\ UNCHANGED <<reply, keyed, mismatch, overdue, out, stopped, toServer>>
    /\ WriterFrame

OnDropSession ==
    /\ TakeCommand("drop")
    /\ wr' = "finish"
    /\ UNCHANGED <<callVars, queueVars, out, wout, stopped, toServer>>
    /\ WriterFrame

\* The tick finds too many keepalives unanswered (the count is Keepalive's
\* subject) or puts the next one on the wire.
OnKeepaliveTick ==
    /\ wr = "select" /\ out = <<>> /\ chan = <<>>
    /\ \/ wr' = "finish" /\ UNCHANGED wout
       \/ wr' = "write" /\ wout' = Cmd("keepalive", None)
    /\ UNCHANGED <<callVars, chan, queueVars, out, stopped, toServer>>
    /\ WriterFrame

ExpiryWake ==
    /\ wr = "select" /\ out = <<>> /\ chan = <<>> /\ overdue > 0
    /\ wr' = "expire"
    /\ UNCHANGED <<callVars, chan, queueVars, out, wout, stopped, toServer>>
    /\ WriterFrame

\* What a written frame adds to the commands the Miniserver will answer: nothing
\* if it is not a command, or if the Miniserver has left.
OnWire(cmd) == IF cmd.verb \in Unregistered \/ server # "up" THEN <<>> ELSE <<cmd>>

\* The frame reaches the wire, or the write fails or stalls for
\* WRITE_TIMEOUT_SECS; half a frame is as good as none.
WriteFrame ==
    /\ wr = "write"
    /\ wout' = NoCmd
    /\ \/ wr' = "expire" /\ toServer' = toServer \o OnWire(wout)
       \/ wr' = "finish" /\ UNCHANGED toServer
    /\ UNCHANGED <<callVars, chan, queueVars, out, stopped>>
    /\ WriterFrame

\* Mutant: the writer's loop never expires waiters.
ExpireNothing ==
    /\ wr = "expire"
    /\ wr' = "select"
    /\ UNCHANGED <<callVars, chan, queueVars, out, wout, stopped, toServer>>
    /\ WriterFrame

\* PendingQueue::expire pops every leading entry past its deadline.
ExpirePending ==
    /\ wr = "expire"
    /\ wr' = "select"
    /\ call' = Complete(call, ReqsOf(SubSeq(pending, 1, overdue)), "timeout")
    /\ pending' = SubSeq(pending, overdue + 1, Len(pending))
    /\ overdue' = 0
    /\ UNCHANGED <<reply, keyed, mismatch, chan, visu, out, wout, stopped, toServer>>
    /\ WriterFrame

\* IoCommand::Stop: graceful_close, which asks for a key and kills the token
\* unless the configuration keeps it or there is none, then says goodbye.
OnStop ==
    /\ TakeCommand("stop")
    /\ stopped' = TRUE
    /\ \/ /\ KillOnStop
          /\ pending' = Append(pending, Cmd("getkey", None))
          /\ wout' = Cmd("getkey", None) /\ wr' = "killWrite"
       \/ wr' = "bye" /\ UNCHANGED <<pending, wout>>
    /\ UNCHANGED <<callVars, overdue, visu, out, toServer>>
    /\ WriterFrame

KillWrite ==
    /\ wr = "killWrite"
    /\ \/ wr' = "killWait" /\ toServer' = toServer \o OnWire(wout)
       \/ wr' = "bye" /\ UNCHANGED toServer
    /\ UNCHANGED <<callVars, chan, queueVars, out, wout, stopped>>
    /\ WriterFrame

\* The reader has completed the waiter: the key answer leads to killtoken, the
\* killtoken answer ends the sequence; an unusable answer or
\* SHUTDOWN_COMMAND_TIMEOUT_SECS without one also ends it.
KillWait ==
    /\ wr = "killWait"
    /\ \/ /\ wout.verb = "getkey" /\ wout \notin {pending[i] : i \in DOMAIN pending}
          /\ pending' = Append(pending, Cmd("killtoken", None))
          /\ wout' = Cmd("killtoken", None) /\ wr' = "killWrite"
       \/ wr' = "bye" /\ UNCHANGED <<pending, wout>>
    /\ UNCHANGED <<callVars, chan, overdue, visu, out, stopped, toServer>>
    /\ WriterFrame

\* The close frame is written, or that fails; then the stream is flushed.
SayBye ==
    /\ wr = "bye"
    /\ wr' = "flush" /\ wout' = NoCmd
    /\ UNCHANGED <<callVars, chan, queueVars, out, stopped, toServer>>
    /\ WriterFrame

\* The flush returns: unlike a write it has no timeout.
Flush ==
    /\ wr = "flush"
    /\ wr' = "finish"
    /\ UNCHANGED <<callVars, chan, queueVars, out, wout, stopped, toServer>>
    /\ WriterFrame

\* Dropping the receiver fails what is queued and the senders that are parked.
DropReceiver(f) ==
    [r \in DOMAIN f |-> IF r \in ReqsOf(chan) /\ InProgress(f, r) THEN "gone" ELSE f[r]]

\* finish: fail_all, drain the visu queue, abort the reader (it sees wr =
\* "done"), hand the receiver back.  Nobody takes it from a writer that was
\* given up on: it is dropped.
Finish ==
    /\ wr = "finish"
    /\ wr' = "done"
    /\ pending' = <<>> /\ overdue' = 0 /\ visu' = <<>>
    /\ LET failed == Complete(call, ReqsOf(pending), "closed") IN
       IF rx = "detached"
       THEN call' = DropReceiver(failed) /\ chan' = <<>> /\ rx' = "closed"
       ELSE call' = failed /\ UNCHANGED <<chan, rx>>
    /\ UNCHANGED <<reply, keyed, mismatch, out, wout, supVars, stopped, wireVars>>

-----------------------------------------------------------------------------
(* The reader loop, run inline by the supervisor.                          *)

\* Mutant: the echo is not looked at.
AnyControlMatches(msg, entry) == TRUE

\* PendingQueue::resolve verifies the echoed command by its verb; a text
\* without LL.control passes.
ControlMatches(msg, entry) == msg.verb \in {"push", entry.verb}

\* Mutant: any answer feeds the waiting secured control.
AnyFeedsVisu(entry) == TRUE

\* Only the answer a getvisusalt waiter takes is used for key material.
FeedsVisu(entry) == entry.verb = "getvisusalt"

\* The oldest waiter takes the answer, matching or not; with no waiter the text
\* goes to on_json.
OnTextMessage ==
    /\ sup = "read" /\ toClient # <<>>
    /\ toClient' = Tail(toClient)
    /\ LET msg == Head(toClient) entry == Head(pending) IN
       \/ pending = <<>> /\ UNCHANGED <<callVars, pending, overdue, sup, got>>
       \/ /\ pending # <<>>
          /\ pending' = Tail(pending)
          /\ overdue' = IF overdue = 0 THEN 0 ELSE overdue - 1
          /\ mismatch' = (mismatch \/ ~ControlMatches(msg, entry))
          /\ call' = Complete(call, {entry.req}, "ok")
          /\ reply' = [r \in Calls |-> IF r = entry.req /\ call[r] = "waiting"
                                       THEN msg ELSE reply[r]]
          /\ IF FeedsVisu(entry)
             THEN sup' = "visu" /\ got' = msg
             ELSE UNCHANGED <<sup, got>>
          /\ UNCHANGED keyed
    /\ UNCHANGED <<chan, rx, visu, out, wr, wout, live, session, gaveUp, stopped,
                   toServer, server>>

\* Answers that parse_key_salt may accept: getkey2, sent through send_command, has
\* the shape of a getvisusalt answer.
KeyShaped(msg) == msg.verb \in {"command", "getkey", "getvisusalt"}

\* flush_visu: hash the waiting control's password with the key in hand.  An
\* unusable answer drops the control: another kind of text, but also a refusal or
\* a key that cannot be decoded.
FlushVisu ==
    /\ sup = "visu"
    /\ visu' = <<>>
    /\ \/ /\ visu # <<>> /\ KeyShaped(got)
          /\ keyed' = [keyed EXCEPT ![Head(visu)] = got]
          /\ sup' = "forward" /\ got' = Cmd("ios", Head(visu))
       \/ sup' = "read" /\ got' = NoCmd /\ UNCHANGED keyed
    /\ UNCHANGED <<call, reply, mismatch, chan, rx, pending, overdue, out, wr, wout,
                   live, session, gaveUp, stopped, wireVars>>

\* Mutant: a channel without a bound.
SendOutUnbounded(msg) ==
    \/ wr = "done" /\ UNCHANGED out
    \/ wr # "done" /\ out' = Append(out, msg)

\* out_tx.send(..).await waits for room and fails when the writer is gone.
SendOut(msg) ==
    \/ wr = "done" /\ UNCHANGED out
    \/ wr # "done" /\ Len(out) < OutDepth /\ out' = Append(out, msg)

ForwardSecured ==
    /\ sup = "forward"
    /\ SendOut(got)
    /\ sup' = "read" /\ got' = NoCmd
    /\ UNCHANGED <<callVars, chan, rx, queueVars, wr, wout, live, session, gaveUp,
                   stopped, wireVars>>

\* A close frame behind everything else; the echo is owed before read_frame
\* returns it.
OnClose ==
    /\ sup = "read" /\ toClient = <<>> /\ server = "closed"
    /\ sup' = "echo"
    /\ UNCHANGED <<callVars, chan, rx, queueVars, out, wr, wout, got, live, session,
                   gaveUp, stopped, wireVars>>

\* The read loop has returned: the stream is never read again, the state leaves
\* Connected unless a stop is under way, and the refresher is aborted, its parked
\* sends with it.
ReaderReturns ==
    /\ sup' = "shutdown" /\ gaveUp' = FALSE
    /\ server' = "silent" /\ toServer' = <<>> /\ toClient' = <<>>
    /\ live' = (live /\ stopped)
    /\ call' = Complete(call, Refreshes, "cancelled")
    /\ chan' = Withdraw({"drop"}, Refreshes)
    /\ UNCHANGED <<reply, keyed, mismatch, rx, queueVars, wr, wout, got, session, stopped>>

EchoClose == sup = "echo" /\ SendOut(Cmd("echo", None)) /\ ReaderReturns

\* Mutant: the writer that finishes does not abort the read.
ReadEndsIdleOnly ==
    /\ sup = "read" /\ server = "silent" /\ toClient = <<>>
    /\ ReaderReturns /\ UNCHANGED out

\* The writer's abort makes the read fail; so does a silent Miniserver once the
\* idle window has passed.
ReadEnds ==
    /\ sup = "read"
    /\ wr = "done" \/ (server = "silent" /\ toClient = <<>>)
    /\ ReaderReturns /\ UNCHANGED out

\* A broken stream, an out-of-service message or an unwinding handler: the read
\* loop may return at any message.
ReadBreaks ==
    /\ sup = "read"
    /\ ReaderReturns /\ UNCHANGED out

-----------------------------------------------------------------------------
(* The supervisor between the read loop and the next session.              *)

SupFrame ==
    UNCHANGED <<reply, keyed, mismatch, queueVars, wr, wout, got, session, gaveUp,
                stopped, wireVars>>

SendShutdown ==
    /\ sup = "shutdown"
    /\ SendOut(Cmd("shutdown", None))
    /\ sup' = "join"
    /\ UNCHANGED <<call, chan, rx, live>>
    /\ SupFrame

JoinWriter ==
    /\ sup = "join" /\ wr = "done"
    /\ rx' = "supervisor" /\ sup' = "between"
    /\ UNCHANGED <<call, chan, live, out>>
    /\ SupFrame

\* SHUTDOWN_JOIN_TIMEOUT_SECS passes while the writer is held up by a write or
\* by the kill sequence: the receiver stays with it.
JoinTimeout ==
    /\ sup = "join" /\ wr \in {"write", "killWrite", "killWait", "bye", "flush"}
    /\ rx' = "detached" /\ sup' = "between"
    /\ UNCHANGED <<call, chan, live, out>>
    /\ SupFrame

\* The reconnect wait is over and nobody asked to stop meanwhile.
StartHandshake ==
    /\ sup = "between" /\ ~stopped /\ rx = "supervisor" /\ session < MaxSessions
    /\ sup' = "handshake"
    /\ UNCHANGED <<call, chan, rx, live, out>>
    /\ SupFrame

\* session_once reaches Connected: new queues, channel and tasks, old commands.
Reconnected ==
    /\ sup = "handshake"
    /\ sup' = "read" /\ live' = TRUE /\ session' = session + 1 /\ gaveUp' = FALSE
    /\ pending' = <<>> /\ overdue' = 0 /\ visu' = <<>> /\ out' = <<>>
    /\ wr' = "select" /\ wout' = NoCmd /\ rx' = "writer"
    /\ toServer' = <<>> /\ toClient' = <<>> /\ server' = "up"
    /\ UNCHANGED <<callVars, chan, got, stopped>>

\* preflight, HTTP, the WebSocket or a handshake step fails: wait and try again.
HandshakeFails ==
    /\ sup = "handshake"
    /\ sup' = "between"
    /\ UNCHANGED <<call, chan, rx, live, out>>
    /\ SupFrame

\* Stopped, given up, a terminal error, or the receiver lost: the supervisor
\* returns and drops the receiver if it has it.
SupervisorEnds ==
    /\ sup \in {"between", "handshake"}
    /\ sup' = "ended" /\ live' = FALSE
    /\ IF rx = "supervisor"
       THEN call' = DropReceiver(call) /\ chan' = <<>> /\ rx' = "closed"
       ELSE UNCHANGED <<call, chan, rx>>
    /\ UNCHANGED out
    /\ SupFrame

-----------------------------------------------------------------------------
(* The Miniserver and time: the environment.                               *)

EnvFrame ==
    UNCHANGED <<callVars, chan, rx, pending, visu, out, wr, wout, supVars, stopped>>

\* Every command is answered, in order.
Answer ==
    /\ server = "up" /\ toServer # <<>>
    /\ toClient' = Append(toClient, Head(toServer)) /\ toServer' = Tail(toServer)
    /\ UNCHANGED <<overdue, server>>
    /\ EnvFrame

\* A command that is never answered.
Ignore ==
    /\ ~Prompt /\ server = "up" /\ toServer # <<>>
    /\ toServer' = Tail(toServer)
    /\ UNCHANGED <<overdue, toClient, server>>
    /\ EnvFrame

\* A type-0 text that answers nothing.
Push ==
    /\ ~Prompt /\ server = "up" /\ Len(toClient) < MaxPushed
    /\ toClient' = Append(toClient, Cmd("push", None))
    /\ UNCHANGED <<overdue, toServer, server>>
    /\ EnvFrame

\* It closes the connection, or falls silent for good.
Leave ==
    /\ server = "up"
    /\ server' \in {"closed", "silent"} /\ toServer' = <<>>
    /\ UNCHANGED <<overdue, toClient>>
    /\ EnvFrame

\* The deadline of one more entry passes.
DeadlinePasses ==
    /\ overdue < Len(pending)
    /\ Prompt => server # "up" /\ toClient = <<>>
    /\ overdue' = overdue + 1
    /\ UNCHANGED wireVars
    /\ EnvFrame

-----------------------------------------------------------------------------
Facade ==
    \/ \E c \in Commands : SendCommand(c)
    \/ \E r \in Controls \cup Visus : SendControl(r)
    \/ \E r \in Controls : TrySendControl(r)
    \/ \E r \in Impatient : Cancel(r)
    \/ Stop

Refresher == RefresherGivesUp \/ \E r \in Refreshes : SendRefresh(r)

Writer ==
    \/ OnWriterMsg \/ OnEncrypted \/ OnControl \/ OnVisuControl \/ OnDropSession
    \/ OnStop \/ OnKeepaliveTick \/ ExpiryWake \/ WriteFrame \/ ExpirePending
    \/ KillWrite \/ KillWait \/ SayBye \/ Finish

Supervisor ==
    \/ OnTextMessage \/ FlushVisu \/ ForwardSecured \/ OnClose \/ EchoClose \/ ReadEnds
    \/ SendShutdown \/ JoinWriter \/ StartHandshake \/ Reconnected \/ HandshakeFails
    \/ SupervisorEnds

Environment ==
    Answer \/ Ignore \/ Push \/ Leave \/ DeadlinePasses \/ ReadBreaks \/ JoinTimeout

\* The client is over: both tasks have returned.
Terminated == sup = "ended" /\ wr = "done" /\ UNCHANGED vars

Next == Facade \/ Refresher \/ Writer \/ Flush \/ Supervisor \/ Environment \/ Terminated

Spec == Init /\ [][Next]_vars

\* tokio runs every ready task; the writes of the writer, the reads of a session
\* and the join are bounded by timeouts; deadlines pass; an aborted stream fails
\* its next poll however much the Miniserver sends.  Two waits have no timeout and
\* no fairness here: the flush after the close frame, and the handshake, whose TCP,
\* TLS and upgrade steps and whose writes last as long as the peer lets them.  Nor
\* need a Miniserver that is up answer, or a handshake that ends succeed.
FairSpec ==
    /\ Spec
    /\ WF_vars(Writer) /\ WF_vars(sup # "handshake" /\ Supervisor)
    /\ WF_vars(ReadEnds) /\ WF_vars(JoinTimeout) /\ WF_vars(DeadlinePasses)

-----------------------------------------------------------------------------
(* Properties                                                              *)

Statuses == {"idle", "waiting", "accepted", "refused", "cancelled", "ok", "timeout",
             "closed", "busy", "gone"}

\* Every variable keeps its type; in particular no entry is overdue that is not
\* in the queue, the reader-to-writer channel keeps its depth, and at most one
\* secured control waits for its salt (visu.rs, "max 1 pending").
TypeOK ==
    /\ call \in [Requests -> Statuses] /\ reply \in [Calls -> Texts]
    /\ keyed \in [Visus -> Texts] /\ mismatch \in BOOLEAN
    /\ chan \in Seq(IoCommands) /\ rx \in {"writer", "supervisor", "detached", "closed"}
    /\ pending \in Seq(Registered) /\ overdue \in Nat /\ overdue <= Len(pending)
    /\ visu \in Seq(Visus) /\ Len(visu) <= 1
    /\ out \in Seq(WriterMsgs) /\ Len(out) <= OutDepth
    /\ wr \in {"select", "write", "expire", "killWrite", "killWait", "bye", "flush",
              "finish", "done"}
    /\ wout \in Registered \cup {NoCmd, Cmd("keepalive", None), Cmd("echo", None)}
    /\ wr \in {"write", "killWrite"} => wout # NoCmd
    /\ sup \in {"read", "visu", "forward", "echo", "shutdown", "join", "between",
                "handshake", "ended"}
    /\ got \in Texts /\ (sup = "forward" => got \in WriterMsgs)
    /\ live \in BOOLEAN /\ stopped \in BOOLEAN /\ session \in Nat /\ gaveUp \in BOOLEAN
    /\ toServer \in Seq(Registered) /\ toClient \in Seq(Texts)
    /\ server \in {"up", "closed", "silent"}

\* Commands whose answers are still to come: answers under way, commands on
\* their way, and the one being written.
InFlight == toClient \o toServer \o
            (IF wr \in {"write", "killWrite"} THEN OnWire(wout) ELSE <<>>)

IsPrefix(s, t) == Len(s) <= Len(t) /\ s = SubSeq(t, 1, Len(s))

\* "The queue order can never disagree with the wire order": while the Miniserver
\* answers, the pending queue is exactly the commands in flight, plus the one
\* whose write failed; once it has left, the answers still unread are for the
\* oldest waiters.
WireOrder ==
    Prompt /\ wr # "done" =>
        /\ server = "up" /\ wr \notin {"bye", "flush", "finish"} => pending = InFlight
        /\ IsPrefix(toClient \o toServer, pending)

\* A send_command that returns Ok returns the answer to its own command: no
\* acknowledgement of a control, of a secured control or of another command
\* completes it.
AnswersNeverCross ==
    \A c \in Calls : call[c] = "ok" => reply[c] = Cmd("command", c)

\* The same, for a Miniserver that answers in time.
AnswersMatch == Prompt => AnswersNeverCross

\* A visu password is hashed with the key of a getvisusalt answer only: "getkey2
\* returns the same shape and must not feed the visu hash".
VisuKeyNeverCrosses ==
    \A v \in Visus : keyed[v] # NoCmd => keyed[v].verb = "getvisusalt"

\* The same, for a Miniserver that answers in time.
VisuKeyMatches == Prompt => VisuKeyNeverCrosses

Service == INSTANCE CommandService WITH
    Callers <- Calls, Replies <- Texts, NoReply <- NoCmd,
    Own <- [c \in Calls |-> Cmd("command", c)], Punctual <- Prompt,
    status <- [c \in Calls |-> call[c]], answer <- reply

\* The whole command path implements CommandService: whatever interleaving of
\* facade, writer, reader, refresher and supervisor takes place, a call is told
\* one outcome, for good, and its own answer if the Miniserver is punctual.
ImplementsService == Service!Spec

Queued(c) == {i \in DOMAIN chan : chan[i].req = c}
Awaiting(c) == {i \in DOMAIN pending : pending[i].req = c}

\* A caller that waits has its command in exactly one place, the channel or the
\* pending queue, across sessions, cancellations and lost writers: none is
\* forgotten and none is sent twice.  One that has been told an outcome has it in
\* neither.
Accounted ==
    \A c \in Calls :
        /\ call[c] = "waiting" => Cardinality(Queued(c)) + Cardinality(Awaiting(c)) = 1
        /\ call[c] \in {"ok", "timeout", "closed", "busy", "gone"} =>
               Queued(c) = {} /\ Awaiting(c) = {}

\* max_pending_commands bounds the request/response commands in flight, whatever
\* controls (which are not limited) share the queue with them.
WaitersBounded ==
    Cardinality({i \in DOMAIN pending : pending[i].verb = "command"}) <= MaxPending

\* An answer that lands on the wrong kind of waiter is counted, if it carries
\* LL.control at all.
WrongKindCounted ==
    \/ mismatch
    \/ /\ \A c \in Calls : reply[c].verb \in {"command", "push"}
       /\ VisuKeyNeverCrosses

\* Waits that no timeout ends.
StuckInFlush == wr = "flush"
StuckInHandshake == sup = "handshake"
NoSession == sup \in {"between", "handshake"}

\* Every send_command ends, with an answer, a timeout, a refusal or a closed
\* session, wherever its session breaks off and whatever the Miniserver leaves
\* unanswered.  It waits for ever only if the client never gets another session,
\* or if the writer never returns from its last flush.
CommandsComplete ==
    \A c \in Calls :
        call[c] = "waiting" ~> call[c] # "waiting" \/ []NoSession \/ []StuckInFlush

\* "Shutdown must not hang on an unresponsive Miniserver": after stop() the
\* supervisor and the writer return, from whatever they were doing, but for the
\* two waits that nothing bounds.
StopCompletes ==
    stopped ~> (sup = "ended" /\ wr = "done") \/ []StuckInHandshake \/ []StuckInFlush

\* The writer hands the command channel back unless the client is stopping: a
\* connection that fails is followed by a reconnect ("anything else reconnects"),
\* which needs the channel.
ChannelSurvives == rx = "detached" => stopped

=============================================================================
