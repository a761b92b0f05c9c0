---------------------------- MODULE Session_proofs ----------------------------
(***************************************************************************)
(* Proofs that a caller is handed the answer to its own command, that      *)
(* sessions implement CommandService, that each caller who waits is known  *)
(* in exactly one place, that an answer of the wrong kind is counted, and  *)
(* that the limit on those who wait is kept.                               *)
(***************************************************************************)
EXTENDS Session_wire, FiniteSetTheorems

-----------------------------------------------------------------------------
(* Sessions implement CommandService                                        *)

\* Completing waiters, or dropping the channel, only fails calls that wait.
LEMMA CompleteFails ==
    ASSUME NEW f \in [Requests -> Statuses], NEW reqs, NEW how
    PROVE  \A c \in Calls : Complete(f, reqs, how)[c] = f[c]
                           \/ (f[c] = "waiting" /\ Complete(f, reqs, how)[c] = how)
BY DEF Complete, Requests

\* Likewise for the receiver that is dropped with its commands.
LEMMA DropReceiverFails ==
    ASSUME NEW f \in [Requests -> Statuses]
    PROVE  \A c \in Calls : DropReceiver(f)[c] = f[c]
                           \/ (f[c] = "waiting" /\ DropReceiver(f)[c] = "gone")
BY DEF DropReceiver, InProgress, Requests

\* What a step may do to the calls: fail some that wait, issue one, or, for the
\* reader alone, succeed.
OnlyFails ==
    /\ \A c \in Calls : \/ call'[c] = call[c]
                        \/ call[c] = "waiting" /\ call'[c] \in Service!Failures
    /\ reply' = reply
Issues ==
    /\ \E c \in Calls : /\ call[c] = "idle"
                        /\ call' \in {[call EXCEPT ![c] = "waiting"], [call EXCEPT ![c] = "gone"]}
    /\ reply' = reply

\* Every step but the reader's leaves the calls alone, fails some or issues one.
LEMMA CallSteps ==
    ASSUME TypeOK, [Next]_vars
    PROVE  OnlyFails \/ Issues \/ OnTextMessage
<1> USE DEF callVars
<1>0. /\ call \in [Requests -> Statuses] /\ Calls \subseteq Requests
      /\ Calls \cap (Controls \cup Visus) = {}
      /\ {"timeout", "closed", "busy", "gone", "cancelled"} \subseteq Service!Failures
  BY RequestsAssumption DEF TypeOK, Requests, Service!Failures
<1>1. CASE UNCHANGED <<call, reply>>
  BY <1>1 DEF OnlyFails
<1>2. ASSUME NEW c \in Calls, call[c] = "idle", NEW op, Enqueue(op, c, "waiting"), FacadeFrame
      PROVE  Issues
  BY <1>2 DEF Enqueue, FacadeFrame, Issues
<1>3. CASE \E c \in Commands : SendCommand(c)
  BY <1>2, <1>3 DEF SendCommand, Calls
<1>4. CASE \E c \in Refreshes : SendRefresh(c)
  BY <1>2, <1>4 DEF SendRefresh, Calls
<1>5. ASSUME NEW r \in Controls \cup Visus, NEW how, call' = [call EXCEPT ![r] = how],
             UNCHANGED reply
      PROVE  OnlyFails
  BY <1>0, <1>5 DEF OnlyFails
<1>6. CASE \E r \in Controls \cup Visus : SendControl(r)
  BY <1>5, <1>6 DEF SendControl, Enqueue, FacadeFrame
<1>7. CASE \E r \in Controls : TrySendControl(r)
  BY <1>5, <1>7 DEF TrySendControl, Enqueue, FacadeFrame
<1>8. CASE \E r \in Impatient : Cancel(r)
  BY <1>0, <1>8 DEF Cancel, InProgress, FacadeFrame, OnlyFails
<1>9. CASE Stop \/ RefresherGivesUp
  BY <1>1, <1>9 DEF Stop, RefresherGivesUp
<1>10. CASE OnEncrypted \/ ExpirePending
  BY <1>0, <1>10, CompleteFails DEF OnEncrypted, ExpirePending, PrepareCommand, OnlyFails
<1>11. CASE Finish
  <2> DEFINE failed == Complete(call, ReqsOf(pending), "closed")
  <2>1. failed \in [Requests -> Statuses]
    BY <1>0, CompleteType DEF Statuses
  <2>2. call' = failed \/ call' = DropReceiver(failed)
    BY <1>11 DEF Finish
  <2>3. \A c \in Calls : failed[c] = call[c] \/ (call[c] = "waiting" /\ failed[c] = "closed")
    BY <1>0, CompleteFails
  <2>4. \A c \in Calls : DropReceiver(failed)[c] = failed[c]
                        \/ (failed[c] = "waiting" /\ DropReceiver(failed)[c] = "gone")
    BY <2>1, DropReceiverFails
  <2>5. reply' = reply
    BY <1>11 DEF Finish
  <2> HIDE DEF failed
  <2> QED BY <1>0, <2>2, <2>3, <2>4, <2>5 DEF OnlyFails
<1>12. CASE \/ OnWriterMsg \/ OnControl \/ OnVisuControl \/ OnDropSession \/ OnStop
            \/ OnKeepaliveTick \/ ExpiryWake \/ WriteFrame \/ KillWrite \/ KillWait
            \/ SayBye \/ Flush
  BY <1>1, <1>12 DEF OnWriterMsg, OnControl, OnVisuControl, OnDropSession, OnStop,
     OnKeepaliveTick, ExpiryWake, WriteFrame, KillWrite, KillWait, SayBye, Flush, PrepareCommand
<1>13. CASE ReaderReturns
  BY <1>0, <1>13, CompleteFails DEF ReaderReturns, OnlyFails
<1>14. CASE EchoClose \/ ReadEnds \/ ReadBreaks
  BY <1>13, <1>14 DEF EchoClose, ReadEnds, ReadBreaks
<1>15. CASE SupervisorEnds
  BY <1>0, <1>1, <1>15, DropReceiverFails DEF SupervisorEnds, SupFrame, OnlyFails
<1>16. CASE \/ FlushVisu \/ ForwardSecured \/ OnClose \/ SendShutdown \/ JoinWriter
            \/ JoinTimeout \/ StartHandshake \/ HandshakeFails \/ Reconnected
  BY <1>1, <1>16 DEF FlushVisu, ForwardSecured, OnClose, SendShutdown, JoinWriter, JoinTimeout,
     StartHandshake, HandshakeFails, Reconnected, SupFrame
<1>17. CASE Answer \/ Ignore \/ Push \/ Leave \/ DeadlinePasses
  BY <1>1, <1>17 DEF Answer, Ignore, Push, Leave, DeadlinePasses, EnvFrame
<1>18. CASE UNCHANGED vars
  BY <1>1, <1>18 DEF vars
<1> QED BY <1>3, <1>4, <1>6, <1>7, <1>8, <1>9, <1>10, <1>11, <1>12, <1>14, <1>15, <1>16,
           <1>17, <1>18
        DEF Next, Facade, Refresher, Writer, Supervisor, Environment, Terminated

\* What the reader does to the calls: at most one, which waits, succeeds.
LEMMA TextSteps ==
    ASSUME TypeOK, TypeOK', WireInv, OnTextMessage
    PROVE  \/ OnlyFails
           \/ \E c \in Calls, m \in Texts :
                /\ call[c] = "waiting"
                /\ \A d \in Calls : call'[d] = IF d = c THEN "ok" ELSE call[d]
                /\ reply' = [reply EXCEPT ![c] = m]
                /\ Prompt => m = Cmd("command", c)
<1> DEFINE entry == Head(pending) msg == Head(toClient)
<1>1. CASE pending = <<>>
  BY <1>1 DEF OnTextMessage, OnlyFails, callVars
<1>2. CASE pending # <<>>
  <2>1. /\ entry \in Registered /\ msg \in Texts
        /\ call' = Complete(call, {entry.req}, "ok")
        /\ reply' = [r \in Calls |-> IF r = entry.req /\ call[r] = "waiting" THEN msg ELSE reply[r]]
        /\ call \in [Requests -> Statuses] /\ reply \in [Calls -> Texts]
        /\ Calls \subseteq Requests
    <3>1. pending \in Seq(Registered) /\ toClient \in Seq(Texts) /\ toClient # <<>>
      BY DEF TypeOK, OnTextMessage
    <3>2. entry \in Registered /\ msg \in Texts
      BY <1>2, <3>1
    <3>3. /\ call' = Complete(call, {entry.req}, "ok")
          /\ reply' = [r \in Calls |->
                        IF r = entry.req /\ call[r] = "waiting" THEN msg ELSE reply[r]]
      BY <1>2 DEF OnTextMessage
    <3>4. call \in [Requests -> Statuses] /\ reply \in [Calls -> Texts] /\ Calls \subseteq Requests
      BY DEF TypeOK, Requests
    <3> QED BY <3>2, <3>3, <3>4
  <2>2. Prompt => msg = entry
    BY <1>2, WireText
  <2>3. entry.req \in Calls => entry = Cmd("command", entry.req)
    BY <2>1, RequestsAssumption DEF Registered, Calls, Requests, Cmd
  <2> HIDE DEF entry, msg
  <2>4. CASE entry.req \in Calls /\ call[entry.req] = "waiting"
    <3>1. \A d \in Calls : call'[d] = IF d = entry.req THEN "ok" ELSE call[d]
      BY <2>1, <2>4 DEF Complete
    <3>2. reply' = [reply EXCEPT ![entry.req] = msg]
      BY <2>1, <2>4
    <3> QED BY <2>1, <2>2, <2>3, <2>4, <3>1, <3>2
  <2>5. CASE ~(entry.req \in Calls /\ call[entry.req] = "waiting")
    <3>1. \A d \in Calls : call'[d] = call[d]
      BY <2>1, <2>5 DEF Complete
    <3>2. reply' = reply
      BY <2>1, <2>5
    <3> QED BY <3>1, <3>2 DEF OnlyFails
  <2> QED BY <2>4, <2>5
<1> QED BY <1>1, <1>2

\* The statuses of a request/response call.
CallStatus == \A c \in Calls : call[c] \in Service!Failures \cup {"idle", "waiting", "ok"}

\* What the theorems below are proved from: types, wire order, call statuses.
SessionInv == TypeOK /\ WireInv /\ CallStatus

\* Every step keeps the calls' statuses among those the service knows.
LEMMA CallStatusStep ==
    ASSUME SessionInv, TypeOK', [Next]_vars
    PROVE  CallStatus'
<1>0. /\ call \in [Requests -> Statuses] /\ Calls \subseteq Requests /\ "gone" \in Service!Failures
  BY DEF SessionInv, TypeOK, Requests, Service!Failures
<1>1. CASE OnlyFails
  BY <1>1 DEF OnlyFails, SessionInv, CallStatus
<1>2. CASE Issues
  BY <1>0, <1>2 DEF Issues, SessionInv, CallStatus
<1>3. CASE OnTextMessage
  <2>1. CASE \E c \in Calls : \A d \in Calls : call'[d] = IF d = c THEN "ok" ELSE call[d]
    BY <2>1 DEF SessionInv, CallStatus
  <2> QED BY <1>1, <1>3, <2>1, TextSteps DEF SessionInv
<1> QED BY <1>1, <1>2, <1>3, CallSteps DEF SessionInv

\* Types, wire order and call statuses are invariant together.
THEOREM SessionCorrect == Spec => []SessionInv
<1>1. Init => SessionInv
  BY TypeInit, WireInit DEF SessionInv, CallStatus, Init, Calls, Requests
<1>2. SessionInv /\ [Next]_vars => SessionInv'
  BY TypeStep, WireStep, CallStatusStep DEF SessionInv
<1> QED BY <1>1, <1>2, PTL DEF Spec

\* Initially no call has been issued, in both specifications.
LEMMA ServiceInit == ASSUME Init PROVE Service!Init
BY DEF Init, Service!Init, Calls, Requests

\* Every step of the sessions is one of CommandService, or leaves it alone.
LEMMA ServiceStep ==
    ASSUME SessionInv, SessionInv', [Next]_vars
    PROVE  [Service!Next]_(Service!svars)
<1> DEFINE st == [c \in Calls |-> call[c]]
<1>0. /\ call \in [Requests -> Statuses] /\ call' \in [Requests -> Statuses]
      /\ reply \in [Calls -> Texts] /\ Calls \subseteq Requests
      /\ st' \in [Calls -> Service!Failures \cup {"idle", "waiting", "ok"}]
  BY DEF SessionInv, TypeOK, Requests, CallStatus
<1>1. CASE OnlyFails
  <2>1. \A c \in Calls : st'[c] = st[c] \/ (st[c] = "waiting" /\ st'[c] \in Service!Failures)
    BY <1>1 DEF OnlyFails
  <2> QED BY <1>0, <1>1, <2>1 DEF OnlyFails, Service!Next, Service!Fail
<1>2. CASE Issues
  <2>1. PICK c \in Calls : /\ call[c] = "idle"
                           /\ call' \in {[call EXCEPT ![c] = "waiting"], [call EXCEPT ![c] = "gone"]}
    BY <1>2 DEF Issues
  <2>2. st' \in {[st EXCEPT ![c] = "waiting"], [st EXCEPT ![c] = "gone"]}
    BY <1>0, <2>1
  <2>3. Service!Issue(c)
    BY <1>2, <2>1, <2>2 DEF Issues, Service!Issue
  <2> QED BY <2>3 DEF Service!Next
<1>3. ASSUME NEW c \in Calls, NEW m \in Texts, call[c] = "waiting",
             \A d \in Calls : call'[d] = IF d = c THEN "ok" ELSE call[d],
             reply' = [reply EXCEPT ![c] = m], Prompt => m = Cmd("command", c)
      PROVE  Service!Next
  <2>1. st' = [st EXCEPT ![c] = "ok"]
    BY <1>3
  <2>2. Service!Succeed(c)
    BY <1>3, <2>1 DEF Service!Succeed
  <2> QED BY <2>2 DEF Service!Next
<1> QED BY <1>1, <1>2, <1>3, CallSteps, TextSteps DEF SessionInv

\* The whole command path implements CommandService, for any number of calls,
\* sessions and bounds: a caller is told one outcome, for good, and with a
\* punctual Miniserver its own answer.
THEOREM SessionImplementsService == Spec => ImplementsService
<1>1. Init => Service!Init
  BY ServiceInit
<1>2. SessionInv /\ SessionInv' /\ [Next]_vars => [Service!Next]_(Service!svars)
  BY ServiceStep
<1> QED BY <1>1, <1>2, SessionCorrect, PTL DEF Spec, ImplementsService, Service!Spec

\* With a Miniserver that answers in time, a send_command that returns Ok returns
\* the answer to its own command.
THEOREM AnswersMatchHolds == Spec => []AnswersMatch
<1>1. Init => AnswersMatch
  BY DEF Init, AnswersMatch, AnswersNeverCross, Calls, Requests
<1>2. ASSUME SessionInv, SessionInv', AnswersMatch, [Next]_vars PROVE AnswersMatch'
  <2> SUFFICES ASSUME Prompt, NEW c \in Calls, call'[c] = "ok" PROVE reply'[c] = Cmd("command", c)
    BY DEF AnswersMatch, AnswersNeverCross
  <2>0. /\ call \in [Requests -> Statuses] /\ reply \in [Calls -> Texts] /\ Calls \subseteq Requests
        /\ (call[c] = "ok" => reply[c] = Cmd("command", c))
    BY <1>2 DEF SessionInv, TypeOK, Requests, AnswersMatch, AnswersNeverCross
  <2>1. CASE OnlyFails
    BY <2>0, <2>1 DEF OnlyFails, Service!Failures
  <2>2. CASE Issues
    BY <2>0, <2>2 DEF Issues
  <2>3. ASSUME NEW d \in Calls, NEW m \in Texts,
               \A e \in Calls : call'[e] = IF e = d THEN "ok" ELSE call[e],
               reply' = [reply EXCEPT ![d] = m], m = Cmd("command", d)
        PROVE  reply'[c] = Cmd("command", c)
    BY <2>0, <2>3
  <2> QED BY <1>2, <2>1, <2>2, <2>3, CallSteps, TextSteps DEF SessionInv
<1> QED BY <1>1, <1>2, SessionCorrect, PTL DEF Spec

-----------------------------------------------------------------------------
(* The key of a secured control                                             *)

\* The answer the reader is about to hash with is the getvisusalt one, too.
VisuInv == Prompt => (sup = "visu" => got.verb = "getvisusalt") /\ VisuKeyNeverCrosses

\* Only the reader takes an answer, only flush_visu hashes with one.
LEMMA VisuSteps ==
    ASSUME [Next]_vars
    PROVE  /\ keyed' = keyed \/ FlushVisu
           /\ UNCHANGED <<reply, mismatch>> \/ OnTextMessage
           /\ sup' = "visu" => OnTextMessage \/ (sup = "visu" /\ got' = got)
<1> USE DEF callVars, supVars, FacadeFrame, SupFrame, EnvFrame
<1>1. CASE Facade \/ Refresher
  BY <1>1 DEF Facade, Refresher, SendCommand, SendControl, TrySendControl, Cancel, Stop,
     SendRefresh, RefresherGivesUp
<1>2. CASE Writer \/ Flush
  BY <1>2 DEF Writer, Flush, OnWriterMsg, OnEncrypted, OnControl, OnVisuControl, OnDropSession,
     OnStop, OnKeepaliveTick, ExpiryWake, WriteFrame, ExpirePending, KillWrite, KillWait,
     SayBye, Finish, WriterFrame, PrepareCommand
<1>3. CASE OnTextMessage
  BY <1>3 DEF OnTextMessage
<1>4. CASE FlushVisu
  BY <1>4 DEF FlushVisu
<1>5. CASE \/ ForwardSecured \/ OnClose \/ EchoClose \/ ReadEnds \/ ReadBreaks \/ SendShutdown
           \/ JoinWriter \/ JoinTimeout \/ StartHandshake \/ Reconnected \/ HandshakeFails
           \/ SupervisorEnds
  BY <1>5 DEF ForwardSecured, OnClose, EchoClose, ReadEnds, ReadBreaks, ReaderReturns,
     SendShutdown, JoinWriter, JoinTimeout, StartHandshake, Reconnected, HandshakeFails,
     SupervisorEnds
<1>6. CASE Answer \/ Ignore \/ Push \/ Leave \/ DeadlinePasses
  BY <1>6 DEF Answer, Ignore, Push, Leave, DeadlinePasses
<1>7. CASE UNCHANGED vars
  BY <1>7 DEF vars
<1> QED BY <1>1, <1>2, <1>3, <1>4, <1>5, <1>6, <1>7
        DEF Next, Supervisor, Environment, Terminated

\* With a Miniserver that answers in time, flush_visu never hashes a visu
\* password with the key of another answer, a getkey2 one above all.
THEOREM VisuKeyHolds == Spec => []VisuKeyMatches
<1>1. Init => VisuInv
  BY DEF Init, VisuInv, VisuKeyNeverCrosses
<1>2. ASSUME SessionInv, SessionInv', VisuInv, [Next]_vars PROVE VisuInv'
  <2> SUFFICES ASSUME Prompt PROVE VisuInv'
    BY DEF VisuInv
  <2>1. sup' = "visu" => got'.verb = "getvisusalt"
    <3>1. CASE OnTextMessage /\ sup' = "visu"
      <4>1. pending # <<>> /\ FeedsVisu(Head(pending)) /\ got' = Head(toClient)
        BY <3>1 DEF OnTextMessage
      <4>2. Head(toClient) = Head(pending)
        BY <1>2, <3>1, <4>1, WireText DEF SessionInv
      <4> QED BY <4>1, <4>2 DEF FeedsVisu
    <3> QED BY <1>2, <3>1, VisuSteps DEF VisuInv
  <2>2. VisuKeyNeverCrosses'
    <3>1. CASE keyed' = keyed
      BY <1>2, <3>1 DEF VisuInv, VisuKeyNeverCrosses
    <3>2. CASE FlushVisu
      <4>1. \A v \in Visus : keyed'[v] = keyed[v] \/ keyed'[v] = got
        BY <1>2, <3>2 DEF FlushVisu, SessionInv, TypeOK
      <4>2. got.verb = "getvisusalt"
        BY <1>2, <3>2 DEF FlushVisu, VisuInv
      <4> QED BY <1>2, <4>1, <4>2 DEF VisuInv, VisuKeyNeverCrosses
    <3> QED BY <1>2, <3>1, <3>2, VisuSteps
  <2> QED BY <2>1, <2>2 DEF VisuInv
<1>3. VisuInv => VisuKeyMatches
  BY DEF VisuInv, VisuKeyMatches
<1> QED BY <1>1, <1>2, <1>3, SessionCorrect, PTL DEF Spec

-----------------------------------------------------------------------------
(* Every command is in one place                                            *)

\* Accounted, with what makes it inductive: a cancelled caller's command may still be
\* queued or sent, but like every other only once.
PlaceInv(c) ==
    /\ Once(chan, c) /\ Once(pending, c) /\ ~(Holds(chan, c) /\ Holds(pending, c))
    /\ call[c] = "waiting" => Holds(chan, c) \/ Holds(pending, c)
    /\ call[c] \notin {"waiting", "cancelled"} => ~Holds(chan, c) /\ ~Holds(pending, c)

\* The supervisor has the receiver only from a writer that has finished, and starts a
\* session only with the receiver in hand.
OwnerInv ==
    /\ rx = "supervisor" => wr = "done"
    /\ sup = "handshake" => rx = "supervisor"

AccountInv == OwnerInv /\ \A c \in Calls : PlaceInv(c)

\* A step of others: a command of c neither joins nor leaves a queue.
LEMMA ForeignStep ==
    ASSUME TypeOK, NEW c \in Calls, PlaceInv(c), call'[c] = call[c],
           \/ chan' = chan
           \/ \E m \in IoCommands : m.req # c /\ chan' = Append(chan, m)
           \/ chan # <<>> /\ Head(chan).req # c /\ chan' = Tail(chan),
           \/ pending' = pending
           \/ \E e \in Registered : e.req # c /\ pending' = Append(pending, e)
    PROVE  PlaceInv(c)'
<1>0. chan \in Seq(IoCommands) /\ pending \in Seq(Registered)
  BY DEF TypeOK
<1>1. (Holds(chan', c) <=> Holds(chan, c)) /\ (Once(chan, c) => Once(chan', c))
  <2>1. CASE chan' = chan
    BY <2>1
  <2>2. CASE \E m \in IoCommands : m.req # c /\ chan' = Append(chan, m)
    <3>1. PICK m \in IoCommands : m.req # c /\ chan' = Append(chan, m)
      BY <2>2
    <3> QED BY <1>0, <3>1, HoldsAppend
  <2>3. CASE chan # <<>> /\ Head(chan).req # c /\ chan' = Tail(chan)
    BY <1>0, <2>3, HoldsTail, Zenon
  <2> QED BY <2>1, <2>2, <2>3
<1>2. (Holds(pending', c) <=> Holds(pending, c)) /\ (Once(pending, c) => Once(pending', c))
  <2>1. CASE pending' = pending
    BY <2>1
  <2>2. CASE \E e \in Registered : e.req # c /\ pending' = Append(pending, e)
    <3>1. PICK e \in Registered : e.req # c /\ pending' = Append(pending, e)
      BY <2>2
    <3> QED BY <1>0, <3>1, HoldsAppend
  <2> QED BY <2>1, <2>2
<1> QED BY <1>1, <1>2 DEF PlaceInv

\* The facade and the refresher: a command is enqueued once, and withdrawn only for
\* its own caller.
LEMMA PlaceFacade ==
    ASSUME TypeOK, NEW c \in Calls, PlaceInv(c), Facade \/ Refresher
    PROVE  PlaceInv(c)'
<1> USE DEF FacadeFrame, queueVars
<1>0. /\ chan \in Seq(IoCommands) /\ pending \in Seq(Registered) /\ session \in Nat
      /\ call \in [Requests -> Statuses] /\ Calls \subseteq Requests
      /\ c \notin Controls /\ c \notin Visus /\ c # None
  BY RequestsAssumption DEF TypeOK, Requests
<1>1. ASSUME NEW d \in Calls, call[d] = "idle", Enqueue("encrypted", d, "waiting"), FacadeFrame
      PROVE  PlaceInv(c)'
  <2>0. pending' = pending
    BY <1>1
  <2>1. CASE rx = "closed"
    <3>1. chan' = chan /\ call' = [call EXCEPT ![d] = "gone"]
      BY <1>1, <2>1 DEF Enqueue
    <3>2. CASE c = d
      BY <1>0, <1>1, <2>0, <3>1, <3>2 DEF PlaceInv
    <3>3. CASE c # d
      BY <1>0, <2>0, <3>1, <3>3 DEF PlaceInv
    <3> QED BY <3>2, <3>3
  <2>2. CASE rx # "closed"
    <3>1. /\ chan' = Append(chan, IoCommand("encrypted", d))
          /\ call' = [call EXCEPT ![d] = "waiting"]
      BY <1>1, <2>2 DEF Enqueue
    <3>2. IoCommand("encrypted", d) \in IoCommands /\ IoCommand("encrypted", d).req = d
      BY <1>0, IoCommandTypes DEF IoCommand
    <3>3. CASE c = d
      <4>1. ~Holds(chan, c) /\ ~Holds(pending, c) /\ Once(chan, c) /\ Once(pending, c)
        BY <1>1, <3>3 DEF PlaceInv
      <4>2. Holds(chan', c) /\ Once(chan', c)
        BY <1>0, <3>1, <3>2, <3>3, <4>1, HoldsAppend, Zenon
      <4>3. call'[c] = "waiting"
        BY <1>0, <3>1, <3>3
      <4> QED BY <2>0, <4>1, <4>2, <4>3 DEF PlaceInv
    <3>4. CASE c # d
      <4>1. call'[c] = call[c]
        BY <1>0, <3>1, <3>4
      <4> QED BY <2>0, <3>1, <3>2, <3>4, <4>1, ForeignStep
    <3> QED BY <3>3, <3>4
  <2> QED BY <2>1, <2>2
<1>2. CASE \E d \in Commands : SendCommand(d)
  BY <1>1, <1>2 DEF SendCommand, Calls
<1>3. CASE \E d \in Refreshes : SendRefresh(d)
  BY <1>1, <1>3 DEF SendRefresh, Calls
<1>4. ASSUME NEW r \in Controls \cup Visus, NEW how,
             call' = [call EXCEPT ![r] = how], UNCHANGED pending,
             \/ chan' = chan
             \/ \E op : IoCommand(op, r) \in IoCommands /\ chan' = Append(chan, IoCommand(op, r))
      PROVE  PlaceInv(c)'
  <2>1. call'[c] = call[c] /\ c # r
    BY <1>0, <1>4
  <2>2. \A op : IoCommand(op, r).req # c
    BY <2>1 DEF IoCommand
  <2> QED BY <1>4, <2>1, <2>2, ForeignStep
<1>5. ASSUME NEW r \in Controls \cup Visus, NEW op, Enqueue(op, r, "accepted"),
             IoCommand(op, r) \in IoCommands, UNCHANGED pending
      PROVE  PlaceInv(c)'
  BY <1>4, <1>5, Zenon DEF Enqueue
<1>6. CASE \E r \in Controls \cup Visus : SendControl(r)
  <2>1. PICK r \in Controls \cup Visus : SendControl(r)
    BY <1>6
  <2>2. UNCHANGED pending
    BY <2>1 DEF SendControl
  <2>3. CASE live
    <3> DEFINE op == IF r \in Visus THEN "visu" ELSE "control"
    <3>1. Enqueue(op, r, "accepted") /\ IoCommand(op, r) \in IoCommands
      BY <1>0, <2>1, <2>3, IoCommandTypes DEF SendControl
    <3> HIDE DEF op
    <3> QED BY <1>5, <2>2, <3>1
  <2>4. CASE ~live
    BY <1>4, <2>1, <2>2, <2>4 DEF SendControl
  <2> QED BY <2>3, <2>4
<1>7. CASE \E r \in Controls : TrySendControl(r)
  <2>1. PICK r \in Controls : TrySendControl(r)
    BY <1>7
  <2>2. UNCHANGED pending /\ IoCommand("control", r) \in IoCommands
    BY <1>0, <2>1, IoCommandTypes DEF TrySendControl
  <2>3. CASE live /\ Len(chan) < ChanDepth
    BY <1>5, <2>1, <2>2, <2>3 DEF TrySendControl
  <2>4. CASE ~(live /\ Len(chan) < ChanDepth)
    BY <1>4, <2>1, <2>2, <2>4 DEF TrySendControl
  <2> QED BY <2>3, <2>4
<1>8. CASE \E r \in Impatient : Cancel(r)
  <2>1. PICK r \in Impatient : Cancel(r)
    BY <1>8
  <2>2. /\ call' = [call EXCEPT ![r] = "cancelled"] /\ chan' = Withdraw({}, {r})
        /\ pending' = pending /\ InProgress(call, r)
    BY <2>1 DEF Cancel
  <2>3. /\ Once(chan, c) => Once(chan', c)
        /\ Holds(chan', c) => Holds(chan, c)
        /\ Holds(chan, c) => Holds(chan', c) \/ c = r
    BY <1>0, <2>2, HoldsWithdraw
  <2>4. call'[c] = IF c = r THEN "cancelled" ELSE call[c]
    BY <1>0, <2>2
  <2> QED BY <2>2, <2>3, <2>4 DEF PlaceInv
<1>9. CASE Stop \/ RefresherGivesUp
  <2>1. /\ call' = call /\ pending' = pending
        /\ \/ chan' = chan
           \/ chan' = Append(chan, IoCommand("stop", None))
           \/ chan' = Append(chan, IoCommand("drop", None))
    BY <1>9 DEF Stop, RefresherGivesUp, callVars
  <2>2. /\ IoCommand("stop", None) \in IoCommands /\ IoCommand("stop", None).req # c
        /\ IoCommand("drop", None) \in IoCommands /\ IoCommand("drop", None).req # c
    BY <1>0, IoCommandTypes DEF IoCommand
  <2> QED BY <2>1, <2>2, ForeignStep
<1> QED BY <1>2, <1>3, <1>6, <1>7, <1>8, <1>9 DEF Facade, Refresher

\* A dropped receiver tells the callers that wait for a command on it, and no others.
LEMMA DropsWaiting ==
    ASSUME chan \in Seq(IoCommands), NEW f \in [Requests -> Statuses], NEW c \in Calls
    PROVE  DropReceiver(f)[c] = IF Holds(chan, c) /\ f[c] = "waiting" THEN "gone" ELSE f[c]
<1>1. c \in ReqsOf(chan) <=> Holds(chan, c)
  BY HoldsReqs
<1>2. InProgress(f, c) <=> f[c] = "waiting"
  BY DEF InProgress
<1>3. c \in DOMAIN f
  BY DEF Requests
<1> QED BY <1>1, <1>2, <1>3 DEF DropReceiver

\* The writer: a command moves from the channel to the pending queue, or its caller is
\* told that it does not; an expired waiter is told, too.
LEMMA PlaceWriter ==
    ASSUME TypeOK, NEW c \in Calls, PlaceInv(c), Writer \/ Flush
    PROVE  PlaceInv(c)'
<1> USE DEF callVars, queueVars
<1>0. /\ chan \in Seq(IoCommands) /\ pending \in Seq(Registered) /\ out \in Seq(WriterMsgs)
      /\ call \in [Requests -> Statuses] /\ c \in Requests
      /\ c \notin Controls /\ c \notin Visus /\ c # None
  BY RequestsAssumption DEF TypeOK, Requests
<1>s. ASSUME UNCHANGED <<call, chan, pending>> PROVE PlaceInv(c)'
  BY <1>s DEF PlaceInv
<1>1. CASE OnWriterMsg
  <2>1. call' = call /\ chan' = chan
    BY <1>1 DEF OnWriterMsg, PrepareCommand
  <2>2. pending' = pending \/ (Head(out).verb = "ios" /\ pending' = Append(pending, Head(out)))
    BY <1>1 DEF OnWriterMsg, PrepareCommand
  <2>3. Head(out).verb = "ios" => Head(out) \in Registered /\ Head(out).req # c
    <3>1. Head(out) \in WriterMsgs
      BY <1>0, <1>1 DEF OnWriterMsg
    <3> QED BY <1>0, <3>1 DEF WriterMsgs, Registered
  <2> QED BY <2>1, <2>2, <2>3, ForeignStep
<1>2. CASE OnEncrypted
  <2> DEFINE d == Head(chan).req
  <2>1. /\ chan # <<>> /\ chan' = Tail(chan) /\ d \in Calls
        /\ Once(chan, c) => Once(chan', c)
        /\ Holds(chan', c) => Holds(chan, c)
        /\ Holds(chan, c) => Holds(chan', c) \/ d = c
        /\ Once(chan, c) /\ d = c => ~Holds(chan', c)
        /\ d = c => Holds(chan, c)
    <3>1. TakeCommand("encrypted")
      BY <1>2 DEF OnEncrypted
    <3>2. chan # <<>> /\ chan' = Tail(chan) /\ d \in Calls
      BY <3>1, TakeCommandType DEF TakeCommand
    <3> QED BY <1>0, <3>2, HoldsTail
  <2>2. CASE AtLimit
    <3>1. call' = Complete(call, {d}, "busy") /\ pending' = pending
      BY <1>2, <2>2 DEF OnEncrypted
    <3>2. call'[c] = IF c = d /\ call[c] = "waiting" THEN "busy" ELSE call[c]
      BY <1>0, <3>1 DEF Complete
    <3> HIDE DEF d
    <3> QED BY <2>1, <3>1, <3>2 DEF PlaceInv
  <2>3. CASE ~AtLimit
    <3>1. call' = call /\ pending' = Append(pending, Cmd("command", d))
      BY <1>2, <2>3 DEF OnEncrypted, PrepareCommand
    <3> DEFINE e == Cmd("command", d)
    <3>2. e \in Registered /\ e.req = d
      BY <2>1, CmdTypes DEF Cmd
    <3> HIDE DEF d, e
    <3>3. /\ Holds(pending', c) <=> Holds(pending, c) \/ d = c
          /\ Once(pending, c) /\ ~(Holds(pending, c) /\ d = c) => Once(pending', c)
      <4>1. pending' = Append(pending, e) /\ pending \in Seq(Registered)
        BY <1>0, <3>1 DEF e
      <4> QED BY <3>2, <4>1, HoldsAppend
    <3> QED BY <2>1, <3>1, <3>3 DEF PlaceInv
  <2> QED BY <2>2, <2>3
<1>3. CASE OnControl \/ OnVisuControl
  <2> DEFINE d == Head(chan).req
  <2>1. chan # <<>> /\ chan' = Tail(chan) /\ d # c /\ call' = call
        /\ \E e \in Registered : e.req # c /\ pending' = Append(pending, e)
    <3>1. CASE OnControl
      <4>1. TakeCommand("control") /\ call' = call /\ pending' = Append(pending, Cmd("io", d))
        BY <3>1 DEF OnControl, PrepareCommand
      <4>2. chan # <<>> /\ chan' = Tail(chan) /\ d \in Controls
        BY <4>1, TakeCommandType DEF TakeCommand
      <4>3. Cmd("io", d) \in Registered /\ Cmd("io", d).req # c
        BY <1>0, <4>2, CmdTypes DEF Cmd
      <4> QED BY <1>0, <4>1, <4>2, <4>3
    <3>2. CASE OnVisuControl
      <4>1. /\ TakeCommand("visu") /\ call' = call
            /\ pending' = Append(pending, Cmd("getvisusalt", d))
        BY <3>2 DEF OnVisuControl, PrepareCommand
      <4>2. chan # <<>> /\ chan' = Tail(chan) /\ d \in Visus
        BY <4>1, TakeCommandType DEF TakeCommand
      <4>3. Cmd("getvisusalt", d) \in Registered /\ Cmd("getvisusalt", d).req # c
        BY <1>0, <4>2, CmdTypes, Zenon DEF Cmd
      <4> QED BY <1>0, <4>1, <4>2, <4>3
    <3> QED BY <1>3, <3>1, <3>2
  <2> QED BY <2>1, ForeignStep
<1>4. CASE OnDropSession \/ OnStop
  <2>1. /\ call' = call /\ chan # <<>> /\ chan' = Tail(chan) /\ Head(chan).op \in {"drop", "stop"}
        /\ pending' = pending \/ pending' = Append(pending, Cmd("getkey", None))
    BY <1>4 DEF OnDropSession, OnStop, TakeCommand
  <2>2. Head(chan).req = None
    <3>1. Head(chan) \in IoCommands
      BY <1>0, <2>1
    <3> QED BY <2>1, <3>1 DEF IoCommands
  <2>3. Cmd("getkey", None) \in Registered /\ Cmd("getkey", None).req # c
    BY <1>0, CmdTypes DEF Cmd
  <2> QED BY <1>0, <2>1, <2>2, <2>3, ForeignStep
<1>5. CASE \/ OnKeepaliveTick \/ ExpiryWake \/ WriteFrame \/ KillWrite \/ SayBye \/ Flush
  BY <1>s, <1>5 DEF OnKeepaliveTick, ExpiryWake, WriteFrame, KillWrite, SayBye, Flush
<1>6. CASE ExpirePending
  <2> DEFINE late == ReqsOf(SubSeq(pending, 1, overdue))
  <2>1. /\ chan' = chan /\ pending' = SubSeq(pending, overdue + 1, Len(pending))
        /\ call' = Complete(call, late, "timeout")
    BY <1>6 DEF ExpirePending
  <2>2. call'[c] = IF c \in late /\ call[c] = "waiting" THEN "timeout" ELSE call[c]
    BY <1>0, <2>1 DEF Complete
  <2>3. overdue \in 0 .. Len(pending)
    BY <1>0 DEF TypeOK
  <2>4. /\ Once(pending, c) => Once(pending', c)
        /\ Holds(pending', c) => Holds(pending, c)
        /\ Holds(pending, c) => Holds(pending', c) \/ c \in late
        /\ Once(pending, c) /\ c \in late => ~Holds(pending', c)
        /\ c \in late => Holds(pending, c)
    BY <1>0, <2>1, <2>3, HoldsExpire
  <2> HIDE DEF late
  <2> QED BY <2>1, <2>2, <2>4 DEF PlaceInv
<1>7. CASE KillWait
  <2>1. /\ call' = call /\ chan' = chan
        /\ pending' = pending \/ pending' = Append(pending, Cmd("killtoken", None))
    BY <1>7 DEF KillWait
  <2>2. Cmd("killtoken", None) \in Registered /\ Cmd("killtoken", None).req # c
    BY <1>0, CmdTypes DEF Cmd
  <2> QED BY <2>1, <2>2, ForeignStep
<1>8. CASE Finish
  <2> DEFINE failed == Complete(call, ReqsOf(pending), "closed")
  <2>1. /\ pending' = <<>>
        /\ IF rx = "detached" THEN call' = DropReceiver(failed) /\ chan' = <<>>
           ELSE call' = failed /\ chan' = chan
    BY <1>8 DEF Finish
  <2>2. failed[c] = IF Holds(pending, c) /\ call[c] = "waiting" THEN "closed" ELSE call[c]
    BY <1>0, HoldsReqs DEF Complete
  <2>3. failed \in [Requests -> Statuses]
    BY <1>0, CompleteType DEF Statuses
  <2> HIDE DEF failed
  <2>4. DropReceiver(failed)[c] =
          IF Holds(chan, c) /\ failed[c] = "waiting" THEN "gone" ELSE failed[c]
    BY <1>0, <2>3, DropsWaiting
  <2>5. ~Holds(pending', c) /\ Once(pending', c)
    BY <2>1, HoldsEmpty
  <2>6. CASE rx = "detached"
    <3>1. ~Holds(chan', c) /\ Once(chan', c)
      BY <2>1, <2>6, HoldsEmpty
    <3> QED BY <2>1, <2>2, <2>4, <2>5, <2>6, <3>1 DEF PlaceInv
  <2>7. CASE rx # "detached"
    BY <2>1, <2>2, <2>5, <2>7 DEF PlaceInv
  <2> QED BY <2>6, <2>7
<1> QED BY <1>1, <1>2, <1>3, <1>4, <1>5, <1>6, <1>7, <1>8 DEF Writer

\* The supervisor: an answer completes the oldest waiter, the refresher's commands are
\* cancelled with it, and a receiver that is dropped tells every caller it still had.
LEMMA PlaceSupervisor ==
    ASSUME TypeOK, WireInv, OwnerInv, NEW c \in Calls, PlaceInv(c),
           Supervisor \/ Environment \/ UNCHANGED vars
    PROVE  PlaceInv(c)'
<1> USE DEF callVars, queueVars
<1>0. /\ chan \in Seq(IoCommands) /\ pending \in Seq(Registered)
      /\ call \in [Requests -> Statuses] /\ c \in Requests
  BY DEF TypeOK, Requests
<1>s. ASSUME UNCHANGED <<call, chan, pending>> PROVE PlaceInv(c)'
  BY <1>s DEF PlaceInv
<1>1. CASE OnTextMessage
  <2>1. CASE pending = <<>>
    BY <1>s, <1>1, <2>1 DEF OnTextMessage
  <2>2. CASE pending # <<>>
    <3> DEFINE d == Head(pending).req
    <3>1. /\ chan' = chan /\ pending' = Tail(pending) /\ call' = Complete(call, {d}, "ok")
      BY <1>1, <2>2 DEF OnTextMessage
    <3>2. call'[c] = IF c = d /\ call[c] = "waiting" THEN "ok" ELSE call[c]
      BY <1>0, <3>1 DEF Complete
    <3>3. /\ Once(pending, c) => Once(pending', c)
          /\ Holds(pending', c) => Holds(pending, c)
          /\ Holds(pending, c) => Holds(pending', c) \/ d = c
          /\ Once(pending, c) /\ d = c => ~Holds(pending', c)
          /\ d = c => Holds(pending, c)
      BY <1>0, <2>2, <3>1, HoldsTail
    <3> HIDE DEF d
    <3> QED BY <3>1, <3>2, <3>3 DEF PlaceInv
  <2> QED BY <2>1, <2>2
<1>2. CASE ReaderReturns
  <2>1. /\ call' = Complete(call, Refreshes, "cancelled")
        /\ chan' = Withdraw({"drop"}, Refreshes) /\ pending' = pending
    BY <1>2 DEF ReaderReturns
  <2>2. call'[c] = IF c \in Refreshes /\ call[c] = "waiting" THEN "cancelled" ELSE call[c]
    BY <1>0, <2>1 DEF Complete
  <2>3. /\ Once(chan, c) => Once(chan', c)
        /\ Holds(chan', c) => Holds(chan, c)
        /\ Holds(chan, c) => Holds(chan', c) \/ c \in Refreshes
    BY <1>0, <2>1, HoldsWithdraw
  <2> QED BY <2>1, <2>2, <2>3 DEF PlaceInv
<1>3. CASE EchoClose \/ ReadEnds \/ ReadBreaks
  BY <1>2, <1>3 DEF EchoClose, ReadEnds, ReadBreaks
<1>4. CASE Reconnected
  <2>1. pending = <<>> /\ pending' = <<>> /\ UNCHANGED <<call, chan>>
    BY <1>4 DEF Reconnected, OwnerInv, WireInv
  <2> QED BY <1>s, <2>1
<1>5. CASE SupervisorEnds
  <2>1. CASE rx = "supervisor"
    <3>1. call' = DropReceiver(call) /\ chan' = <<>> /\ pending = <<>> /\ pending' = pending
      BY <1>5, <2>1 DEF SupervisorEnds, SupFrame, OwnerInv, WireInv
    <3>2. call'[c] = IF Holds(chan, c) /\ call[c] = "waiting" THEN "gone" ELSE call[c]
      BY <1>0, <3>1, DropsWaiting
    <3>3. ~Holds(chan', c) /\ Once(chan', c)
      BY <3>1, HoldsEmpty
    <3> QED BY <3>1, <3>2, <3>3 DEF PlaceInv
  <2>2. CASE rx # "supervisor"
    BY <1>s, <1>5, <2>2 DEF SupervisorEnds, SupFrame
  <2> QED BY <2>1, <2>2
<1>6. CASE \/ FlushVisu \/ ForwardSecured \/ OnClose \/ SendShutdown \/ JoinWriter
           \/ JoinTimeout \/ StartHandshake \/ HandshakeFails
  BY <1>s, <1>6 DEF FlushVisu, ForwardSecured, OnClose, SendShutdown, JoinWriter, JoinTimeout,
     StartHandshake, HandshakeFails, SupFrame
<1>7. CASE Answer \/ Ignore \/ Push \/ Leave \/ DeadlinePasses \/ UNCHANGED vars
  BY <1>s, <1>7 DEF Answer, Ignore, Push, Leave, DeadlinePasses, EnvFrame, vars
<1> QED BY <1>1, <1>3, <1>4, <1>5, <1>6, <1>7 DEF Supervisor, Environment

\* The receiver's owner, through every hand-over.
LEMMA OwnerStep == TypeOK /\ OwnerInv /\ [Next]_vars => OwnerInv'
<1> SUFFICES ASSUME TypeOK, OwnerInv, [Next]_vars PROVE OwnerInv'
  OBVIOUS
<1> USE DEF OwnerInv, supVars
<1>1. CASE Facade \/ Refresher
  BY <1>1, Zenon DEF Facade, Refresher, SendCommand, SendControl, TrySendControl, Cancel, Stop,
     SendRefresh, RefresherGivesUp, FacadeFrame
<1>2. CASE Writer \/ Flush
  <2>1. wr # "done" /\ sup' = sup /\ rx' \in {rx, "closed"}
    BY <1>2, Zenon DEF Writer, Flush, OnWriterMsg, OnEncrypted, OnControl, OnVisuControl,
       OnDropSession, OnStop, OnKeepaliveTick, ExpiryWake, WriteFrame, ExpirePending, KillWrite,
       KillWait, SayBye, Finish, WriterFrame, TakeCommand
  <2> QED BY <2>1
<1>3. CASE Supervisor \/ ReadBreaks \/ JoinTimeout
  BY <1>3 DEF Supervisor, OnTextMessage, FlushVisu, ForwardSecured, OnClose, EchoClose, ReadEnds,
     ReadBreaks, ReaderReturns, SendShutdown, JoinWriter, JoinTimeout, StartHandshake,
     Reconnected, HandshakeFails, SupervisorEnds, SupFrame
<1>4. CASE Answer \/ Ignore \/ Push \/ Leave \/ DeadlinePasses \/ UNCHANGED vars
  BY <1>4 DEF Answer, Ignore, Push, Leave, DeadlinePasses, EnvFrame, vars
<1> QED BY <1>1, <1>2, <1>3, <1>4 DEF Next, Environment, Terminated

\* A queue that holds a command of c once holds exactly one.
LEMMA HoldsCount ==
    ASSUME NEW S, NEW s \in Seq(S), NEW c, Once(s, c)
    PROVE  LET at == {i \in DOMAIN s : s[i].req = c} IN
           IF Holds(s, c) THEN Cardinality(at) = 1 ELSE at = {} /\ Cardinality(at) = 0
<1> DEFINE at == {i \in DOMAIN s : s[i].req = c}
<1>0. DOMAIN s = 1 .. Len(s)
  BY LenProperties
<1>1. CASE Holds(s, c)
  <2>1. PICK i \in 1 .. Len(s) : s[i].req = c
    BY <1>1 DEF Holds
  <2>2. at = {i}
    BY <1>0, <2>1 DEF Once
  <2>3. Cardinality({i}) = 1
    BY FS_Singleton, Zenon
  <2> QED BY <1>1, <2>2, <2>3, Zenon
<1>2. CASE ~Holds(s, c)
  <2>1. at = {}
    BY <1>0, <1>2 DEF Holds
  <2> QED BY <1>2, <2>1, FS_EmptySet, Zenon
<1> QED BY <1>1, <1>2

\* Through every interleaving, cancellation, lost writer and reconnect, a waiting
\* caller has its command in exactly one place, and one that was told has it in none.
THEOREM AccountedHolds == Spec => []Accounted
<1>1. Init => AccountInv
  BY HoldsEmpty DEF Init, AccountInv, OwnerInv, PlaceInv, Calls, Requests
<1>2. ASSUME SessionInv, AccountInv, [Next]_vars PROVE AccountInv'
  <2>1. OwnerInv'
    BY <1>2, OwnerStep DEF AccountInv, SessionInv
  <2>2. ASSUME NEW c \in Calls PROVE PlaceInv(c)'
    BY <1>2, PlaceFacade, PlaceWriter, PlaceSupervisor
       DEF AccountInv, SessionInv, Next, Terminated
  <2> QED BY <2>1, <2>2 DEF AccountInv
<1>3. ASSUME TypeOK, AccountInv PROVE Accounted
  <2> SUFFICES ASSUME NEW c \in Calls
               PROVE  /\ call[c] = "waiting" => Cardinality(Queued(c)) + Cardinality(Awaiting(c)) = 1
                      /\ call[c] \in {"ok", "timeout", "closed", "busy", "gone"} =>
                             Queued(c) = {} /\ Awaiting(c) = {}
    BY DEF Accounted
  <2>1. PlaceInv(c) /\ chan \in Seq(IoCommands) /\ pending \in Seq(Registered)
    BY <1>3 DEF AccountInv, TypeOK
  <2>2. IF Holds(chan, c) THEN Cardinality(Queued(c)) = 1
        ELSE Queued(c) = {} /\ Cardinality(Queued(c)) = 0
    <3>1. Once(chan, c)
      BY <2>1 DEF PlaceInv
    <3> QED BY <2>1, <3>1, HoldsCount DEF Queued
  <2>3. IF Holds(pending, c) THEN Cardinality(Awaiting(c)) = 1
        ELSE Awaiting(c) = {} /\ Cardinality(Awaiting(c)) = 0
    <3>1. Once(pending, c)
      BY <2>1 DEF PlaceInv
    <3> QED BY <2>1, <3>1, HoldsCount DEF Awaiting
  <2> QED BY <2>1, <2>2, <2>3 DEF PlaceInv
<1>4. SessionInv => TypeOK
  BY DEF SessionInv
<1> QED BY <1>1, <1>2, <1>3, <1>4, SessionCorrect, PTL DEF Spec

\* The reader acts on an answer of another kind than its waiter's only once the metric
\* has counted it.
KindInv ==
    mismatch \/ /\ \A c \in Calls : reply[c].verb \in {"command", "push"}
                /\ VisuKeyNeverCrosses
                /\ sup = "visu" => got.verb \in {"push", "getvisusalt"}

\* The answer the oldest waiter takes: counted, or of the waiter's kind.
LEMMA KindText ==
    ASSUME TypeOK, KindInv, OnTextMessage, ~mismatch'
    PROVE  KindInv'
<1> DEFINE msg == Head(toClient)
           entry == Head(pending)
<1>0. /\ pending \in Seq(Registered) /\ reply \in [Calls -> Texts] /\ mismatch \in BOOLEAN
      /\ keyed' = keyed
  BY DEF TypeOK, OnTextMessage, callVars
<1>1. CASE pending = <<>>
  <2>1. UNCHANGED <<reply, keyed, mismatch, sup, got>>
    BY <1>1 DEF OnTextMessage, callVars
  <2> QED BY <2>1 DEF KindInv, VisuKeyNeverCrosses
<1>2. CASE pending # <<>>
  <2>1. /\ mismatch' = (mismatch \/ ~ControlMatches(msg, entry))
        /\ reply' = [r \in Calls |-> IF r = entry.req /\ call[r] = "waiting"
                                     THEN msg ELSE reply[r]]
        /\ IF entry.verb = "getvisusalt" THEN sup' = "visu" /\ got' = msg
           ELSE UNCHANGED <<sup, got>>
    BY <1>2 DEF OnTextMessage, FeedsVisu
  <2>2. ~mismatch /\ ControlMatches(msg, entry)
    BY <1>0, <2>1, Zenon
  <2>3. msg.verb \in {"push", entry.verb}
    BY <2>2 DEF ControlMatches
  <2>4. entry \in Registered
    BY <1>0, <1>2
  <2>5. entry.req \in Calls => entry.verb = "command"
    BY <2>4, RequestsAssumption DEF Registered, Requests
  <2> HIDE DEF msg, entry
  <2>6. \A c \in Calls : reply[c].verb \in {"command", "push"}
    BY <2>2 DEF KindInv
  <2>7. \A c \in Calls : reply'[c].verb \in {"command", "push"}
    BY <2>1, <2>3, <2>5, <2>6
  <2>8. VisuKeyNeverCrosses'
    BY <1>0, <2>2 DEF KindInv, VisuKeyNeverCrosses
  <2>9. sup' = "visu" => got'.verb \in {"push", "getvisusalt"}
    BY <2>1, <2>2, <2>3 DEF KindInv
  <2> QED BY <2>7, <2>8, <2>9 DEF KindInv
<1> QED BY <1>1, <1>2

\* Whatever the Miniserver leaves unanswered or pushes, an answer that lands on another
\* kind of waiter, as a late one does, is counted before the caller or flush_visu has it.
THEOREM WrongKindCountedHolds == Spec => []WrongKindCounted
<1>1. Init => KindInv
  BY DEF Init, KindInv, VisuKeyNeverCrosses, NoCmd, Cmd
<1>2. ASSUME TypeOK, KindInv, [Next]_vars PROVE KindInv'
  <2>1. CASE OnTextMessage
    <3>1. CASE mismatch'
      BY <3>1 DEF KindInv
    <3> QED BY <1>2, <2>1, <3>1, KindText
  <2>2. CASE ~OnTextMessage
    <3>1. /\ reply' = reply /\ mismatch' = mismatch
          /\ sup' = "visu" => sup = "visu" /\ got' = got
          /\ keyed' = keyed \/ FlushVisu
      BY <1>2, <2>2, VisuSteps
    <3>2. CASE mismatch
      <4>1. mismatch'
        BY <3>1, <3>2, Zenon
      <4> QED BY <4>1 DEF KindInv
    <3>3. CASE ~mismatch
      <4>1. /\ \A c \in Calls : reply[c].verb \in {"command", "push"}
            /\ VisuKeyNeverCrosses
            /\ sup = "visu" => got.verb \in {"push", "getvisusalt"}
        BY <1>2, <3>3 DEF KindInv
      <4>2. CASE keyed' = keyed
        BY <3>1, <4>1, <4>2 DEF KindInv, VisuKeyNeverCrosses
      <4>3. CASE keyed' # keyed
        <5>1. FlushVisu /\ KeyShaped(got) /\ sup = "visu"
              /\ keyed' = [keyed EXCEPT ![Head(visu)] = got]
          BY <3>1, <4>3 DEF FlushVisu
        <5>2. got.verb = "getvisusalt"
          BY <4>1, <5>1 DEF KeyShaped
        <5>3. \A v \in Visus : keyed'[v] = keyed[v] \/ keyed'[v] = got
          BY <1>2, <5>1 DEF TypeOK
        <5>4. VisuKeyNeverCrosses'
          BY <4>1, <5>2, <5>3 DEF VisuKeyNeverCrosses
        <5> QED BY <3>1, <4>1, <5>4 DEF KindInv
      <4> QED BY <4>2, <4>3
    <3> QED BY <3>2, <3>3
  <2> QED BY <2>1, <2>2
<1>3. KindInv => WrongKindCounted
  BY DEF KindInv, WrongKindCounted
<1>4. SessionInv => TypeOK
  BY DEF SessionInv
<1> QED BY <1>1, <1>2, <1>3, <1>4, SessionCorrect, PTL DEF Spec

-----------------------------------------------------------------------------
(* The limit of max_pending_commands                                        *)

\* The waiters of a queue that count towards the limit.
Limited(s) == {i \in DOMAIN s : s[i].verb = "command"}

\* They are finitely many, and no more than the queue is long.
LEMMA LimitedFinite ==
    ASSUME NEW s \in Seq(Registered)
    PROVE  IsFiniteSet(Limited(s)) /\ Cardinality(Limited(s)) \in Nat
           /\ Cardinality(Limited(s)) <= Len(s)
<1>1. Len(s) \in Nat /\ Limited(s) \in SUBSET (1 .. Len(s))
  BY LenProperties DEF Limited
<1>2. IsFiniteSet(1 .. Len(s)) /\ Cardinality(1 .. Len(s)) = Len(s)
  <2> DEFINE n == Len(s)
  <2>1. 1 \in Int /\ n \in Int
    BY <1>1
  <2> HIDE DEF n
  <2>2. IsFiniteSet(1 .. n) /\ Cardinality(1 .. n) = IF 1 > n THEN 0 ELSE n - 1 + 1
    BY <2>1, FS_Interval, Zenon
  <2>3. n \in Nat
    BY <1>1 DEF n
  <2>4. (IF 1 > n THEN 0 ELSE n - 1 + 1) = n
    BY <2>3
  <2> QED BY <2>2, <2>4 DEF n
<1>3. IsFiniteSet(Limited(s)) /\ Cardinality(Limited(s)) <= Cardinality(1 .. Len(s))
  BY <1>1, <1>2, FS_Subset, Zenon
<1>4. Cardinality(Limited(s)) \in Nat
  BY <1>3, FS_CardinalityType, Zenon
<1> QED BY <1>2, <1>3, <1>4

\* Dropping the k oldest waiters adds none.
LEMMA LimitedDrop ==
    ASSUME NEW s \in Seq(Registered), NEW k \in 0 .. Len(s)
    PROVE  Cardinality(Limited(SubSeq(s, k + 1, Len(s)))) <= Cardinality(Limited(s))
<1> DEFINE t == SubSeq(s, k + 1, Len(s))
           shift == [i \in Limited(t) |-> i + k]
<1>1. /\ Len(t) = Len(s) - k /\ DOMAIN t = 1 .. Len(t) /\ DOMAIN s = 1 .. Len(s)
      /\ \A i \in 1 .. Len(t) : t[i] = s[i + k]
  OBVIOUS
<1> HIDE DEF t
<1>2. \A i \in Limited(t) : i \in Nat /\ i + k \in Limited(s)
  BY <1>1 DEF Limited
<1>3. shift \in Injection(Limited(t), Limited(s))
  BY <1>2 DEF Injection, IsInjective
<1>4. IsFiniteSet(Limited(s))
  BY LimitedFinite
<1> HIDE DEF shift
<1>5. Cardinality(Limited(t)) <= Cardinality(Limited(s))
  BY <1>3, <1>4, FS_Injection, Zenon
<1> QED BY <1>5 DEF t

\* A waiter of another kind does not count.
LEMMA LimitedAppend ==
    ASSUME NEW s \in Seq(Registered), NEW e \in Registered, e.verb # "command"
    PROVE  Limited(Append(s, e)) = Limited(s)
<1>1. /\ DOMAIN Append(s, e) = 1 .. (Len(s) + 1) /\ DOMAIN s = 1 .. Len(s) /\ Len(s) \in Nat
      /\ \A i \in 1 .. Len(s) : Append(s, e)[i] = s[i]
      /\ Append(s, e)[Len(s) + 1] = e
  OBVIOUS
<1> QED BY <1>1 DEF Limited

\* What a step does to the queue: the writer registers a waiter, within the limit if
\* it counts; a prefix is answered or expires; a session's queue goes with it.
LEMMA PendingSteps ==
    ASSUME TypeOK, [Next]_vars
    PROVE  \/ pending' = pending \/ pending' = <<>>
           \/ \E k \in 0 .. Len(pending) : pending' = SubSeq(pending, k + 1, Len(pending))
           \/ \E e \in Registered : /\ pending' = Append(pending, e)
                                    /\ e.verb = "command" => Len(pending) < MaxPending
<1> USE DEF queueVars
<1>0. pending \in Seq(Registered) /\ Len(pending) \in Nat /\ MaxPending \in Nat
  BY BoundsAssumption, LenProperties DEF TypeOK
<1>1. CASE Facade \/ Refresher
  BY <1>1, Zenon DEF Facade, Refresher, SendCommand, SendControl, TrySendControl, Cancel, Stop,
     SendRefresh, RefresherGivesUp, FacadeFrame
<1>2. CASE OnWriterMsg
  <2>1. pending' = pending \/ (Head(out).verb = "ios" /\ pending' = Append(pending, Head(out)))
    BY <1>2 DEF OnWriterMsg, PrepareCommand
  <2>2. Head(out) \in WriterMsgs
    <3>1. out \in Seq(WriterMsgs) /\ out # <<>>
      BY <1>2 DEF OnWriterMsg, TypeOK
    <3> QED BY <3>1
  <2>3. Head(out).verb = "ios" => Head(out) \in Registered /\ Head(out).verb # "command"
    BY <2>2 DEF WriterMsgs, Registered
  <2> QED BY <2>1, <2>3
<1>3. CASE OnEncrypted
  <2>1. CASE AtLimit
    BY <1>3, <2>1 DEF OnEncrypted
  <2>2. CASE ~AtLimit
    <3>1. pending' = Append(pending, Cmd("command", Head(chan).req)) /\ Head(chan).req \in Calls
      BY <1>3, <2>2, TakeCommandType DEF OnEncrypted, PrepareCommand
    <3>2. Cmd("command", Head(chan).req) \in Registered
      BY <3>1, CmdTypes
    <3>3. Len(pending) < MaxPending
      BY <1>0, <2>2 DEF AtLimit
    <3> QED BY <3>1, <3>2, <3>3
  <2> QED BY <2>1, <2>2
<1>4. CASE OnControl
  <2>1. pending' = Append(pending, Cmd("io", Head(chan).req)) /\ Head(chan).req \in Controls
    BY <1>4, TakeCommandType DEF OnControl, PrepareCommand
  <2> QED BY <2>1, CmdTypes DEF Cmd
<1>5. CASE OnVisuControl
  <2>1. pending' = Append(pending, Cmd("getvisusalt", Head(chan).req)) /\ Head(chan).req \in Visus
    BY <1>5, TakeCommandType DEF OnVisuControl, PrepareCommand
  <2> QED BY <2>1, CmdTypes, Zenon DEF Cmd
<1>6. CASE OnStop \/ KillWait
  <2>1. \/ pending' = pending
        \/ pending' = Append(pending, Cmd("getkey", None))
        \/ pending' = Append(pending, Cmd("killtoken", None))
    BY <1>6 DEF OnStop, KillWait
  <2> QED BY <2>1, CmdTypes DEF Cmd
<1>7. CASE ExpirePending
  <2>1. pending' = SubSeq(pending, overdue + 1, Len(pending))
    BY <1>7 DEF ExpirePending
  <2>2. overdue \in 0 .. Len(pending)
    BY <1>0 DEF TypeOK
  <2> QED BY <2>1, <2>2
<1>8. CASE OnTextMessage
  <2>1. CASE pending = <<>>
    BY <1>8, <2>1 DEF OnTextMessage
  <2>2. CASE pending # <<>>
    <3>1. pending' = Tail(pending)
      BY <1>8, <2>2 DEF OnTextMessage
    <3>2. Tail(pending) = SubSeq(pending, 1 + 1, Len(pending)) /\ 1 \in 0 .. Len(pending)
      BY <1>0, <2>2
    <3> QED BY <3>1, <3>2
  <2> QED BY <2>1, <2>2
<1>9. CASE Finish \/ Reconnected
  BY <1>9 DEF Finish, Reconnected
<1>10. CASE \/ OnDropSession \/ OnKeepaliveTick \/ ExpiryWake \/ WriteFrame \/ KillWrite
            \/ SayBye \/ Flush
  BY <1>10 DEF OnDropSession, OnKeepaliveTick, ExpiryWake, WriteFrame, KillWrite, SayBye, Flush
<1>11. CASE \/ FlushVisu \/ ForwardSecured \/ OnClose \/ EchoClose \/ ReadEnds \/ ReadBreaks
            \/ SendShutdown \/ JoinWriter \/ JoinTimeout \/ StartHandshake \/ HandshakeFails
            \/ SupervisorEnds
  BY <1>11 DEF FlushVisu, ForwardSecured, OnClose, EchoClose, ReadEnds, ReadBreaks,
     ReaderReturns, SendShutdown, JoinWriter, JoinTimeout, StartHandshake, HandshakeFails,
     SupervisorEnds, SupFrame
<1>12. CASE Answer \/ Ignore \/ Push \/ Leave \/ DeadlinePasses \/ UNCHANGED vars
  BY <1>12 DEF Answer, Ignore, Push, Leave, DeadlinePasses, EnvFrame, vars
<1> QED BY <1>1, <1>2, <1>3, <1>4, <1>5, <1>6, <1>7, <1>8, <1>9, <1>10, <1>11, <1>12
        DEF Next, Writer, Supervisor, Environment, Terminated

\* However controls, expiries and reconnects change the queue between the check and the
\* next one, no more than max_pending_commands request/response commands wait in it.
THEOREM WaitersBoundedHolds == Spec => []WaitersBounded
<1> DEFINE Bounded == Cardinality(Limited(pending)) <= MaxPending
<1>0. MaxPending \in Nat
  BY BoundsAssumption
<1>e. Limited(<<>>) = {} /\ Cardinality(Limited(<<>>)) = 0
  <2>1. Limited(<<>>) = {}
    BY DEF Limited
  <2> QED BY <2>1, FS_EmptySet, Zenon
<1>1. Init => Bounded
  BY <1>0, <1>e DEF Init
<1>2. ASSUME TypeOK, TypeOK', Bounded, [Next]_vars PROVE Bounded'
  <2>0. /\ pending \in Seq(Registered) /\ pending' \in Seq(Registered)
        /\ Cardinality(Limited(pending)) \in Nat /\ Cardinality(Limited(pending')) \in Nat
        /\ Cardinality(Limited(pending')) <= Len(pending')
    BY <1>2, LimitedFinite DEF TypeOK
  <2>1. CASE pending' = pending \/ pending' = <<>>
    BY <1>0, <1>e, <1>2, <2>1
  <2>2. ASSUME NEW k \in 0 .. Len(pending), pending' = SubSeq(pending, k + 1, Len(pending))
        PROVE  Bounded'
    <3>1. Cardinality(Limited(pending')) <= Cardinality(Limited(pending))
      BY <2>0, <2>2, LimitedDrop
    <3> QED BY <1>0, <1>2, <2>0, <3>1
  <2>3. ASSUME NEW e \in Registered, pending' = Append(pending, e),
               e.verb = "command" => Len(pending) < MaxPending
        PROVE  Bounded'
    <3>1. CASE e.verb # "command"
      <4>1. Limited(pending') = Limited(pending)
        BY <2>0, <2>3, <3>1, LimitedAppend
      <4> QED BY <1>2, <4>1
    <3>2. CASE e.verb = "command"
      <4>1. Len(pending') = Len(pending) + 1 /\ Len(pending) \in Nat
        BY <2>0, <2>3
      <4> QED BY <1>0, <2>0, <2>3, <3>2, <4>1
    <3> QED BY <3>1, <3>2
  <2> QED BY <1>2, <2>1, <2>2, <2>3, PendingSteps
<1>3. Bounded => WaitersBounded
  BY DEF WaitersBounded, Limited
<1> QED BY <1>1, <1>2, <1>3, TypeCorrect, PTL DEF Spec

=============================================================================
