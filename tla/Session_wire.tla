---------------------------- MODULE Session_wire ----------------------------
(***************************************************************************)
(* Proofs that every reachable state of Session is well typed and that the *)
(* queue of waiters and the wire agree on the order of the commands, for   *)
(* every set of requests and every bound, and what a queue holds of one    *)
(* caller.                                                                 *)
(***************************************************************************)
EXTENDS Session, SequenceTheorems, TLAPS

-----------------------------------------------------------------------------
(* Lemmas about the data                                                    *)

\* A prefix agrees with the sequence at each of its positions.
LEMMA PrefixPointwise ==
    ASSUME NEW S, NEW s \in Seq(S), NEW t \in Seq(S)
    PROVE  IsPrefix(s, t) <=> Len(s) <= Len(t) /\ \A i \in 1 .. Len(s) : s[i] = t[i]
BY DEF IsPrefix

\* What the tasks build from the requests is of the kind they exchange.
LEMMA CmdTypes ==
    /\ \A c \in Calls : Cmd("command", c) \in Registered
    /\ \A k \in Controls : Cmd("io", k) \in Registered
    /\ \A v \in Visus : /\ Cmd("getvisusalt", v) \in Registered
                        /\ Cmd("ios", v) \in Registered \cap WriterMsgs
    /\ Cmd("getkey", None) \in Registered /\ Cmd("killtoken", None) \in Registered
    /\ Cmd("echo", None) \in WriterMsgs /\ Cmd("shutdown", None) \in WriterMsgs
BY DEF Cmd, Registered, WriterMsgs

\* What the facade and the refresher put on the command channel are its commands.
LEMMA IoCommandTypes ==
    ASSUME session \in Nat
    PROVE  /\ \A c \in Calls : IoCommand("encrypted", c) \in IoCommands
           /\ \A k \in Controls : IoCommand("control", k) \in IoCommands
           /\ \A v \in Visus : IoCommand("visu", v) \in IoCommands
           /\ IoCommand("drop", None) \in IoCommands /\ IoCommand("stop", None) \in IoCommands
BY DEF IoCommand, IoCommands

\* A command on the channel names a request of its own kind.
LEMMA IoCommandReqs ==
    ASSUME NEW m \in IoCommands
    PROVE  /\ m.op = "encrypted" => m.req \in Calls
           /\ m.op = "control" => m.req \in Controls
           /\ m.op = "visu" => m.req \in Visus
BY DEF IoCommands

\* Completing waiters keeps the type of the callers' statuses.
LEMMA CompleteType ==
    ASSUME NEW f \in [Requests -> Statuses], NEW reqs, NEW how \in Statuses
    PROVE  Complete(f, reqs, how) \in [Requests -> Statuses]
BY DEF Complete

\* Dropping the receiver keeps the type of the callers' statuses.
LEMMA DropReceiverType ==
    ASSUME NEW f \in [Requests -> Statuses]
    PROVE  DropReceiver(f) \in [Requests -> Statuses]
BY DEF DropReceiver, Statuses

\* A sender that gives up leaves a channel of commands behind.
LEMMA WithdrawType ==
    ASSUME chan \in Seq(IoCommands), NEW ops, NEW reqs
    PROVE  Withdraw(ops, reqs) \in Seq(IoCommands)
BY DEF Withdraw, ParkedAt, RemoveAt

-----------------------------------------------------------------------------
(* The commands of a caller in a queue                                      *)

\* A queue holds a command of c, and holds no two.
Holds(s, c) == \E i \in 1 .. Len(s) : s[i].req = c
Once(s, c) == \A i, j \in 1 .. Len(s) : s[i].req = c /\ s[j].req = c => i = j

\* An empty queue holds nothing, and what a queue's requests are.
LEMMA HoldsEmpty == \A c : ~Holds(<<>>, c) /\ Once(<<>>, c)
BY DEF Holds, Once

\* The requests of a queue are those it holds.
LEMMA HoldsReqs == ASSUME NEW S, NEW s \in Seq(S), NEW c PROVE c \in ReqsOf(s) <=> Holds(s, c)
<1>1. DOMAIN s = 1 .. Len(s)
  BY LenProperties
<1> QED BY <1>1 DEF ReqsOf, Holds

\* One more command at the end.
LEMMA HoldsAppend ==
    ASSUME NEW S, NEW s \in Seq(S), NEW x \in S, NEW c
    PROVE  /\ Holds(Append(s, x), c) <=> Holds(s, c) \/ x.req = c
           /\ Once(s, c) /\ ~(Holds(s, c) /\ x.req = c) => Once(Append(s, x), c)
<1> DEFINE t == Append(s, x)
<1>1. /\ Len(s) \in Nat /\ Len(t) = Len(s) + 1 /\ t[Len(s) + 1] = x
      /\ \A i \in 1 .. Len(s) : t[i] = s[i]
  BY AppendProperties, LenProperties
<1> HIDE DEF t
<1>2. Holds(t, c) <=> Holds(s, c) \/ x.req = c
  BY <1>1 DEF Holds
<1>3. Once(s, c) /\ ~(Holds(s, c) /\ x.req = c) => Once(t, c)
  BY <1>1 DEF Holds, Once
<1> QED BY <1>2, <1>3 DEF t

\* What is left of a queue behind its first k commands.
LEMMA HoldsDrop ==
    ASSUME NEW S, NEW s \in Seq(S), NEW k \in 0 .. Len(s), NEW t, NEW c,
           t \in Seq(S), Len(t) = Len(s) - k, \A i \in 1 .. Len(t) : t[i] = s[i + k]
    PROVE  /\ Once(s, c) => Once(t, c)
           /\ Holds(t, c) => Holds(s, c)
           /\ Holds(s, c) => Holds(t, c) \/ \E i \in 1 .. k : s[i].req = c
           /\ Once(s, c) /\ (\E i \in 1 .. k : s[i].req = c) => ~Holds(t, c)
<1>1. Len(s) \in Nat /\ Len(t) \in Nat
  BY LenProperties
<1>2. \A i \in 1 .. Len(t) : i + k \in 1 .. Len(s)
  BY <1>1
<1>3. Once(s, c) => Once(t, c)
  <2> SUFFICES ASSUME Once(s, c), NEW i \in 1 .. Len(t), NEW j \in 1 .. Len(t),
                      t[i].req = c, t[j].req = c
               PROVE  i = j
    BY DEF Once
  <2>1. i + k = j + k
    BY <1>2 DEF Once
  <2> QED BY <1>1, <2>1
<1>4. Holds(t, c) => Holds(s, c)
  BY <1>2, Zenon DEF Holds
<1>5. Holds(s, c) => Holds(t, c) \/ \E i \in 1 .. k : s[i].req = c
  <2> SUFFICES ASSUME NEW i \in 1 .. Len(s), s[i].req = c, ~(i \in 1 .. k) PROVE Holds(t, c)
    BY DEF Holds
  <2>1. i - k \in 1 .. Len(t) /\ (i - k) + k = i
    BY <1>1
  <2> QED BY <2>1, Zenon DEF Holds
<1>6. ASSUME Once(s, c), NEW i \in 1 .. k, s[i].req = c, NEW j \in 1 .. Len(t), t[j].req = c
      PROVE  FALSE
  <2>1. i \in 1 .. Len(s) /\ j + k \in 1 .. Len(s) /\ s[j + k].req = c
    BY <1>1, <1>2, <1>6
  <2>2. i = j + k
    BY <1>6, <2>1 DEF Once
  <2> QED BY <1>1, <2>2
<1>7. Once(s, c) /\ (\E i \in 1 .. k : s[i].req = c) => ~Holds(t, c)
  BY <1>6 DEF Holds
<1> QED BY <1>3, <1>4, <1>5, <1>7

\* The first command leaves.
LEMMA HoldsTail ==
    ASSUME NEW S, NEW s \in Seq(S), s # <<>>, NEW c
    PROVE  /\ Once(s, c) => Once(Tail(s), c)
           /\ Holds(Tail(s), c) => Holds(s, c)
           /\ Holds(s, c) => Holds(Tail(s), c) \/ Head(s).req = c
           /\ Once(s, c) /\ Head(s).req = c => ~Holds(Tail(s), c)
           /\ Head(s).req = c => Holds(s, c)
<1> DEFINE t == Tail(s)
<1>1. /\ Len(s) \in Nat /\ 1 \in 0 .. Len(s) /\ t \in Seq(S) /\ Len(t) = Len(s) - 1
      /\ Head(s) = s[1] /\ \A i \in 1 .. Len(t) : t[i] = s[i + 1]
  BY HeadTailProperties, LenProperties
<1> HIDE DEF t
<1>2. (\E i \in 1 .. 1 : s[i].req = c) <=> Head(s).req = c
  BY <1>1
<1>3. /\ Once(s, c) => Once(t, c)
      /\ Holds(t, c) => Holds(s, c)
      /\ Holds(s, c) => Holds(t, c) \/ \E i \in 1 .. 1 : s[i].req = c
      /\ Once(s, c) /\ (\E i \in 1 .. 1 : s[i].req = c) => ~Holds(t, c)
  BY <1>1, HoldsDrop
<1>4. Head(s).req = c => Holds(s, c)
  BY <1>1 DEF Holds
<1> QED BY <1>2, <1>3, <1>4 DEF t

\* The commands past their deadline leave.
LEMMA HoldsExpire ==
    ASSUME NEW S, NEW s \in Seq(S), NEW k \in 0 .. Len(s), NEW c
    PROVE  LET t == SubSeq(s, k + 1, Len(s)) gone == ReqsOf(SubSeq(s, 1, k)) IN
           /\ Once(s, c) => Once(t, c)
           /\ Holds(t, c) => Holds(s, c)
           /\ Holds(s, c) => Holds(t, c) \/ c \in gone
           /\ Once(s, c) /\ c \in gone => ~Holds(t, c)
           /\ c \in gone => Holds(s, c)
<1> DEFINE t == SubSeq(s, k + 1, Len(s)) h == SubSeq(s, 1, k)
<1>1. Len(s) \in Nat /\ \A i \in 1 .. Len(s) : s[i] \in S
  BY LenProperties, ElementOfSeq
<1>2. t \in Seq(S) /\ Len(t) = Len(s) - k /\ \A i \in 1 .. Len(t) : t[i] = s[i + k]
  BY <1>1, SubSeqProperties
<1>3. h \in Seq(S) /\ Len(h) = k /\ \A i \in 1 .. k : h[i] = s[i]
  BY <1>1, SubSeqProperties
<1> HIDE DEF t, h
<1>4. c \in ReqsOf(h) <=> \E i \in 1 .. k : s[i].req = c
  BY <1>3, HoldsReqs DEF Holds
<1>5. (\E i \in 1 .. k : s[i].req = c) => Holds(s, c)
  BY <1>1 DEF Holds
<1>6. /\ Once(s, c) => Once(t, c)
      /\ Holds(t, c) => Holds(s, c)
      /\ Holds(s, c) => Holds(t, c) \/ \E i \in 1 .. k : s[i].req = c
      /\ Once(s, c) /\ (\E i \in 1 .. k : s[i].req = c) => ~Holds(t, c)
  BY <1>2, HoldsDrop
<1>7. /\ Holds(s, c) => Holds(t, c) \/ c \in ReqsOf(h)
      /\ Once(s, c) /\ c \in ReqsOf(h) => ~Holds(t, c)
      /\ c \in ReqsOf(h) => Holds(s, c)
  BY <1>4, <1>5, <1>6, Zenon
<1> QED BY <1>6, <1>7, Zenon DEF t, h

\* A command in the middle leaves.
LEMMA HoldsRemove ==
    ASSUME NEW S, NEW s \in Seq(S), NEW k \in 1 .. Len(s), NEW c
    PROVE  /\ Once(s, c) => Once(RemoveAt(s, k), c)
           /\ Holds(RemoveAt(s, k), c) => Holds(s, c)
           /\ Holds(s, c) => Holds(RemoveAt(s, k), c) \/ s[k].req = c
<1> DEFINE a == SubSeq(s, 1, k - 1) b == SubSeq(s, k + 1, Len(s)) t == RemoveAt(s, k)
<1>1. Len(s) \in Nat /\ \A i \in 1 .. Len(s) : s[i] \in S
  BY LenProperties, ElementOfSeq
<1>2. a \in Seq(S) /\ Len(a) = k - 1 /\ \A i \in 1 .. (k - 1) : a[i] = s[i]
  BY <1>1, SubSeqProperties
<1>3. b \in Seq(S) /\ Len(b) = Len(s) - k /\ \A i \in 1 .. (Len(s) - k) : b[i] = s[i + k]
  BY <1>1, SubSeqProperties
<1>4. t = a \o b
  BY DEF RemoveAt
<1> HIDE DEF a, b, t
<1>5. /\ Len(t) = Len(s) - 1
      /\ \A i \in 1 .. (k - 1) : t[i] = s[i]
      /\ \A i \in k .. (Len(s) - 1) : t[i] = s[i + 1]
  <2>1. /\ Len(t) = Len(a) + Len(b)
        /\ \A i \in 1 .. (Len(a) + Len(b)) : t[i] = IF i <= Len(a) THEN a[i] ELSE b[i - Len(a)]
    BY <1>2, <1>3, <1>4, ConcatProperties, Zenon
  <2>2. Len(t) = Len(s) - 1
    BY <1>1, <1>2, <1>3, <2>1
  <2>3. ASSUME NEW i \in 1 .. (k - 1) PROVE t[i] = s[i]
    <3>1. i \in 1 .. (Len(a) + Len(b)) /\ i <= Len(a)
      BY <1>1, <1>2, <1>3
    <3>2. t[i] = a[i]
      BY <2>1, <3>1
    <3> QED BY <1>2, <3>2
  <2>4. ASSUME NEW i \in k .. (Len(s) - 1) PROVE t[i] = s[i + 1]
    <3>1. i \in 1 .. (Len(a) + Len(b)) /\ ~(i <= Len(a)) /\ i - Len(a) \in 1 .. (Len(s) - k)
          /\ (i - Len(a)) + k = i + 1
      BY <1>1, <1>2, <1>3
    <3> QED BY <1>3, <2>1, <3>1, Zenon
  <2> QED BY <2>2, <2>3, <2>4
<1> DEFINE from(i) == IF i < k THEN i ELSE i + 1
<1>6. \A i \in 1 .. Len(t) : from(i) \in 1 .. Len(s) /\ t[i] = s[from(i)]
  BY <1>1, <1>5
<1>7. \A i, j \in 1 .. Len(t) : from(i) = from(j) => i = j
  BY <1>1, <1>5
<1> HIDE DEF from
<1>8. Once(s, c) => Once(t, c)
  BY <1>6, <1>7 DEF Once
<1>9. Holds(t, c) => Holds(s, c)
  BY <1>6 DEF Holds
<1>10. Holds(s, c) => Holds(t, c) \/ s[k].req = c
  <2> SUFFICES ASSUME NEW i \in 1 .. Len(s), s[i].req = c, i # k PROVE Holds(t, c)
    BY DEF Holds
  <2>1. CASE i < k
    <3>1. i \in 1 .. Len(t) /\ t[i] = s[i]
      BY <1>1, <1>5, <2>1
    <3> QED BY <3>1 DEF Holds
  <2>2. CASE ~(i < k)
    <3>1. i - 1 \in 1 .. Len(t) /\ t[i - 1] = s[(i - 1) + 1] /\ (i - 1) + 1 = i
      BY <1>1, <1>5, <2>2
    <3> QED BY <3>1 DEF Holds
  <2> QED BY <2>1, <2>2
<1> QED BY <1>8, <1>9, <1>10 DEF t

\* A parked sender that is dropped takes no command of another caller with it.
LEMMA HoldsWithdraw ==
    ASSUME chan \in Seq(IoCommands), NEW ops \in SUBSET {"drop"}, NEW reqs, NEW c \in Calls
    PROVE  /\ Once(chan, c) => Once(Withdraw(ops, reqs), c)
           /\ Holds(Withdraw(ops, reqs), c) => Holds(chan, c)
           /\ Holds(chan, c) => Holds(Withdraw(ops, reqs), c) \/ c \in reqs
<1>1. CASE ParkedAt(ops, reqs) = {}
  BY <1>1 DEF Withdraw
<1>2. CASE ParkedAt(ops, reqs) # {}
  <2>1. PICK k \in ParkedAt(ops, reqs) : Withdraw(ops, reqs) = RemoveAt(chan, k)
    BY <1>2, Zenon DEF Withdraw
  <2>2. /\ k \in 1 .. Len(chan) /\ chan[k] \in IoCommands
        /\ chan[k].op \in ops \/ chan[k].req \in reqs
    BY <2>1, LenProperties, ElementOfSeq DEF ParkedAt
  <2>3. chan[k].op = "drop" => chan[k].req = None
    BY <2>2 DEF IoCommands
  <2>4. chan[k].req = c => c \in reqs
    BY <2>2, <2>3, RequestsAssumption, Zenon DEF Requests
  <2> QED BY <2>1, <2>2, <2>4, HoldsRemove
<1> QED BY <1>1, <1>2

-----------------------------------------------------------------------------
(* Type correctness                                                         *)

\* A command that is enqueued, or refused by a closed channel.
LEMMA EnqueueType ==
    ASSUME call \in [Requests -> Statuses], chan \in Seq(IoCommands),
           NEW op, NEW r \in Requests, NEW status \in Statuses,
           IoCommand(op, r) \in IoCommands, Enqueue(op, r, status)
    PROVE  call' \in [Requests -> Statuses] /\ chan' \in Seq(IoCommands)
<1>1. CASE rx = "closed"
  BY <1>1 DEF Enqueue, Statuses
<1>2. CASE rx # "closed"
  <2>1. call' = [call EXCEPT ![r] = status] /\ chan' = Append(chan, IoCommand(op, r))
    BY <1>2 DEF Enqueue
  <2> QED BY <2>1
<1> QED BY <1>1, <1>2

\* A facade step changes callers' statuses and the channel, nothing else.
LEMMA FacadeFrameType ==
    ASSUME TypeOK, FacadeFrame, call' \in [Requests -> Statuses], chan' \in Seq(IoCommands)
    PROVE  TypeOK'
BY DEF TypeOK, FacadeFrame, queueVars, supVars, wireVars

\* The steps of the facade and of the refresher keep the types.
LEMMA TypeFacade ==
    ASSUME TypeOK, Facade \/ Refresher
    PROVE  TypeOK'
<1>0. /\ session \in Nat /\ call \in [Requests -> Statuses] /\ chan \in Seq(IoCommands)
      /\ "waiting" \in Statuses /\ "accepted" \in Statuses /\ "refused" \in Statuses
      /\ "cancelled" \in Statuses
  BY DEF TypeOK, Statuses
<1>1. ASSUME NEW c \in Calls, Enqueue("encrypted", c, "waiting"), FacadeFrame PROVE TypeOK'
  BY <1>0, <1>1, IoCommandTypes, EnqueueType, FacadeFrameType DEF Requests
<1>2. ASSUME NEW c \in Commands, SendCommand(c) PROVE TypeOK'
  BY <1>1, <1>2 DEF SendCommand, Calls
<1>3. ASSUME NEW r \in Controls \cup Visus, SendControl(r) PROVE TypeOK'
  <2>1. CASE live /\ r \in Visus
    BY <1>0, <1>3, <2>1, IoCommandTypes, EnqueueType, FacadeFrameType DEF SendControl, Requests
  <2>2. CASE live /\ r \notin Visus
    BY <1>0, <1>3, <2>2, IoCommandTypes, EnqueueType, FacadeFrameType DEF SendControl, Requests
  <2>3. CASE ~live
    BY <1>0, <1>3, <2>3, FacadeFrameType DEF SendControl, Requests
  <2> QED BY <2>1, <2>2, <2>3
<1>4. ASSUME NEW r \in Controls, TrySendControl(r) PROVE TypeOK'
  <2>1. CASE live /\ Len(chan) < ChanDepth
    BY <1>0, <1>4, <2>1, IoCommandTypes, EnqueueType, FacadeFrameType DEF TrySendControl, Requests
  <2>2. CASE ~(live /\ Len(chan) < ChanDepth)
    BY <1>0, <1>4, <2>2, FacadeFrameType DEF TrySendControl, Requests
  <2> QED BY <2>1, <2>2
<1>5. ASSUME NEW r \in Impatient, Cancel(r) PROVE TypeOK'
  BY <1>0, <1>5, WithdrawType, FacadeFrameType DEF Cancel
<1>6. CASE Stop
  BY <1>0, <1>6, IoCommandTypes DEF TypeOK, Stop, callVars, queueVars, supVars, wireVars
<1>7. ASSUME NEW r \in Refreshes, SendRefresh(r) PROVE TypeOK'
  BY <1>1, <1>7 DEF SendRefresh, Calls
<1>8. CASE RefresherGivesUp
  BY <1>0, <1>8, IoCommandTypes DEF TypeOK, RefresherGivesUp, callVars, queueVars, wireVars
<1> QED BY <1>2, <1>3, <1>4, <1>5, <1>6, <1>7, <1>8 DEF Facade, Refresher

\* A registered command is a frame that expects an answer.
LEMMA RegisteredFrames ==
    ASSUME NEW cmd \in Registered
    PROVE  cmd # NoCmd /\ cmd.verb \notin Unregistered
BY DEF Registered, NoCmd, Cmd, Unregistered

\* Registering a command and handing its frame to the write.
LEMMA PrepareType ==
    ASSUME TypeOK, NEW cmd \in Registered, PrepareCommand(cmd), WriterFrame,
           UNCHANGED <<reply, keyed, mismatch, overdue, stopped, toServer>>,
           chan' \in Seq(IoCommands), visu' \in Seq(Visus), Len(visu') <= 1,
           out' \in Seq(WriterMsgs), Len(out') <= OutDepth
    PROVE  TypeOK'
<1>1. /\ pending' = Append(pending, cmd) /\ pending \in Seq(Registered)
      /\ overdue \in Nat /\ overdue <= Len(pending)
  BY DEF TypeOK, PrepareCommand
<1>2. pending' \in Seq(Registered) /\ overdue' <= Len(pending')
  BY <1>1
<1>3. call' = call /\ wout' \in Registered /\ wout' # NoCmd /\ wr' = "write"
  BY RegisteredFrames DEF PrepareCommand
<1> QED BY <1>2, <1>3 DEF TypeOK, WriterFrame, supVars

\* A command taken from the channel is the channel's oldest.
LEMMA TakeCommandType ==
    ASSUME TypeOK, NEW op, TakeCommand(op)
    PROVE  /\ chan' \in Seq(IoCommands)
           /\ op = "encrypted" => Head(chan).req \in Calls
           /\ op = "control" => Head(chan).req \in Controls
           /\ op = "visu" => Head(chan).req \in Visus
<1>1. chan' \in Seq(IoCommands) /\ Head(chan) \in IoCommands /\ Head(chan).op = op
  BY DEF TypeOK, TakeCommand
<1> QED BY <1>1, IoCommandReqs

\* What a write adds to the wire is a registered command or nothing.
LEMMA OnWireType ==
    ASSUME TypeOK, wr \in {"write", "killWrite"}
    PROVE  toServer \o OnWire(wout) \in Seq(Registered)
<1>1. wout \in Registered \/ wout.verb \in Unregistered
  BY DEF TypeOK, Unregistered, Cmd
<1>2. OnWire(wout) \in Seq(Registered)
  BY <1>1 DEF OnWire
<1> QED BY <1>2 DEF TypeOK

\* The steps of the writer keep the types.
LEMMA TypeWriter ==
    ASSUME TypeOK, Writer \/ Flush
    PROVE  TypeOK'
<1> USE DEF WriterFrame, callVars, queueVars, supVars, wireVars
<1>0. /\ call \in [Requests -> Statuses] /\ pending \in Seq(Registered)
      /\ overdue \in Nat /\ overdue <= Len(pending)
      /\ out \in Seq(WriterMsgs) /\ Len(out) <= OutDepth
      /\ visu \in Seq(Visus) /\ Len(visu) <= 1
      /\ {"busy", "timeout", "closed"} \subseteq Statuses
  BY DEF TypeOK, Statuses
<1>1. CASE OnWriterMsg
  <2>1. /\ out # <<>> /\ out' = Tail(out) /\ Head(out) \in WriterMsgs
        /\ out' \in Seq(WriterMsgs) /\ Len(out') <= OutDepth
    BY <1>0, <1>1, BoundsAssumption DEF OnWriterMsg
  <2>2. CASE Head(out).verb = "shutdown" /\ wr' = "finish" /\ UNCHANGED <<call, pending, wout>>
    BY <1>1, <2>1, <2>2 DEF TypeOK, OnWriterMsg
  <2>3. CASE Head(out).verb = "echo" /\ wr' = "write" /\ wout' = Head(out) /\ UNCHANGED <<call, pending>>
    <3>1. wout' = Cmd("echo", None) /\ wout' # NoCmd
      BY <2>1, <2>3 DEF WriterMsgs, Cmd, NoCmd
    <3> QED BY <1>1, <2>1, <2>3, <3>1 DEF TypeOK, OnWriterMsg
  <2>4. CASE Head(out).verb = "ios" /\ PrepareCommand(Head(out))
    <3>1. Head(out) \in Registered
      BY <2>1, <2>4 DEF WriterMsgs, Registered
    <3>2. chan' \in Seq(IoCommands)
      BY <1>1 DEF OnWriterMsg, TypeOK
    <3> QED BY <1>0, <1>1, <2>1, <2>4, <3>1, <3>2, PrepareType DEF OnWriterMsg
  <2> QED BY <1>1, <2>2, <2>3, <2>4 DEF OnWriterMsg
<1>2. CASE OnEncrypted
  <2> DEFINE c == Head(chan).req
  <2>1. chan' \in Seq(IoCommands) /\ c \in Calls
    BY <1>2, TakeCommandType DEF OnEncrypted
  <2>2. CASE AtLimit
    <3>1. call' \in [Requests -> Statuses]
      BY <1>0, <1>2, <2>2, CompleteType DEF OnEncrypted
    <3>2. /\ wr' = "expire" /\ UNCHANGED <<pending, wout, reply, keyed, mismatch, overdue>>
          /\ UNCHANGED <<visu, out, stopped, toServer, rx, supVars, toClient, server>>
      BY <1>2, <2>2 DEF OnEncrypted
    <3> QED BY <2>1, <3>1, <3>2 DEF TypeOK
  <2>3. CASE ~AtLimit
    BY <1>0, <1>2, <2>1, <2>3, CmdTypes, PrepareType DEF OnEncrypted
  <2> QED BY <2>2, <2>3
<1>3. CASE OnControl
  BY <1>0, <1>3, TakeCommandType, CmdTypes, PrepareType DEF OnControl
<1>4. CASE OnVisuControl
  <2>1. chan' \in Seq(IoCommands) /\ Head(chan).req \in Visus
    BY <1>4, TakeCommandType DEF OnVisuControl
  <2>2. visu' \in Seq(Visus) /\ Len(visu') <= 1
    <3>1. visu \in Seq(Visus) /\ Len(visu) <= 1 /\ visu' = PushVisu(visu, Head(chan).req)
      BY <1>4 DEF OnVisuControl, TypeOK
    <3>2. CASE visu = <<>>
      BY <2>1, <3>1, <3>2 DEF PushVisu
    <3>3. CASE visu # <<>>
      BY <2>1, <3>1, <3>3 DEF PushVisu
    <3> QED BY <3>2, <3>3
  <2> QED BY <1>0, <1>4, <2>1, <2>2, CmdTypes, PrepareType DEF OnVisuControl
<1>5. CASE OnDropSession
  BY <1>5, TakeCommandType DEF OnDropSession, TypeOK
<1>6. CASE OnStop
  <2>1. chan' \in Seq(IoCommands)
    BY <1>6, TakeCommandType DEF OnStop
  <2>2. CASE wr' = "bye" /\ UNCHANGED <<pending, wout>>
    BY <1>6, <2>1, <2>2 DEF OnStop, TypeOK
  <2>3. CASE /\ pending' = Append(pending, Cmd("getkey", None))
             /\ wout' = Cmd("getkey", None) /\ wr' = "killWrite"
    <3>1. pending' \in Seq(Registered) /\ overdue <= Len(pending') /\ wout' \in Registered
      BY <1>0, <2>3, CmdTypes
    <3> QED BY <1>6, <2>1, <2>3, <3>1, RegisteredFrames DEF OnStop, TypeOK
  <2> QED BY <1>6, <2>2, <2>3 DEF OnStop
<1>7. CASE OnKeepaliveTick
  <2>1. Cmd("keepalive", None) # NoCmd
    BY DEF Cmd, NoCmd
  <2> QED BY <1>7, <2>1 DEF OnKeepaliveTick, TypeOK
<1>8. CASE ExpiryWake \/ SayBye \/ Flush
  BY <1>8 DEF ExpiryWake, SayBye, Flush, TypeOK
<1>9. CASE WriteFrame
  <2>1. wr' \in {"expire", "finish"} /\ wout' = NoCmd /\ toServer' \in Seq(Registered)
    BY <1>9, OnWireType DEF WriteFrame, TypeOK
  <2> QED BY <1>9, <2>1 DEF WriteFrame, TypeOK
<1>10. CASE ExpirePending
  <2>1. call' \in [Requests -> Statuses]
    BY <1>0, <1>10, CompleteType DEF ExpirePending
  <2>2. pending' \in Seq(Registered) /\ overdue' = 0 /\ overdue' <= Len(pending')
    BY <1>0, <1>10 DEF ExpirePending
  <2> QED BY <1>10, <2>1, <2>2 DEF ExpirePending, TypeOK
<1>11. CASE KillWrite
  <2>1. wr' \in {"killWait", "bye"} /\ toServer' \in Seq(Registered)
    BY <1>11, OnWireType DEF KillWrite, TypeOK
  <2> QED BY <1>11, <2>1 DEF KillWrite, TypeOK
<1>12. CASE KillWait
  <2>0. UNCHANGED <<callVars, chan, overdue, visu, out, stopped, toServer>> /\ WriterFrame
    BY <1>12, Zenon DEF KillWait
  <2>1. CASE wr' = "bye" /\ UNCHANGED <<pending, wout>>
    <3>1. wr' = "bye" /\ wout' = wout /\ pending' = pending
      BY <2>1
    <3> QED BY <2>0, <3>1 DEF TypeOK
  <2>2. CASE /\ pending' = Append(pending, Cmd("killtoken", None))
             /\ wout' = Cmd("killtoken", None) /\ wr' = "killWrite"
    <3>1. pending' \in Seq(Registered) /\ overdue <= Len(pending') /\ wout' \in Registered
      BY <1>0, <2>2, CmdTypes
    <3>2. wout' # NoCmd /\ wr' = "killWrite"
      BY <2>2, <3>1, RegisteredFrames
    <3> QED BY <2>0, <3>1, <3>2 DEF TypeOK
  <2> QED BY <1>12, <2>1, <2>2 DEF KillWait
<1>13. CASE Finish
  <2>1. Complete(call, ReqsOf(pending), "closed") \in [Requests -> Statuses]
    BY <1>0, CompleteType
  <2>2. call' \in [Requests -> Statuses] /\ chan' \in Seq(IoCommands)
        /\ rx' \in {"writer", "supervisor", "detached", "closed"}
    <3>1. CASE rx = "detached"
      BY <1>13, <2>1, <3>1, DropReceiverType DEF Finish
    <3>2. CASE rx # "detached"
      BY <1>13, <2>1, <3>2 DEF Finish, TypeOK
    <3> QED BY <3>1, <3>2
  <2> QED BY <1>13, <2>2 DEF Finish, TypeOK
<1> QED BY <1>1, <1>2, <1>3, <1>4, <1>5, <1>6, <1>7, <1>8, <1>9, <1>10, <1>11, <1>12, <1>13
        DEF Writer

\* What out_tx.send leaves in the reader-to-writer channel.
LEMMA SendOutType ==
    ASSUME out \in Seq(WriterMsgs), Len(out) <= OutDepth, NEW msg \in WriterMsgs, SendOut(msg)
    PROVE  out' \in Seq(WriterMsgs) /\ Len(out') <= OutDepth
<1>1. CASE out' = out
  BY <1>1
<1>2. CASE Len(out) < OutDepth /\ out' = Append(out, msg)
  BY <1>2, BoundsAssumption
<1> QED BY <1>1, <1>2 DEF SendOut

\* The end of the read loop keeps the types.
LEMMA ReaderReturnsType ==
    ASSUME TypeOK, ReaderReturns, out' \in Seq(WriterMsgs), Len(out') <= OutDepth
    PROVE  TypeOK'
<1>1. call' \in [Requests -> Statuses]
  BY CompleteType DEF ReaderReturns, TypeOK, Statuses
<1>2. chan' \in Seq(IoCommands)
  BY WithdrawType DEF ReaderReturns, TypeOK
<1>3. /\ sup' = "shutdown" /\ gaveUp' \in BOOLEAN /\ live' \in BOOLEAN
      /\ server' = "silent" /\ toServer' = <<>> /\ toClient' = <<>>
      /\ UNCHANGED <<reply, keyed, mismatch, rx, queueVars, wr, wout, got, session, stopped>>
  BY DEF ReaderReturns, TypeOK
<1> QED BY <1>1, <1>2, <1>3 DEF TypeOK, queueVars

\* What a step that leaves the tasks alone has to keep.
LEMMA EnvFrameType ==
    ASSUME TypeOK, EnvFrame, overdue' \in Nat, overdue' <= Len(pending),
           toServer' \in Seq(Registered), toClient' \in Seq(Texts),
           server' \in {"up", "closed", "silent"}
    PROVE  TypeOK'
<1>1. UNCHANGED <<call, reply, keyed, mismatch, chan, rx, pending, visu, out, wr, wout, sup, got,
                  live, session, gaveUp, stopped>>
  BY DEF EnvFrame, callVars, supVars
<1>2. /\ call' \in [Requests -> Statuses] /\ reply' \in [Calls -> Texts]
      /\ keyed' \in [Visus -> Texts] /\ mismatch' \in BOOLEAN
      /\ chan' \in Seq(IoCommands) /\ rx' \in {"writer", "supervisor", "detached", "closed"}
  BY <1>1 DEF TypeOK
<1>3. /\ pending' \in Seq(Registered) /\ overdue' <= Len(pending')
      /\ visu' \in Seq(Visus) /\ Len(visu') <= 1
      /\ out' \in Seq(WriterMsgs) /\ Len(out') <= OutDepth
  BY <1>1 DEF TypeOK
<1>4. /\ wr' \in {"select", "write", "expire", "killWrite", "killWait", "bye", "flush",
                   "finish", "done"}
      /\ wout' \in Registered \cup {NoCmd, Cmd("keepalive", None), Cmd("echo", None)}
      /\ wr' \in {"write", "killWrite"} => wout' # NoCmd
  BY <1>1 DEF TypeOK
<1>5. /\ sup' \in {"read", "visu", "forward", "echo", "shutdown", "join", "between",
                    "handshake", "ended"}
      /\ got' \in Texts /\ (sup' = "forward" => got' \in WriterMsgs)
      /\ live' \in BOOLEAN /\ stopped' \in BOOLEAN /\ session' \in Nat /\ gaveUp' \in BOOLEAN
  BY <1>1 DEF TypeOK
<1> QED BY <1>2, <1>3, <1>4, <1>5 DEF TypeOK

\* What a step of the read loop behind a text has to keep: the waiting controls, the key
\* and its place, and the channel to the writer.
LEMMA ReadFrameType ==
    ASSUME TypeOK,
           UNCHANGED <<call, reply, mismatch, chan, rx, pending, overdue, wr, wout, live,
                       session, gaveUp, stopped, toServer, toClient, server>>,
           keyed' \in [Visus -> Texts], visu' \in Seq(Visus), Len(visu') <= 1,
           out' \in Seq(WriterMsgs), Len(out') <= OutDepth,
           sup' \in {"read", "forward", "echo"}, got' \in Texts,
           sup' = "forward" => got' \in WriterMsgs
    PROVE  TypeOK'
<1>1. /\ call' \in [Requests -> Statuses] /\ reply' \in [Calls -> Texts] /\ mismatch' \in BOOLEAN
      /\ chan' \in Seq(IoCommands) /\ rx' \in {"writer", "supervisor", "detached", "closed"}
  BY DEF TypeOK
<1>2. pending' \in Seq(Registered) /\ overdue' \in Nat /\ overdue' <= Len(pending')
  BY DEF TypeOK
<1>3. /\ wr' \in {"select", "write", "expire", "killWrite", "killWait", "bye", "flush",
                   "finish", "done"}
      /\ wout' \in Registered \cup {NoCmd, Cmd("keepalive", None), Cmd("echo", None)}
      /\ wr' \in {"write", "killWrite"} => wout' # NoCmd
  BY DEF TypeOK
<1>4. /\ live' \in BOOLEAN /\ stopped' \in BOOLEAN /\ session' \in Nat /\ gaveUp' \in BOOLEAN
      /\ toServer' \in Seq(Registered) /\ toClient' \in Seq(Texts)
      /\ server' \in {"up", "closed", "silent"}
  BY DEF TypeOK
<1>5. sup' \in {"read", "visu", "forward", "echo", "shutdown", "join", "between",
                "handshake", "ended"}
  OBVIOUS
<1> QED BY <1>1, <1>2, <1>3, <1>4, <1>5 DEF TypeOK

\* The steps of the supervisor between two sessions: what SupFrame does not fix.
LEMMA SupFrameType ==
    ASSUME TypeOK, SupFrame, call' \in [Requests -> Statuses], chan' \in Seq(IoCommands),
           rx' \in {"writer", "supervisor", "detached", "closed"},
           out' \in Seq(WriterMsgs), Len(out') <= OutDepth, live' \in BOOLEAN,
           sup' \in {"join", "between", "handshake", "ended"}
    PROVE  TypeOK'
<1>1. UNCHANGED <<reply, keyed, mismatch, pending, overdue, visu, wr, wout, got, session,
                  gaveUp, stopped, toServer, toClient, server>>
  BY DEF SupFrame, queueVars, wireVars
<1>2. /\ reply' \in [Calls -> Texts] /\ keyed' \in [Visus -> Texts] /\ mismatch' \in BOOLEAN
      /\ session' \in Nat /\ gaveUp' \in BOOLEAN /\ stopped' \in BOOLEAN
  BY <1>1 DEF TypeOK
<1>3. /\ pending' \in Seq(Registered) /\ overdue' \in Nat /\ overdue' <= Len(pending')
      /\ visu' \in Seq(Visus) /\ Len(visu') <= 1
      /\ toServer' \in Seq(Registered) /\ toClient' \in Seq(Texts)
      /\ server' \in {"up", "closed", "silent"}
  BY <1>1 DEF TypeOK
<1>4. /\ wr' \in {"select", "write", "expire", "killWrite", "killWait", "bye", "flush",
                   "finish", "done"}
      /\ wout' \in Registered \cup {NoCmd, Cmd("keepalive", None), Cmd("echo", None)}
      /\ wr' \in {"write", "killWrite"} => wout' # NoCmd
  BY <1>1 DEF TypeOK
<1>5. /\ got' \in Texts /\ (sup' = "forward" => got' \in WriterMsgs)
      /\ sup' \in {"read", "visu", "forward", "echo", "shutdown", "join", "between",
                    "handshake", "ended"}
  BY <1>1 DEF TypeOK
<1> QED BY <1>2, <1>3, <1>4, <1>5 DEF TypeOK

\* The steps of the reader and the supervisor keep the types.
LEMMA TypeSupervisor ==
    ASSUME TypeOK, Supervisor \/ ReadBreaks \/ JoinTimeout
    PROVE  TypeOK'
<1> USE DEF callVars, queueVars, supVars, wireVars, SupFrame
<1>0. /\ call \in [Requests -> Statuses] /\ pending \in Seq(Registered)
      /\ overdue \in Nat /\ overdue <= Len(pending)
      /\ out \in Seq(WriterMsgs) /\ Len(out) <= OutDepth
      /\ toClient \in Seq(Texts) /\ reply \in [Calls -> Texts] /\ got \in Texts
      /\ visu \in Seq(Visus) /\ keyed \in [Visus -> Texts] /\ mismatch \in BOOLEAN
      /\ NoCmd \in Texts /\ Registered \subseteq Texts
  BY DEF TypeOK, Texts
<1>1. CASE OnTextMessage
  <2> DEFINE msg == Head(toClient)
             entry == Head(pending)
  <2>1. msg \in Texts /\ toClient' \in Seq(Texts)
    BY <1>0, <1>1 DEF OnTextMessage
  <2>2. CASE pending = <<>> /\ UNCHANGED <<callVars, pending, overdue, sup, got>>
    <3>1. EnvFrame /\ UNCHANGED <<overdue, toServer, server>>
      BY <1>1, <2>2 DEF OnTextMessage, EnvFrame, supVars
    <3>2. toServer \in Seq(Registered) /\ server \in {"up", "closed", "silent"}
      BY DEF TypeOK
    <3> HIDE DEF msg
    <3> QED BY <1>0, <2>1, <3>1, <3>2, EnvFrameType
  <2>3. CASE pending # <<>>
    <3>1. /\ pending' = Tail(pending) /\ overdue' = IF overdue = 0 THEN 0 ELSE overdue - 1
          /\ call' = Complete(call, {entry.req}, "ok")
          /\ reply' = [r \in Calls |-> IF r = entry.req /\ call[r] = "waiting"
                                       THEN msg ELSE reply[r]]
          /\ (sup' = "visu" /\ got' = msg) \/ UNCHANGED <<sup, got>>
          /\ mismatch' \in BOOLEAN /\ UNCHANGED keyed
      BY <1>0, <1>1, <2>3 DEF OnTextMessage
    <3>2. pending' \in Seq(Registered) /\ overdue' \in Nat /\ overdue' <= Len(pending')
      BY <1>0, <2>3, <3>1
    <3>3. call' \in [Requests -> Statuses]
      BY <1>0, <3>1, CompleteType DEF Statuses
    <3>4. reply' \in [Calls -> Texts]
      BY <1>0, <2>1, <3>1
    <3>5. /\ got' \in Texts /\ (sup' = "forward" => got' \in WriterMsgs)
          /\ sup' \in {"read", "visu", "forward", "echo", "shutdown", "join", "between",
                        "handshake", "ended"}
      BY <2>1, <3>1 DEF TypeOK
    <3>6. UNCHANGED <<chan, rx, visu, out, wr, wout, live, session, gaveUp, stopped,
                      toServer, server>>
      BY <1>1 DEF OnTextMessage
    <3>7. mismatch' \in BOOLEAN /\ keyed' \in [Visus -> Texts]
      BY <1>0, <3>1
    <3>8. /\ chan' \in Seq(IoCommands) /\ rx' \in {"writer", "supervisor", "detached", "closed"}
          /\ visu' \in Seq(Visus) /\ Len(visu') <= 1 /\ out' \in Seq(WriterMsgs)
          /\ Len(out') <= OutDepth
      BY <3>6 DEF TypeOK
    <3>9. /\ wr' \in {"select", "write", "expire", "killWrite", "killWait", "bye", "flush",
                       "finish", "done"}
          /\ wout' \in Registered \cup {NoCmd, Cmd("keepalive", None), Cmd("echo", None)}
          /\ wr' \in {"write", "killWrite"} => wout' # NoCmd
      BY <3>6 DEF TypeOK
    <3>10. /\ live' \in BOOLEAN /\ stopped' \in BOOLEAN /\ session' \in Nat /\ gaveUp' \in BOOLEAN
           /\ toServer' \in Seq(Registered) /\ server' \in {"up", "closed", "silent"}
      BY <3>6 DEF TypeOK
    <3> QED BY <2>1, <3>2, <3>3, <3>4, <3>5, <3>7, <3>8, <3>9, <3>10 DEF TypeOK
  <2> QED BY <1>1, <2>2, <2>3 DEF OnTextMessage
<1>2. CASE FlushVisu
  <2>1. CASE visu # <<>> /\ sup' = "forward"
    <3>1. Head(visu) \in Visus
      BY <1>0, <2>1
    <3>2. Cmd("ios", Head(visu)) \in Texts \cap WriterMsgs
      BY <1>0, <3>1, CmdTypes
    <3>3. keyed' \in [Visus -> Texts] /\ sup' = "forward" /\ got' = Cmd("ios", Head(visu))
      BY <1>0, <1>2, <2>1, <3>1 DEF FlushVisu
    <3>4. visu' \in Seq(Visus) /\ Len(visu') <= 1
      BY <1>0, <1>2 DEF FlushVisu
    <3>5. UNCHANGED <<call, reply, mismatch, chan, rx, pending, overdue, out, wr, wout, live,
                      session, gaveUp, stopped, toServer, toClient, server>>
      BY <1>2 DEF FlushVisu
    <3> QED BY <1>0, <3>2, <3>3, <3>4, <3>5, ReadFrameType
  <2>2. CASE sup' = "read"
    <3>1. sup' = "read" /\ got' = NoCmd /\ UNCHANGED keyed
      BY <1>2, <2>2 DEF FlushVisu
    <3>2. visu' \in Seq(Visus) /\ Len(visu') <= 1
      BY <1>0, <1>2 DEF FlushVisu
    <3>3. UNCHANGED <<call, reply, mismatch, chan, rx, pending, overdue, out, wr, wout, live,
                      session, gaveUp, stopped, toServer, toClient, server>>
      BY <1>2 DEF FlushVisu
    <3> QED BY <1>0, <3>1, <3>2, <3>3, ReadFrameType
  <2> QED BY <1>2, <2>1, <2>2 DEF FlushVisu
<1>3. CASE ForwardSecured
  <2>1. out' \in Seq(WriterMsgs) /\ Len(out') <= OutDepth
    BY <1>0, <1>3, SendOutType DEF ForwardSecured, TypeOK
  <2>2. /\ sup' = "read" /\ got' = NoCmd
        /\ UNCHANGED <<call, reply, keyed, mismatch, chan, rx, pending, overdue, visu, wr, wout,
                       live, session, gaveUp, stopped, toServer, toClient, server>>
    BY <1>3 DEF ForwardSecured
  <2>3. Len(visu) <= 1
    BY DEF TypeOK
  <2> QED BY <1>0, <2>1, <2>2, <2>3, ReadFrameType
<1>4. CASE OnClose
  <2>1. /\ sup' = "echo"
        /\ UNCHANGED <<call, reply, keyed, mismatch, chan, rx, pending, overdue, visu, out, wr,
                       wout, got, live, session, gaveUp, stopped, toServer, toClient, server>>
    BY <1>4 DEF OnClose
  <2>2. Len(visu) <= 1
    BY DEF TypeOK
  <2> QED BY <1>0, <2>1, <2>2, ReadFrameType
<1>5. CASE EchoClose
  BY <1>0, <1>5, CmdTypes, SendOutType, ReaderReturnsType DEF EchoClose
<1>6. CASE ReadEnds \/ ReadBreaks
  BY <1>0, <1>6, ReaderReturnsType DEF ReadEnds, ReadBreaks
<1>7. CASE SendShutdown
  <2>1. out' \in Seq(WriterMsgs) /\ Len(out') <= OutDepth
    BY <1>0, <1>7, CmdTypes, SendOutType DEF SendShutdown
  <2>2. SupFrame /\ sup' = "join" /\ UNCHANGED <<call, chan, rx, live>>
    BY <1>7 DEF SendShutdown
  <2> HIDE DEF SupFrame
  <2>3. /\ call' \in [Requests -> Statuses] /\ chan' \in Seq(IoCommands)
        /\ rx' \in {"writer", "supervisor", "detached", "closed"} /\ live' \in BOOLEAN
    BY <2>2 DEF TypeOK
  <2> QED BY <2>1, <2>2, <2>3, SupFrameType
<1>8. CASE JoinWriter \/ JoinTimeout \/ StartHandshake \/ HandshakeFails
  <2>1. /\ SupFrame /\ sup' \in {"between", "handshake"} /\ UNCHANGED <<call, chan, live, out>>
        /\ rx' \in {"supervisor", "detached", rx}
    BY <1>8 DEF JoinWriter, JoinTimeout, StartHandshake, HandshakeFails
  <2> HIDE DEF SupFrame
  <2>2. /\ call' \in [Requests -> Statuses] /\ chan' \in Seq(IoCommands)
        /\ rx' \in {"writer", "supervisor", "detached", "closed"} /\ live' \in BOOLEAN
        /\ out' \in Seq(WriterMsgs) /\ Len(out') <= OutDepth
    BY <2>1 DEF TypeOK
  <2> QED BY <2>1, <2>2, SupFrameType
<1>9. CASE Reconnected
  <2>0. /\ live' = TRUE /\ gaveUp' = FALSE /\ session' = session + 1
        /\ UNCHANGED <<call, reply, keyed, mismatch, chan, got, stopped>>
    BY <1>9 DEF Reconnected
  <2>1. /\ live' \in BOOLEAN /\ gaveUp' \in BOOLEAN /\ stopped' \in BOOLEAN
        /\ mismatch' \in BOOLEAN
    BY <2>0 DEF TypeOK
  <2>2. session' \in Nat
    BY <2>0 DEF TypeOK
  <2>3. /\ pending' \in Seq(Registered) /\ overdue' = 0 /\ Len(pending') = 0
        /\ visu' \in Seq(Visus) /\ Len(visu') = 0 /\ out' \in Seq(WriterMsgs) /\ Len(out') = 0
        /\ toServer' \in Seq(Registered) /\ toClient' \in Seq(Texts)
    BY <1>9 DEF Reconnected
  <2>4. /\ call' \in [Requests -> Statuses] /\ reply' \in [Calls -> Texts]
        /\ keyed' \in [Visus -> Texts] /\ chan' \in Seq(IoCommands) /\ got' \in Texts
    BY <2>0 DEF TypeOK
  <2>5. /\ sup' = "read" /\ wr' = "select" /\ wout' = NoCmd /\ rx' = "writer" /\ server' = "up"
    BY <1>9 DEF Reconnected
  <2>6. /\ overdue' \in Nat /\ overdue' <= Len(pending') /\ Len(visu') <= 1 /\ Len(out') <= OutDepth
    BY <2>3, BoundsAssumption
  <2>7. /\ sup' \in {"read", "visu", "forward", "echo", "shutdown", "join", "between",
                      "handshake", "ended"}
        /\ sup' # "forward" /\ rx' \in {"writer", "supervisor", "detached", "closed"}
        /\ server' \in {"up", "closed", "silent"}
    BY <2>5
  <2>8. /\ wr' \in {"select", "write", "expire", "killWrite", "killWait", "bye", "flush",
                     "finish", "done"}
        /\ wr' \notin {"write", "killWrite"}
        /\ wout' \in Registered \cup {NoCmd, Cmd("keepalive", None), Cmd("echo", None)}
    BY <2>5
  <2> QED BY <2>1, <2>2, <2>3, <2>4, <2>6, <2>7, <2>8 DEF TypeOK
<1>10. CASE SupervisorEnds
  <2>1. call' \in [Requests -> Statuses] /\ chan' \in Seq(IoCommands)
        /\ rx' \in {"writer", "supervisor", "detached", "closed"}
    <3>1. CASE rx = "supervisor"
      <4>1. call' = DropReceiver(call) /\ chan' = <<>> /\ rx' = "closed"
        BY <1>10, <3>1 DEF SupervisorEnds
      <4>2. DropReceiver(call) \in [Requests -> Statuses] /\ <<>> \in Seq(IoCommands)
        BY <1>0, DropReceiverType
      <4> QED BY <4>1, <4>2
    <3>2. CASE rx # "supervisor"
      <4>1. UNCHANGED <<call, chan, rx>>
        BY <1>10, <3>2 DEF SupervisorEnds
      <4> QED BY <4>1 DEF TypeOK
    <3> QED BY <3>1, <3>2
  <2>2. SupFrame /\ sup' = "ended" /\ live' = FALSE /\ out' = out
    BY <1>10 DEF SupervisorEnds
  <2> HIDE DEF SupFrame
  <2> QED BY <1>0, <2>1, <2>2, SupFrameType
<1> QED BY <1>1, <1>2, <1>3, <1>4, <1>5, <1>6, <1>7, <1>8, <1>9, <1>10 DEF Supervisor

\* The steps of the Miniserver and of time keep the types.
LEMMA TypeEnvironment ==
    ASSUME TypeOK, Answer \/ Ignore \/ Push \/ Leave \/ DeadlinePasses
    PROVE  TypeOK'
<1>0. /\ toServer \in Seq(Registered) /\ toClient \in Seq(Texts)
      /\ Registered \subseteq Texts /\ Cmd("push", None) \in Texts
      /\ overdue \in Nat /\ overdue <= Len(pending) /\ server \in {"up", "closed", "silent"}
  BY DEF TypeOK, Texts, NoCmd
<1>1. CASE Answer
  <2>1. toClient' \in Seq(Texts) /\ toServer' \in Seq(Registered)
    BY <1>0, <1>1 DEF Answer
  <2>2. EnvFrame /\ UNCHANGED <<overdue, server>>
    BY <1>1 DEF Answer
  <2> QED BY <1>0, <2>1, <2>2, EnvFrameType
<1>2. CASE Ignore
  <2>1. toServer' \in Seq(Registered)
    BY <1>0, <1>2 DEF Ignore
  <2>2. EnvFrame /\ UNCHANGED <<overdue, toClient, server>>
    BY <1>2 DEF Ignore
  <2> QED BY <1>0, <2>1, <2>2, EnvFrameType
<1>3. CASE Push
  <2>1. toClient' \in Seq(Texts)
    BY <1>0, <1>3 DEF Push
  <2>2. EnvFrame /\ UNCHANGED <<overdue, toServer, server>>
    BY <1>3 DEF Push
  <2> QED BY <1>0, <2>1, <2>2, EnvFrameType
<1>4. CASE Leave
  <2>1. EnvFrame /\ UNCHANGED <<overdue, toClient>> /\ server' \in {"closed", "silent"}
    BY <1>4 DEF Leave
  <2>2. toServer' \in Seq(Registered)
    BY <1>4 DEF Leave
  <2> QED BY <1>0, <2>1, <2>2, EnvFrameType
<1>5. CASE DeadlinePasses
  <2>1. EnvFrame /\ UNCHANGED <<toServer, toClient, server>>
    BY <1>5 DEF DeadlinePasses, wireVars
  <2>2. overdue' \in Nat /\ overdue' <= Len(pending)
    <3>1. overdue' = overdue + 1 /\ overdue < Len(pending) /\ Len(pending) \in Nat
      BY <1>5 DEF DeadlinePasses, TypeOK
    <3> QED BY <1>0, <3>1
  <2> QED BY <1>0, <2>1, <2>2, EnvFrameType
<1> QED BY <1>1, <1>2, <1>3, <1>4, <1>5

\* The first session starts with well-typed variables.
LEMMA TypeInit == Init => TypeOK
<1> SUFFICES ASSUME Init PROVE TypeOK
  OBVIOUS
<1>1. call \in [Requests -> Statuses] /\ reply \in [Calls -> Texts] /\ keyed \in [Visus -> Texts]
  BY DEF Init, Statuses, Texts
<1>2. /\ chan \in Seq(IoCommands) /\ pending \in Seq(Registered) /\ visu \in Seq(Visus)
      /\ out \in Seq(WriterMsgs) /\ toServer \in Seq(Registered) /\ toClient \in Seq(Texts)
      /\ Len(pending) = 0 /\ Len(visu) = 0 /\ Len(out) = 0
  BY DEF Init
<1>3. /\ live \in BOOLEAN /\ gaveUp \in BOOLEAN /\ stopped \in BOOLEAN /\ mismatch \in BOOLEAN
  BY DEF Init
<1>4. /\ sup = "read" /\ wr = "select" /\ wout = NoCmd /\ rx = "writer" /\ server = "up"
      /\ got \in Texts /\ session \in Nat /\ overdue = 0
  BY DEF Init, Texts
<1>5. overdue \in Nat /\ overdue <= Len(pending) /\ Len(visu) <= 1 /\ Len(out) <= OutDepth
  BY <1>2, <1>4, BoundsAssumption
<1> QED BY <1>1, <1>2, <1>3, <1>4, <1>5, Zenon DEF TypeOK

\* One step of any task or of the environment keeps every variable's type.
LEMMA TypeStep == TypeOK /\ [Next]_vars => TypeOK'
<1> SUFFICES ASSUME TypeOK, [Next]_vars PROVE TypeOK'
  OBVIOUS
<1>1. CASE UNCHANGED vars
  <2>1. EnvFrame /\ UNCHANGED <<overdue, toServer, toClient, server>>
    BY <1>1 DEF vars, queueVars, wireVars, EnvFrame
  <2>2. /\ overdue \in Nat /\ overdue <= Len(pending) /\ toServer \in Seq(Registered)
        /\ toClient \in Seq(Texts) /\ server \in {"up", "closed", "silent"}
    BY DEF TypeOK
  <2> QED BY <2>1, <2>2, EnvFrameType
<1>2. CASE Next
  BY <1>1, <1>2, TypeFacade, TypeWriter, TypeSupervisor, TypeEnvironment
     DEF Next, Environment, Terminated
<1> QED BY <1>1, <1>2

\* Every variable keeps its type: no entry is overdue that is not queued, the
\* reader-to-writer channel keeps its depth, VisuQueue holds at most one control,
\* and what the writer writes is a frame.
THEOREM TypeCorrect == Spec => []TypeOK
BY TypeInit, TypeStep, PTL DEF Spec

-----------------------------------------------------------------------------
(* The queue order and the wire order                                       *)

\* Answers under way followed by commands on their way.
Wire == toClient \o toServer

\* WireOrder is not inductive: a deadline that passes while answers are under way
\* would let the expiry overtake them, and a write after the Miniserver has left
\* would put a command back on the wire.
WireInv ==
    /\ wr = "done" => pending = <<>>
    /\ Prompt =>
        /\ server = "up" => overdue = 0
        /\ server # "up" => toServer = <<>>
        /\ overdue > 0 => toClient = <<>>
        /\ server = "up" /\ wr \notin {"bye", "flush", "finish", "done"} => pending = InFlight
        /\ wr # "done" => IsPrefix(Wire, pending)

\* Appending is concatenating one element, on the right.
LEMMA ConcatAppend ==
    ASSUME NEW S, NEW s \in Seq(S), NEW t \in Seq(S), NEW x \in S
    PROVE  s \o <<x>> = Append(s, x) /\ s \o Append(t, x) = Append(s \o t, x)
OBVIOUS

\* An element that moves from the head of one queue to the tail of the one before.
LEMMA ConcatMove ==
    ASSUME NEW S, NEW s \in Seq(S), NEW t \in Seq(S), t # <<>>
    PROVE  Append(s, Head(t)) \o Tail(t) = s \o t
OBVIOUS

\* The head of a concatenation is that of its first part.
LEMMA ConcatTail ==
    ASSUME NEW S, NEW s \in Seq(S), NEW t \in Seq(S), s # <<>>
    PROVE  Head(s \o t) = Head(s) /\ Tail(s \o t) = Tail(s) \o t /\ s \o t # <<>>
OBVIOUS

\* The empty sequence is neutral.
LEMMA ConcatEmpty ==
    ASSUME NEW S, NEW s \in Seq(S)
    PROVE  s \o <<>> = s /\ <<>> \o s = s
OBVIOUS

\* Concatenation is associative.
LEMMA ConcatAssoc ==
    ASSUME NEW S, NEW s \in Seq(S), NEW t \in Seq(S), NEW u \in Seq(S)
    PROVE  (s \o t) \o u = s \o (t \o u)
OBVIOUS

\* A prefix and its sequence agree on the head, and on the tails.
LEMMA PrefixTail ==
    ASSUME NEW S, NEW s \in Seq(S), NEW t \in Seq(S), IsPrefix(s, t), s # <<>>
    PROVE  t # <<>> /\ Head(s) = Head(t) /\ IsPrefix(Tail(s), Tail(t))
<1>1. Len(s) <= Len(t) /\ \A i \in 1 .. Len(s) : s[i] = t[i]
  BY PrefixPointwise
<1>2. Len(s) > 0 /\ Len(Tail(s)) = Len(s) - 1 /\ Len(Tail(t)) = Len(t) - 1
  BY <1>1
<1>3. \A i \in 1 .. Len(Tail(s)) : Tail(s)[i] = s[i + 1] /\ Tail(t)[i] = t[i + 1]
  BY <1>1, <1>2
<1>4. Tail(s) \in Seq(S) /\ Tail(t) \in Seq(S) /\ t # <<>>
  BY <1>1, <1>2
<1>5. IsPrefix(Tail(s), Tail(t))
  <2>1. Len(Tail(s)) <= Len(Tail(t)) /\ \A i \in 1 .. Len(Tail(s)) : Tail(s)[i] = Tail(t)[i]
    BY <1>1, <1>2, <1>3
  <2> QED BY <1>4, <2>1, PrefixPointwise
<1> QED BY <1>1, <1>2, <1>4, <1>5

\* A sequence and the empty one are its prefixes.
LEMMA PrefixReflexive ==
    ASSUME NEW S, NEW s \in Seq(S)
    PROVE  IsPrefix(s, s) /\ IsPrefix(<<>>, s)
BY DEF IsPrefix

\* A prefix stays one when the sequence grows.
LEMMA PrefixAppend ==
    ASSUME NEW S, NEW s \in Seq(S), NEW t \in Seq(S), NEW x \in S, IsPrefix(s, t)
    PROVE  IsPrefix(s, Append(t, x))
<1> DEFINE a == Append(t, x)
<1>1. a \in Seq(S) /\ Len(a) = Len(t) + 1 /\ \A i \in 1 .. Len(t) : a[i] = t[i]
  BY AppendProperties
<1>2. Len(s) <= Len(t) /\ \A i \in 1 .. Len(s) : s[i] = t[i]
  BY PrefixPointwise
<1>3. Len(s) <= Len(a) /\ \A i \in 1 .. Len(s) : s[i] = a[i]
  BY <1>1, <1>2
<1> QED BY <1>1, <1>3, PrefixPointwise

\* The first part of a prefix is a prefix.
LEMMA PrefixOfConcat ==
    ASSUME NEW S, NEW s \in Seq(S), NEW t \in Seq(S), NEW u \in Seq(S), IsPrefix(s \o u, t)
    PROVE  IsPrefix(s, t)
<1> DEFINE c == s \o u
<1>1. c \in Seq(S) /\ Len(c) = Len(s) + Len(u) /\ \A i \in 1 .. Len(s) : c[i] = s[i]
  BY ConcatProperties
<1>2. IsPrefix(c, t)
  OBVIOUS
<1> HIDE DEF c
<1>3. Len(c) <= Len(t) /\ \A i \in 1 .. Len(c) : c[i] = t[i]
  BY <1>1, <1>2, PrefixPointwise
<1>4. Len(s) \in Nat /\ Len(u) \in Nat /\ Len(t) \in Nat
  BY LenProperties
<1>5. Len(s) <= Len(t) /\ \A i \in 1 .. Len(s) : i \in 1 .. Len(c)
  BY <1>1, <1>3, <1>4
<1>6. \A i \in 1 .. Len(s) : s[i] = t[i]
  BY <1>1, <1>3, <1>5
<1> QED BY <1>5, <1>6, PrefixPointwise

\* Of the queues.
LEMMA QueueTypes ==
    ASSUME TypeOK
    PROVE  /\ pending \in Seq(Registered) /\ overdue \in Nat /\ overdue <= Len(pending)
           /\ out \in Seq(WriterMsgs)
BY DEF TypeOK

\* Queue and wire are sequences over one set, as the lemmas above need them.
LEMMA WireTypes ==
    ASSUME TypeOK
    PROVE  /\ pending \in Seq(Texts) /\ toServer \in Seq(Texts) /\ toClient \in Seq(Texts)
           /\ Wire \in Seq(Texts)
<1>1. pending \in Seq(Texts) /\ toServer \in Seq(Texts) /\ toClient \in Seq(Texts)
  BY DEF TypeOK, Texts
<1> QED BY <1>1, ConcatProperties DEF Wire

\* Nothing is being written: the commands in flight are those on the wire.
LEMMA InFlightIdle ==
    ASSUME TypeOK, wr \notin {"write", "killWrite"}
    PROVE  InFlight = Wire
BY WireTypes, ConcatEmpty DEF InFlight, Wire

\* Registering a command and starting to write it keeps the orders together.
LEMMA RegisterWire ==
    ASSUME TypeOK, TypeOK', WireInv, wr \in {"select", "killWait"}, NEW cmd \in Registered,
           pending' = Append(pending, cmd), wout' = cmd, wr' \in {"write", "killWrite"},
           UNCHANGED <<overdue, wireVars>>
    PROVE  WireInv'
<1>1. wr' # "done" /\ wr # "done" /\ cmd \in Texts /\ cmd.verb \notin Unregistered
      /\ UNCHANGED <<overdue, toServer, toClient, server>>
  BY RegisteredFrames DEF Texts, wireVars
<1>2. ASSUME Prompt, server = "up" PROVE pending' = InFlight'
  <2>1. pending = Wire
    BY <1>2, InFlightIdle DEF WireInv
  <2>2. OnWire(wout)' = <<cmd>>
    BY <1>1, <1>2 DEF OnWire
  <2>3. InFlight' = Wire \o <<cmd>>
    BY <1>1, <2>2 DEF InFlight, Wire
  <2> QED BY <1>1, <2>1, <2>3, WireTypes, ConcatAppend
<1>3. ASSUME Prompt PROVE IsPrefix(Wire, pending)'
  BY <1>1, <1>3, WireTypes, PrefixAppend DEF WireInv, Wire
<1> QED BY <1>1, <1>2, <1>3 DEF WireInv

\* Steps that touch neither queue nor wire, and leave the writer outside a write.
LEMMA QuietWire ==
    ASSUME TypeOK, TypeOK', WireInv, UNCHANGED <<pending, overdue, wireVars>>,
           \/ UNCHANGED <<wr, wout>>
           \/ wr \in {"select", "killWait"} /\ wr' \in {"expire", "bye", "finish"}
           \/ wr \in {"write", "killWrite", "bye", "flush"} /\ wr' \in {"bye", "flush", "finish"}
           \/ wr = "select" /\ wr' = "write" /\ wout'.verb \in Unregistered
    PROVE  WireInv'
<1>1. UNCHANGED <<toServer, toClient, server, Wire>>
  BY DEF wireVars, Wire
<1>2. wr' = "done" => wr = "done"
  OBVIOUS
<1>3. ASSUME Prompt, server = "up", wr' \notin {"bye", "flush", "finish", "done"}
      PROVE  pending' = InFlight'
  <2>1. CASE UNCHANGED <<wr, wout>>
    BY <1>1, <1>3, <2>1 DEF WireInv, InFlight, OnWire
  <2>2. CASE wr \in {"select", "killWait"} /\ wr' = "expire"
    BY <1>1, <1>3, <2>2, InFlightIdle, WireTypes, ConcatEmpty DEF WireInv, InFlight, Wire
  <2>3. CASE wr = "select" /\ wr' = "write" /\ wout'.verb \in Unregistered
    <3>1. pending = Wire /\ OnWire(wout)' = <<>>
      BY <1>3, <2>3, InFlightIdle DEF WireInv, OnWire
    <3> QED BY <1>1, <2>3, <3>1, WireTypes, ConcatEmpty DEF InFlight, Wire
  <2> QED BY <1>3, <2>1, <2>2, <2>3
<1> QED BY <1>1, <1>2, <1>3 DEF WireInv

\* What a write adds to the wire is a sequence of commands.
LEMMA OnWireTexts ==
    ASSUME TypeOK
    PROVE  OnWire(wout) \in Seq(Texts)
<1>0. wout \in Registered \cup {NoCmd, Cmd("keepalive", None), Cmd("echo", None)}
  BY Zenon DEF TypeOK
<1>1. wout \in Texts \/ wout.verb \in Unregistered
  BY <1>0 DEF Texts, Unregistered, Cmd
<1> QED BY <1>1 DEF OnWire

\* A frame that has been written moves from the writer to the wire.
LEMMA WrittenWire ==
    ASSUME TypeOK, TypeOK', WireInv, wr \in {"write", "killWrite"},
           wr' \in {"expire", "killWait"}, toServer' = toServer \o OnWire(wout),
           UNCHANGED <<pending, overdue, toClient, server>>
    PROVE  WireInv'
<1>1. CASE server = "up"
  <2>1. OnWire(wout) \in Seq(Texts)
    BY OnWireTexts
  <2>2. InFlight = Wire'
    <3>1. toServer \in Seq(Texts) /\ toClient \in Seq(Texts)
      BY WireTypes
    <3>2. InFlight = (toClient \o toServer) \o OnWire(wout)
      BY DEF InFlight
    <3>3. Wire' = toClient \o (toServer \o OnWire(wout))
      BY DEF Wire
    <3>4. (toClient \o toServer) \o OnWire(wout) = toClient \o (toServer \o OnWire(wout))
      BY <2>1, <3>1, ConcatAssoc
    <3> QED BY <3>2, <3>3, <3>4
  <2>3. InFlight' = Wire'
    <3>1. toServer' \in Seq(Texts)
      BY <2>1, WireTypes, ConcatProperties
    <3>2. Wire' \in Seq(Texts) /\ Wire' = toClient \o toServer'
      BY <3>1, WireTypes, ConcatProperties DEF Wire
    <3>3. InFlight' = Wire' \o <<>>
      BY DEF InFlight, Wire
    <3> QED BY <3>2, <3>3, ConcatEmpty
  <2>4. Prompt => pending' = Wire'
    BY <1>1, <2>2 DEF WireInv
  <2>5. Prompt => IsPrefix(Wire, pending)'
    BY <2>4, WireTypes, PrefixReflexive
  <2> QED BY <1>1, <2>3, <2>4, <2>5 DEF WireInv
<1>2. CASE server # "up"
  <2>1. toServer' = toServer
    BY <1>2, WireTypes, ConcatEmpty DEF OnWire
  <2> QED BY <1>2, <2>1 DEF WireInv, Wire
<1> QED BY <1>1, <1>2

\* The steps of the writer keep queue and wire in order.
LEMMA WireWriter ==
    ASSUME TypeOK, TypeOK', WireInv, Writer \/ Flush
    PROVE  WireInv'
<1> USE DEF WriterFrame, callVars, queueVars, supVars, wireVars
<1>1. CASE OnWriterMsg
  <2>1. Head(out) \in WriterMsgs
    <3>1. out # <<>>
      BY <1>1 DEF OnWriterMsg
    <3> QED BY <3>1, QueueTypes
  <2>2. CASE Head(out).verb = "ios" /\ PrepareCommand(Head(out))
    <3>1. Head(out) \in Registered
      BY <2>1, <2>2 DEF WriterMsgs, Registered
    <3> QED BY <1>1, <2>2, <3>1, RegisterWire DEF OnWriterMsg, PrepareCommand
  <2>3. CASE wr' = "finish" /\ UNCHANGED <<call, pending, wout>>
    BY <1>1, <2>3, QuietWire DEF OnWriterMsg
  <2>4. CASE /\ Head(out).verb = "echo" /\ wr' = "write" /\ wout' = Head(out)
             /\ UNCHANGED <<call, pending>>
    BY <1>1, <2>4, QuietWire DEF OnWriterMsg, Unregistered
  <2> QED BY <1>1, <2>2, <2>3, <2>4 DEF OnWriterMsg
<1>2. CASE OnEncrypted
  <2>1. CASE AtLimit
    BY <1>2, <2>1, QuietWire DEF OnEncrypted, TakeCommand
  <2>2. CASE ~AtLimit
    BY <1>2, <2>2, TakeCommandType, CmdTypes, RegisterWire
       DEF OnEncrypted, PrepareCommand, TakeCommand
  <2> QED BY <2>1, <2>2
<1>3. CASE OnControl
  BY <1>3, TakeCommandType, CmdTypes, RegisterWire DEF OnControl, PrepareCommand, TakeCommand
<1>4. CASE OnVisuControl
  BY <1>4, TakeCommandType, CmdTypes, RegisterWire
     DEF OnVisuControl, PrepareCommand, TakeCommand
<1>5. CASE OnStop
  <2>1. CASE wr' = "bye" /\ UNCHANGED <<pending, wout>>
    BY <1>5, <2>1, QuietWire DEF OnStop, TakeCommand
  <2>2. CASE /\ pending' = Append(pending, Cmd("getkey", None))
             /\ wout' = Cmd("getkey", None) /\ wr' = "killWrite"
    <3>1. wr = "select" /\ UNCHANGED <<overdue, toServer>> /\ WriterFrame
      BY <1>5, Zenon DEF OnStop, TakeCommand, callVars
    <3>2. UNCHANGED <<overdue, wireVars>>
      BY <3>1
    <3>3. Cmd("getkey", None) \in Registered
      BY CmdTypes
    <3>4. wr \in {"select", "killWait"} /\ wr' \in {"write", "killWrite"}
      BY <2>2, <3>1
    <3> HIDE DEF WriterFrame, callVars, queueVars, supVars, wireVars
    <3> QED BY <2>2, <3>2, <3>3, <3>4, RegisterWire
  <2> QED BY <1>5, <2>1, <2>2 DEF OnStop
<1>6. CASE OnDropSession \/ ExpiryWake \/ SayBye \/ Flush
  BY <1>6, QuietWire DEF OnDropSession, TakeCommand, ExpiryWake, SayBye, Flush
<1>7. CASE OnKeepaliveTick
  BY <1>7, QuietWire DEF OnKeepaliveTick, Cmd, Unregistered
<1>8. CASE WriteFrame \/ KillWrite
  BY <1>8, QuietWire, WrittenWire DEF WriteFrame, KillWrite
<1>9. CASE ExpirePending
  <2>1. CASE overdue = 0
    <3>1. pending' = pending /\ overdue' = overdue
      <4>1. pending' = SubSeq(pending, 0 + 1, Len(pending)) /\ overdue' = 0
        BY <1>9, <2>1 DEF ExpirePending
      <4>2. SubSeq(pending, 0 + 1, Len(pending)) = pending
        BY QueueTypes
      <4> QED BY <2>1, <4>1, <4>2
    <3>2. wr = "expire" /\ wr' = "select" /\ UNCHANGED <<wout, wireVars>>
      BY <1>9 DEF ExpirePending
    <3>3. InFlight' = InFlight /\ Wire' = Wire
      BY <3>2 DEF InFlight, Wire
    <3> QED BY <3>1, <3>2, <3>3 DEF WireInv
  <2>2. CASE overdue > 0 /\ Prompt
    <3>1. server # "up" /\ toServer = <<>> /\ toClient = <<>>
      BY <2>2 DEF WireInv
    <3>2. UNCHANGED <<server, toServer, toClient>> /\ overdue' = 0 /\ wr' = "select"
      BY <1>9 DEF ExpirePending
    <3>3. pending' \in Seq(Registered)
      BY DEF TypeOK
    <3>4. Wire' = <<>>
      BY <3>1, <3>2, ConcatEmpty, WireTypes DEF Wire
    <3> QED BY <3>1, <3>2, <3>3, <3>4, PrefixReflexive DEF WireInv
  <2>3. CASE ~Prompt
    BY <1>9, <2>3 DEF ExpirePending, WireInv
  <2>4. overdue = 0 \/ overdue > 0
    BY QueueTypes
  <2> QED BY <2>1, <2>2, <2>3, <2>4
<1>10. CASE KillWait
  <2>1. CASE wr' = "bye" /\ UNCHANGED <<pending, wout>>
    BY <1>10, <2>1, QuietWire DEF KillWait
  <2>2. CASE /\ pending' = Append(pending, Cmd("killtoken", None))
             /\ wout' = Cmd("killtoken", None) /\ wr' = "killWrite"
    <3>1. wr = "killWait" /\ UNCHANGED <<overdue, toServer>> /\ WriterFrame
      BY <1>10, Zenon DEF KillWait, callVars
    <3>2. UNCHANGED <<overdue, wireVars>>
      BY <3>1
    <3>3. Cmd("killtoken", None) \in Registered
      BY CmdTypes
    <3>4. wr \in {"select", "killWait"} /\ wr' \in {"write", "killWrite"}
      BY <2>2, <3>1
    <3> HIDE DEF WriterFrame, callVars, queueVars, supVars, wireVars
    <3> QED BY <2>2, <3>2, <3>3, <3>4, RegisterWire
  <2> QED BY <1>10, <2>1, <2>2 DEF KillWait
<1>11. CASE Finish
  BY <1>11 DEF Finish, WireInv
<1> QED BY <1>1, <1>2, <1>3, <1>4, <1>5, <1>6, <1>7, <1>8, <1>9, <1>10, <1>11 DEF Writer

\* The reader: the oldest answer and the oldest waiter leave together.
LEMMA WireText ==
    ASSUME TypeOK, TypeOK', WireInv, OnTextMessage
    PROVE  /\ WireInv'
           /\ Prompt /\ pending # <<>> => Head(toClient) = Head(pending)
<1>1. toClient # <<>> /\ toClient' = Tail(toClient) /\ UNCHANGED <<toServer, server, wr, wout>>
  BY DEF OnTextMessage
<1>2. Wire # <<>> /\ Head(Wire) = Head(toClient) /\ Wire' = Tail(Wire)
  BY <1>1, WireTypes, ConcatTail DEF Wire
<1>3. CASE Prompt /\ wr # "done"
  <2>1. pending # <<>> /\ Head(Wire) = Head(pending) /\ IsPrefix(Tail(Wire), Tail(pending))
    BY <1>2, <1>3, WireTypes, PrefixTail DEF WireInv
  <2>2. pending' = Tail(pending) /\ overdue = 0 /\ overdue' = 0
    <3>1. overdue = 0
      <4>1. ~(overdue > 0)
        BY <1>1, <1>3 DEF WireInv
      <4> QED BY <4>1, QueueTypes
    <3>2. pending' = Tail(pending) /\ overdue' = IF overdue = 0 THEN 0 ELSE overdue - 1
      BY <2>1 DEF OnTextMessage
    <3> QED BY <3>1, <3>2
  <2>3. ASSUME server = "up", wr \notin {"bye", "flush", "finish"} PROVE pending' = InFlight'
    <3> DEFINE w == IF wr \in {"write", "killWrite"} THEN OnWire(wout) ELSE <<>>
    <3>1. pending = Wire \o w
      BY <1>3, <2>3 DEF WireInv, InFlight, Wire
    <3>2. w \in Seq(Texts)
      BY OnWireTexts
    <3>3. Tail(pending) = Tail(Wire) \o w
      BY <1>2, <3>1, <3>2, WireTypes, ConcatTail
    <3>4. InFlight' = Wire' \o w
      BY <1>1 DEF InFlight, Wire, OnWire
    <3> QED BY <1>2, <2>2, <3>3, <3>4
  <2> QED BY <1>1, <1>2, <1>3, <2>1, <2>2, <2>3 DEF WireInv
<1>4. CASE Prompt /\ wr = "done"
  <2>1. pending = <<>> /\ UNCHANGED <<pending, overdue>> /\ overdue = 0
    <3>1. pending = <<>>
      BY <1>4 DEF WireInv
    <3>2. overdue = 0
      BY <3>1, QueueTypes
    <3> QED BY <3>1, <3>2 DEF OnTextMessage
  <2> QED BY <1>1, <1>4, <2>1 DEF WireInv
<1>5. CASE ~Prompt
  <2>1. pending = <<>> => pending' = <<>>
    BY DEF OnTextMessage
  <2> QED BY <1>1, <1>5, <2>1 DEF WireInv
<1> QED BY <1>3, <1>4, <1>5

\* Every step keeps queue and wire in order.
LEMMA WireStep == TypeOK /\ TypeOK' /\ WireInv /\ [Next]_vars => WireInv'
<1> SUFFICES ASSUME TypeOK, TypeOK', WireInv, [Next]_vars PROVE WireInv'
  OBVIOUS
<1> USE DEF callVars, queueVars, supVars, wireVars
<1>1. CASE UNCHANGED <<pending, overdue, wr, wout, wireVars>>
  BY <1>1, QuietWire
<1>2. CASE Facade \/ Refresher \/ UNCHANGED vars
  BY <1>1, <1>2 DEF Facade, Refresher, SendCommand, SendControl, TrySendControl, Cancel, Stop,
     SendRefresh, RefresherGivesUp, FacadeFrame, vars
<1>3. CASE Writer \/ Flush
  BY <1>3, WireWriter
<1>4. CASE OnTextMessage
  BY <1>4, WireText
<1>5. CASE \/ FlushVisu \/ ForwardSecured \/ OnClose \/ SendShutdown \/ JoinWriter
           \/ JoinTimeout \/ StartHandshake \/ HandshakeFails \/ SupervisorEnds
  BY <1>1, <1>5 DEF FlushVisu, ForwardSecured, OnClose, SendShutdown, JoinWriter, JoinTimeout,
     StartHandshake, HandshakeFails, SupervisorEnds, SupFrame
<1>6. CASE ReaderReturns
  <2>1. /\ server' = "silent" /\ toServer' = <<>> /\ toClient' = <<>>
        /\ UNCHANGED <<pending, overdue, wr, wout>>
    BY <1>6 DEF ReaderReturns
  <2>2. Wire' = <<>>
    BY <2>1, ConcatEmpty, WireTypes DEF Wire
  <2>3. overdue' > 0 => toClient' = <<>>
    BY <2>1
  <2>4. IsPrefix(Wire', pending')
    BY <2>1, <2>2, WireTypes, PrefixReflexive
  <2> QED BY <2>1, <2>3, <2>4 DEF WireInv
<1>7. CASE EchoClose \/ ReadEnds \/ ReadBreaks
  BY <1>6, <1>7 DEF EchoClose, ReadEnds, ReadBreaks
<1>8. CASE Reconnected
  <2>1. /\ pending' = <<>> /\ overdue' = 0 /\ wr' = "select" /\ server' = "up"
        /\ toServer' = <<>> /\ toClient' = <<>>
    BY <1>8 DEF Reconnected
  <2>2. Wire' = <<>> /\ InFlight' = <<>>
    BY <2>1, ConcatEmpty, WireTypes DEF Wire, InFlight
  <2>3. IsPrefix(Wire', pending')
    BY <2>1, <2>2 DEF IsPrefix
  <2> QED BY <2>1, <2>2, <2>3 DEF WireInv
<1>9. CASE Answer
  <2>1. /\ toServer # <<>> /\ toServer' = Tail(toServer)
        /\ toClient' = Append(toClient, Head(toServer)) /\ server = "up"
        /\ UNCHANGED <<pending, overdue, wr, wout, server>>
    BY <1>9 DEF Answer, EnvFrame
  <2>2. Wire' = Wire
    BY <2>1, WireTypes, ConcatMove DEF Wire
  <2>3. InFlight' = InFlight
    <3> DEFINE w == IF wr \in {"write", "killWrite"} THEN OnWire(wout) ELSE <<>>
    <3>1. w' = w
      BY <2>1 DEF OnWire
    <3>2. InFlight = Wire \o w /\ InFlight' = Wire' \o w'
      BY Zenon DEF InFlight, Wire
    <3> HIDE DEF w
    <3> QED BY <2>2, <3>1, <3>2, Zenon
  <2>4. /\ pending' = pending /\ overdue' = overdue /\ wr' = wr /\ server' = server
        /\ server = "up"
    BY <2>1
  <2> QED BY <2>2, <2>3, <2>4 DEF WireInv
<1>10. CASE Ignore \/ Push
  BY <1>10 DEF Ignore, Push, EnvFrame, WireInv
<1>11. CASE Leave
  <2>1. /\ server = "up" /\ server' # "up" /\ toServer' = <<>>
        /\ UNCHANGED <<pending, overdue, wr, wout, toClient>>
    BY <1>11 DEF Leave, EnvFrame
  <2>2. Wire' = toClient
    BY <2>1, WireTypes, ConcatEmpty DEF Wire
  <2>3. IsPrefix(Wire, pending) => IsPrefix(toClient, pending)
    BY WireTypes, PrefixOfConcat DEF Wire
  <2> QED BY <2>1, <2>2, <2>3 DEF WireInv, TypeOK
<1>12. CASE DeadlinePasses
  <2>1. UNCHANGED <<pending, wr, wout, wireVars>> /\ (Prompt => server # "up" /\ toClient = <<>>)
    BY <1>12 DEF DeadlinePasses, EnvFrame
  <2>2. Wire' = Wire
    BY <2>1 DEF Wire
  <2> QED BY <2>1, <2>2 DEF WireInv
<1> QED BY <1>2, <1>3, <1>4, <1>5, <1>7, <1>8, <1>9, <1>10, <1>11, <1>12
        DEF Next, Supervisor, Environment, Terminated

\* Queue and wire are empty at first.
LEMMA WireInit == Init => WireInv
<1> SUFFICES ASSUME Init PROVE WireInv
  OBVIOUS
<1>1. TypeOK
  BY TypeInit
<1>2. Wire = <<>> /\ InFlight = <<>>
  BY <1>1, InFlightIdle, WireTypes, ConcatEmpty DEF Init, Wire
<1> QED BY <1>1, <1>2, WireTypes, PrefixReflexive DEF Init, WireInv

\* The inductive invariant implies the order the README promises.
LEMMA WireImplies == WireInv => WireOrder
BY DEF WireInv, WireOrder, Wire

\* The comment of prepare_command holds for every number of requests and every
\* bound: with a punctual Miniserver the pending queue lists the commands in
\* flight in the order of the wire.
THEOREM WireOrderHolds == Spec => []WireOrder
<1>1. Init => TypeOK /\ WireInv
  BY TypeInit, WireInit
<1>2. TypeOK /\ WireInv /\ [Next]_vars => TypeOK' /\ WireInv'
  BY TypeStep, WireStep
<1>3. TypeOK /\ WireInv => WireOrder
  BY WireImplies
<1> QED BY <1>1, <1>2, <1>3, PTL DEF Spec

=============================================================================
