---------------------------- MODULE Link_proofs -----------------------------
(***************************************************************************)
(* Proofs about Link, for every choice of the periods, the limits and the  *)
(* lengths that satisfies the named assumptions of Link.                   *)
(*                                                                         *)
(* CountInv relates the two shared counters to what became of the          *)
(* keepalives, WireInv the reader's expectation to the message under way,  *)
(* PromptInv bounds the reader's wait on a prompt Miniserver, and ShortInv *)
(* the age of the oldest keepalive it has not answered.                    *)
(***************************************************************************)
EXTENDS Link, TLAPS

\* The unanswered keepalives, less the answer record_ack is about to count.
Counted == IF seen > 0 THEN unacked - 1 ELSE unacked

\* An answer is counted at most once, and only an unsolicited one hides a loss.
CountInv ==
    /\ seen > 0 => unacked > 0
    /\ Counted <= owed + lost /\ owed + lost <= Counted + forgiven
    /\ over = "missed" => unacked = MaxMissed

\* Only a stray frame makes the reader miss a header or the payload of an announced
\* message.
WireInv ==
    /\ ~mixed
    /\ ~stray /\ msg.stage # "exact" => expect.kind = "header"
    /\ ~stray /\ msg.stage = "exact" => expect.kind = "payload" /\ expect.len = msg.len
    /\ msg.stage # "none" => msg.len \in Lens

\* How long a prompt Miniserver lets the reader wait.
PromptInv ==
    prompt =>
      /\ ~stray /\ over # "idle"
      /\ msg.stage = "none" /\ over = "no" =>
           /\ expect.len = 0
           /\ owed = 0 => waited <= beat
           /\ owed = 1 => waited = 0 \/ (waited <= Period + beat /\ beat <= Delay)
           /\ owed > 1 => waited = 0
      /\ msg.stage = "estimated" => expect.len = msg.len /\ waited <= Transfer(msg.len) + Delay
      /\ msg.stage = "exact" => waited <= Transfer(msg.len)

\* The time a payload takes is a number of ticks, and an empty one takes none.
LEMMA TransferNat == Transfer(0) = 0 /\ \A n \in Nat : Transfer(n) \in Nat
  BY LinkAssumption, Z3 DEF Transfer

\* What on_data_frame leaves of the expectation and of record_ack's state.
FrameTaken ==
    /\ expect' \in [kind : {"header", "payload"}, len : Nat]
    /\ mixed' \in BOOLEAN
    /\ seen' \in -1..MaxMissed /\ extra' \in 0..MaxExtra /\ forgiven' \in 0..extra'

\* Whatever a frame is taken for, the types are kept.
LEMMA FrameTypes ==
    ASSUME TypeOK
    PROVE  /\ \A n \in Lens : (OnEstimated(n) \/ OnExact(n)) /\ mixed' \in BOOLEAN => FrameTaken
           /\ (Skip \/ TakenForHeader) /\ mixed' \in BOOLEAN => FrameTaken
           /\ \A right \in BOOLEAN : HandOn(right) => FrameTaken
           /\ Unsolicited /\ expect' = START /\ mixed' \in BOOLEAN => FrameTaken
<1> USE LinkAssumption DEF TypeOK
<1>1. Uncounted \/ Unsolicited =>
        seen' \in -1..MaxMissed /\ extra' \in 0..MaxExtra /\ forgiven' \in 0..extra'
  BY DEF Uncounted, Unsolicited
<1>2. START \in [kind : {"header", "payload"}, len : Nat]
  BY DEF START
<1>3. ASSUME NEW n \in Lens, OnEstimated(n) \/ OnExact(n)
      PROVE  expect' \in [kind : {"header", "payload"}, len : Nat] /\ Uncounted
  BY <1>2, <1>3 DEF OnEstimated, OnExact
<1>4. ASSUME NEW right \in BOOLEAN, HandOn(right)
      PROVE  mixed' \in BOOLEAN /\ expect' = START /\ (Uncounted \/ Unsolicited)
  BY <1>4, Zenon DEF HandOn
<1>5. ASSUME Skip \/ TakenForHeader
      PROVE  expect' \in [kind : {"header", "payload"}, len : Nat] /\ (Uncounted \/ Unsolicited)
  BY <1>2, <1>3, <1>5 DEF Skip, TakenForHeader
<1> QED
  BY <1>1, <1>2, <1>3, <1>4, <1>5 DEF FrameTaken

\* Every field keeps its type.
LEMMA TypeStep == TypeOK /\ CountInv /\ [Next]_vars => TypeOK'
<1> SUFFICES ASSUME TypeOK, CountInv, [Next]_vars PROVE TypeOK'
  OBVIOUS
<1> USE LinkAssumption DEF TypeOK, Stages
<1>1. CASE Tick
  BY <1>1 DEF Tick, wireVars, countVars
<1>2. CASE KeepaliveTick
  BY <1>2 DEF KeepaliveTick, wireVars
<1>3. CASE IdleTimeout
  BY <1>3 DEF IdleTimeout, wireVars, countVars
<1>4. ASSUME NEW n \in Lens, ReadEstimated(n) PROVE TypeOK'
  <2>1. msg' \in [stage : Stages, len : Nat] /\ waited' = 0
    BY <1>4 DEF ReadEstimated, Reading
  <2>2. FrameTaken
    <3>1. CASE expect.kind = "header"
      BY <1>4, <3>1, FrameTypes DEF ReadEstimated
    <3>2. CASE expect.kind # "header"
      BY <1>4, <3>2, FrameTypes DEF ReadEstimated
    <3> QED BY <3>1, <3>2
  <2>3. long' \in BOOLEAN
    BY <1>4 DEF ReadEstimated, Announced
  <2> QED BY <1>4, <2>1, <2>2, <2>3 DEF ReadEstimated, FrameTaken
<1>5. ASSUME NEW n \in Lens, ReadExact(n) PROVE TypeOK'
  <2>1. msg' \in [stage : Stages, len : Nat] /\ waited' = 0
    BY <1>5 DEF ReadExact, Reading, Boundary
  <2>2. FrameTaken
    <3>1. CASE expect.kind = "header"
      BY <1>5, <3>1, FrameTypes DEF ReadExact
    <3>2. CASE expect.kind # "header"
      BY <1>5, <3>2, FrameTypes DEF ReadExact
    <3> QED BY <3>1, <3>2
  <2>3. long' \in BOOLEAN /\ stray' \in BOOLEAN
    BY <1>5 DEF ReadExact, Announced
  <2> QED BY <1>5, <2>1, <2>2, <2>3 DEF ReadExact, FrameTaken
<1>6. CASE ReadPayload
  <2>1. FrameTaken
    <3>1. CASE expect.kind = "payload"
      <4>1. (expect.len = msg.len) \in BOOLEAN /\ HandOn(expect.len = msg.len)
        BY <1>6, <3>1 DEF ReadPayload
      <4> QED BY <4>1, FrameTypes
    <3>2. CASE expect.kind = "header"
      <4>1. Skip \/ TakenForHeader
        BY <1>6, <3>2 DEF ReadPayload
      <4>2. mixed' = (mixed \/ ~stray)
        BY <1>6, <3>2 DEF ReadPayload
      <4>3. mixed' \in BOOLEAN
        BY <4>2, Zenon
      <4> QED BY <4>1, <4>3, FrameTypes
    <3> QED BY <3>1, <3>2
  <2>2. msg' \in [stage : Stages, len : Nat] /\ stray' \in BOOLEAN /\ waited' = 0
    BY <1>6 DEF ReadPayload, Reading, Boundary
  <2> QED BY <1>6, <2>1, <2>2 DEF ReadPayload, FrameTaken
<1>7. CASE ReadStray
  <2>1. FrameTaken
    BY <1>7, FrameTypes DEF ReadStray
  <2> QED BY <1>7, <2>1 DEF ReadStray, Reading, FrameTaken
<1>8. CASE ReadControl \/ ReadClose
  BY <1>8 DEF ReadControl, ReadClose, Reading, wireVars, countVars
<1>9. CASE ReadKeepalive
  <2>1. FrameTaken
    <3>1. CASE expect.kind = "header" /\ expect' = START /\ mixed' = mixed /\ Unsolicited
      BY <3>1, FrameTypes
    <3>2. CASE /\ expect.kind = "header" /\ expect' = START /\ mixed' = mixed
               /\ seen' = unacked /\ UNCHANGED <<forgiven, extra>>
      BY <3>2 DEF FrameTaken, START
    <3>3. CASE HandOn(FALSE)
      BY <3>3, FrameTypes
    <3> QED BY <1>9, <3>1, <3>2, <3>3 DEF ReadKeepalive
  <2>2. waited' = 0
    BY <1>9 DEF ReadKeepalive, Reading
  <2>4. /\ (owed > 0 /\ owed' = owed - 1) \/ owed' = owed
        /\ lost' = lost \/ lost' = lost + 1
    BY <1>9, Zenon DEF ReadKeepalive
  <2>5. owed' \in Nat /\ lost' \in Nat
    BY <2>4
  <2>3. stray' \in BOOLEAN
    BY <1>9, Zenon DEF ReadKeepalive
  <2> QED BY <1>9, <2>1, <2>2, <2>3, <2>5 DEF ReadKeepalive, FrameTaken
<1>10. CASE RecordAck
  BY <1>10 DEF RecordAck, wireVars, CountInv
<1>11. CASE LoseKeepalive
  BY <1>11 DEF LoseKeepalive, wireVars
<1>12. CASE GoDeaf
  BY <1>12 DEF GoDeaf, wireVars, countVars
<1>13. CASE NextSession
  <2>1. /\ expect' \in [kind : {"header", "payload"}, len : Nat]
        /\ msg' \in [stage : Stages, len : Nat]
    BY <1>13 DEF NextSession, Boundary, START
  <2>2. /\ waited' \in Nat /\ beat' \in 0..Period /\ unacked' \in 0..MaxMissed
        /\ seen' \in -1..MaxMissed /\ owed' \in Nat /\ lost' \in Nat
        /\ extra' \in 0..MaxExtra /\ forgiven' \in 0..extra'
    BY <1>13 DEF NextSession
  <2>3. /\ prompt' \in BOOLEAN /\ stray' \in BOOLEAN /\ mixed' \in BOOLEAN
        /\ long' \in BOOLEAN /\ deaf' \in BOOLEAN /\ over' = "no"
    BY <1>13 DEF NextSession
  <2> QED BY <2>1, <2>2, <2>3
<1>14. CASE UNCHANGED vars
  BY <1>14 DEF vars, wireVars, countVars
<1> QED
  BY <1>1, <1>2, <1>3, <1>4, <1>5, <1>6, <1>7, <1>8, <1>9, <1>10, <1>11, <1>12, <1>13,
     <1>14 DEF Next

\* The counters are the true ones through every interleaving of the two tasks.
LEMMA CountStep == TypeOK /\ CountInv /\ [Next]_vars => CountInv'
<1> SUFFICES ASSUME TypeOK, CountInv, [Next]_vars PROVE CountInv'
  OBVIOUS
<1> USE LinkAssumption DEF TypeOK, CountInv, Counted
<1>1. CASE KeepaliveTick
  BY <1>1 DEF KeepaliveTick
<1>2. CASE ReadKeepalive
  <2>1. CASE expect.kind = "header" /\ owed > 0 /\ owed' = owed - 1
             /\ seen' = unacked /\ UNCHANGED <<lost, forgiven>>
    BY <1>2, <2>1 DEF ReadKeepalive, Reading
  <2>2. CASE owed > 0 /\ owed' = owed - 1 /\ lost' = lost + 1 /\ HandOn(FALSE)
    <3>1. Uncounted \/ Unsolicited
      BY <2>2 DEF HandOn
    <3> QED BY <1>2, <2>2, <3>1 DEF ReadKeepalive, Reading, Uncounted, Unsolicited
  <2>3. CASE Unsolicited /\ UNCHANGED <<owed, lost>>
    BY <1>2, <2>3 DEF ReadKeepalive, Reading, Unsolicited
  <2> QED BY <1>2, <2>1, <2>2, <2>3 DEF ReadKeepalive
<1>3. CASE RecordAck
  BY <1>3 DEF RecordAck
<1>4. CASE LoseKeepalive
  BY <1>4 DEF LoseKeepalive
<1>5. CASE NextSession
  BY <1>5 DEF NextSession
<1>6. ASSUME UNCHANGED countVars, over' = over \/ over' \in {"idle", "closed"} PROVE CountInv'
  BY <1>6 DEF countVars
<1>7. ASSUME UNCHANGED <<unacked, owed, lost, over>>, seen = -1, Uncounted \/ Unsolicited
      PROVE  CountInv'
  BY <1>7 DEF Uncounted, Unsolicited
<1>8. ASSUME NEW n \in Lens, ReadEstimated(n) \/ ReadExact(n) PROVE CountInv'
  <2>1. Uncounted \/ Unsolicited
    BY <1>8 DEF ReadEstimated, ReadExact, OnEstimated, OnExact, HandOn
  <2> QED BY <1>7, <1>8, <2>1 DEF ReadEstimated, ReadExact, Reading
<1>9. CASE ReadPayload \/ ReadStray
  <2>1. Uncounted \/ Unsolicited
    BY <1>9 DEF ReadPayload, ReadStray, Skip, TakenForHeader, OnEstimated, OnExact, HandOn
  <2> QED BY <1>7, <1>9, <2>1 DEF ReadPayload, ReadStray, Reading
<1>10. ASSUME Tick \/ IdleTimeout \/ ReadControl \/ ReadClose \/ GoDeaf \/ UNCHANGED vars
      PROVE UNCHANGED countVars /\ (over' = over \/ over' \in {"idle", "closed"})
  BY <1>10 DEF Tick, IdleTimeout, ReadControl, ReadClose, GoDeaf, vars
<1> QED BY <1>1, <1>2, <1>3, <1>4, <1>5, <1>6, <1>8, <1>9, <1>10 DEF Next

\* The reader stays in step with the message under way.
LEMMA WireStep == TypeOK /\ WireInv /\ [Next]_vars => WireInv'
<1> SUFFICES ASSUME TypeOK, WireInv, [Next]_vars PROVE WireInv'
  OBVIOUS
<1> USE DEF TypeOK, WireInv, Stages
<1>0. ASSUME NEW right \in BOOLEAN, HandOn(right), stray \/ right PROVE ~mixed' /\ expect' = START
  BY <1>0 DEF HandOn
<1>1. ASSUME NEW n \in Lens, ReadEstimated(n) PROVE WireInv'
  <2>1. msg' = [stage |-> "estimated", len |-> n] /\ stray' = stray
    BY <1>1 DEF ReadEstimated
  <2>2. CASE expect.kind = "header"
    BY <1>1, <2>1, <2>2 DEF ReadEstimated, OnEstimated
  <2>3. CASE expect.kind = "payload"
    <3>1. stray /\ HandOn(FALSE)
      BY <1>1, <2>3 DEF ReadEstimated, MayAnnounce
    <3> QED BY <1>0, <2>1, <3>1
  <2> QED BY <2>2, <2>3
<1>2. ASSUME NEW n \in Lens, ReadExact(n) PROVE WireInv'
  <2>1. stray' = (stray /\ n # 0) /\ msg' = (IF n = 0 THEN Boundary ELSE [stage |-> "exact", len |-> n])
    BY <1>2 DEF ReadExact
  <2>2. CASE expect.kind = "header"
    <3>1. mixed' = mixed /\ expect' = (IF n = 0 THEN START ELSE [kind |-> "payload", len |-> n])
      BY <1>2, <2>2 DEF ReadExact, OnExact
    <3>2. CASE n = 0
      BY <2>1, <3>1, <3>2 DEF Boundary, START
    <3>3. CASE n # 0
      BY <2>1, <3>1, <3>3
    <3> QED BY <3>2, <3>3
  <2>3. CASE expect.kind = "payload"
    <3>1. stray /\ HandOn(FALSE)
      BY <1>2, <2>3 DEF ReadExact, MayAnnounce
    <3>2. ~mixed' /\ expect' = START
      BY <1>0, <3>1
    <3> QED BY <2>1, <3>1, <3>2 DEF Boundary, START
  <2> QED BY <2>2, <2>3
<1>3. CASE ReadPayload
  <2>0. msg' = Boundary /\ msg.stage = "exact"
    BY <1>3 DEF ReadPayload
  <2>1. CASE expect.kind = "payload"
    <3>1. HandOn(expect.len = msg.len) /\ (expect.len = msg.len) \in BOOLEAN
      BY <1>3, <2>1 DEF ReadPayload
    <3>2. stray \/ expect.len = msg.len
      BY <2>0
    <3>3. ~mixed' /\ expect' = START
      BY <1>0, <3>1, <3>2
    <3> QED BY <2>0, <3>3 DEF Boundary, START
  <2>2. CASE expect.kind = "header"
    <3>1. stray
      BY <2>0, <2>2
    <3>2. ~mixed' /\ (stray' \/ expect' = expect)
      BY <1>3, <2>2, <3>1 DEF ReadPayload, Skip
    <3> QED BY <2>0, <2>2, <3>2 DEF Boundary
  <2> QED BY <2>1, <2>2
<1>4. CASE ReadStray
  <2>1. ~mixed'
    <3>1. CASE expect.kind = "payload"
      BY <1>0, <1>4, <3>1 DEF ReadStray
    <3>2. CASE expect.kind = "header"
      BY <1>4, <3>2 DEF ReadStray
    <3> QED BY <3>1, <3>2
  <2> QED BY <1>4, <2>1 DEF ReadStray
<1>5. CASE ReadKeepalive
  <2>0. msg' = msg /\ msg.stage # "exact" /\ stray' = (stray /\ msg.stage # "none")
    BY <1>5 DEF ReadKeepalive
  <2>1. expect' = START /\ ~mixed'
    <3>1. CASE expect.kind = "header"
      BY <1>5, <3>1 DEF ReadKeepalive
    <3>2. CASE expect.kind = "payload"
      <4>1. stray /\ HandOn(FALSE)
        BY <1>5, <2>0, <3>2 DEF ReadKeepalive
      <4> QED BY <1>0, <4>1
    <3> QED BY <3>1, <3>2
  <2> QED BY <2>0, <2>1 DEF START
<1>6. CASE NextSession
  BY <1>6 DEF NextSession, Boundary, START
<1>7. ASSUME \/ Tick \/ KeepaliveTick \/ IdleTimeout \/ ReadControl \/ ReadClose \/ RecordAck
             \/ LoseKeepalive \/ GoDeaf \/ UNCHANGED vars
      PROVE UNCHANGED wireVars
  BY <1>7 DEF Tick, KeepaliveTick, IdleTimeout, ReadControl, ReadClose, RecordAck,
     LoseKeepalive, GoDeaf, vars
<1>8. ASSUME UNCHANGED wireVars PROVE WireInv'
  BY <1>8 DEF wireVars
<1> QED BY <1>1, <1>2, <1>3, <1>4, <1>5, <1>6, <1>7, <1>8 DEF Next

\* A prompt Miniserver never keeps the reader waiting to its deadline.
LEMMA PromptStep == TypeOK /\ WireInv /\ PromptInv /\ [Next]_vars => PromptInv'
<1> SUFFICES ASSUME TypeOK, WireInv, PromptInv, [Next]_vars, prompt' PROVE PromptInv'
  BY DEF PromptInv
<1> USE LinkAssumption, IdleAssumption DEF TypeOK, Stages
<1>0. prompt
  BY DEF Next, Tick, KeepaliveTick, IdleTimeout, ReadEstimated, ReadExact, ReadPayload,
     ReadStray, ReadControl, ReadClose, ReadKeepalive, RecordAck, LoseKeepalive, GoDeaf,
     NextSession, vars
<1>t. msg.stage # "none" => Transfer(msg.len) \in Nat
  BY TransferNat
<1>1. CASE Tick
  <2>1. CASE msg.stage = "none"
    BY <1>0, <1>1, <2>1 DEF Tick, PromptInv, Overdue, wireVars, countVars
  <2>2. CASE msg.stage = "estimated"
    BY <1>0, <1>1, <1>t, <2>2 DEF Tick, PromptInv, Overdue, wireVars
  <2>3. CASE msg.stage = "exact"
    BY <1>0, <1>1, <1>t, <2>3 DEF Tick, PromptInv, Overdue, wireVars
  <2> QED BY <2>1, <2>2, <2>3
<1>2. CASE KeepaliveTick
  <2>0. /\ msg' = msg /\ expect' = expect /\ stray' = stray /\ waited' = waited /\ beat = Period
        /\ beat' = 0 /\ over' # "idle"
    BY <1>2 DEF KeepaliveTick, wireVars
  <2>1. CASE msg.stage # "none"
    BY <1>0, <1>t, <2>0, <2>1 DEF PromptInv
  <2>2. CASE msg.stage = "none" /\ unacked >= MaxMissed
    <3>1. over' = "missed"
      BY <1>2, <2>2 DEF KeepaliveTick
    <3> QED BY <1>0, <2>0, <2>2, <3>1 DEF PromptInv
  <2>3. CASE msg.stage = "none" /\ ~(unacked >= MaxMissed)
    <3>1. owed' = owed + 1 /\ over = "no"
      BY <1>2, <2>3 DEF KeepaliveTick
    <3> QED BY <1>0, <2>0, <2>3, <3>1 DEF PromptInv
  <2> QED BY <2>1, <2>2, <2>3
<1>3. ~IdleTimeout
  <2> SUFFICES ASSUME waited >= Deadline, over = "no" PROVE FALSE
    BY DEF IdleTimeout
  <2>1. CASE msg.stage = "none"
    BY <1>0, <2>1 DEF PromptInv, Deadline, ReadTimeout
  <2>2. CASE msg.stage # "none"
    <3>1. /\ expect.len = msg.len /\ msg.len \in Lens
          /\ waited <= Transfer(msg.len) + Delay
      BY <1>0, <1>t, <2>2 DEF PromptInv, WireInv
    <3>2. CASE msg.len = 0
      BY <3>1, <3>2, TransferNat DEF Deadline, ReadTimeout
    <3>3. CASE msg.len # 0
      BY <1>t, <2>2, <3>1, <3>3 DEF Deadline, ReadTimeout
    <3> QED BY <3>2, <3>3
  <2> QED BY <2>1, <2>2
<1>4. ASSUME NEW n \in Lens, ReadEstimated(n) PROVE PromptInv'
  <2>1. Transfer(n) \in Nat /\ expect.kind = "header"
    BY <1>0, <1>4, TransferNat DEF ReadEstimated, MayAnnounce, WireInv, PromptInv
  <2> QED BY <1>0, <1>4, <2>1 DEF ReadEstimated, Reading, OnEstimated, PromptInv
<1>5. ASSUME NEW n \in Lens, ReadExact(n) PROVE PromptInv'
  <2>1. Transfer(n) \in Nat /\ expect.kind = "header"
    BY <1>0, <1>5, TransferNat DEF ReadExact, MayAnnounce, WireInv, PromptInv
  <2>2. CASE n = 0
    BY <1>0, <1>5, <2>1, <2>2 DEF ReadExact, Reading, OnExact, Boundary, START, PromptInv
  <2>3. CASE n # 0
    BY <1>0, <1>5, <2>1, <2>3 DEF ReadExact, Reading, OnExact, PromptInv
  <2> QED BY <2>2, <2>3
<1>6. CASE ReadPayload
  <2>1. expect.kind = "payload"
    BY <1>0, <1>6 DEF ReadPayload, PromptInv, WireInv
  <2> QED BY <1>0, <1>6, <2>1 DEF ReadPayload, Reading, HandOn, Boundary, START, PromptInv
<1>7. CASE ReadKeepalive
  <2>1. expect' = START
    BY <1>7 DEF ReadKeepalive, HandOn
  <2> QED BY <1>0, <1>7, <2>1 DEF ReadKeepalive, Reading, START, PromptInv
<1>8. CASE RecordAck
  BY <1>0, <1>8, <1>t DEF RecordAck, PromptInv, wireVars
<1>9. CASE NextSession
  BY <1>9 DEF NextSession, Boundary, START, PromptInv
<1>10. ~ReadStray /\ ~ReadControl /\ ~ReadClose /\ ~LoseKeepalive /\ ~GoDeaf
  BY <1>0 DEF ReadStray, ReadControl, ReadClose, LoseKeepalive, GoDeaf
<1>11. CASE UNCHANGED vars
  BY <1>11 DEF vars, wireVars, countVars, PromptInv
<1> QED
  BY <1>1, <1>2, <1>3, <1>4, <1>5, <1>6, <1>7, <1>8, <1>9, <1>10, <1>11 DEF Next

\* The four together, the inductive invariant of the session's clocks.
THEOREM LinkCorrect == Spec => [](TypeOK /\ CountInv /\ WireInv /\ PromptInv)
<1>1. Init => TypeOK
  <2>1. Init => /\ expect \in [kind : {"header", "payload"}, len : Nat]
                /\ msg \in [stage : Stages, len : Nat]
    BY DEF Init, Stages, Boundary, START
  <2>2. Init => /\ waited \in Nat /\ beat \in 0..Period /\ unacked \in 0..MaxMissed
                /\ seen \in -1..MaxMissed /\ owed \in Nat /\ lost \in Nat
                /\ extra \in 0..MaxExtra /\ forgiven \in 0..extra
    BY LinkAssumption DEF Init
  <2>3. Init => /\ prompt \in BOOLEAN /\ stray \in BOOLEAN /\ mixed \in BOOLEAN
                /\ long \in BOOLEAN /\ deaf \in BOOLEAN /\ over = "no"
    BY DEF Init
  <2> QED BY <2>1, <2>2, <2>3 DEF TypeOK
<1>2. Init => CountInv
  BY LinkAssumption DEF Init, CountInv, Counted
<1>3. Init => WireInv /\ PromptInv
  BY DEF Init, WireInv, PromptInv, Boundary, START
<1> QED BY <1>1, <1>2, <1>3, TypeStep, CountStep, WireStep, PromptStep, PTL DEF Spec

\* Every field keeps its type, the capped counter `acked` never passing `sent`.
THEOREM LinkTypeCorrect == Spec => []TypeOK
BY LinkCorrect, PTL

\* Neither a quiet connection nor a large table of a Miniserver that keeps the assumed
\* throughput runs into the idle timeout, whatever the lengths announced.
THEOREM PatientHolds == Spec => []Patient
<1>1. PromptInv => Patient
  BY DEF PromptInv, Patient
<1> QED BY <1>1, LinkCorrect, PTL

\* A session discarded for missed keepalives was missing them, whatever the limit.
THEOREM MissedHonestHolds == Spec => []MissedHonest
<1>1. TypeOK /\ CountInv => MissedHonest
  BY LinkAssumption DEF TypeOK, CountInv, Counted, MissedHonest, InHand
<1> QED BY <1>1, LinkCorrect, PTL

\* No number of answers makes up for a lost one.
THEOREM LossesCountHolds == Spec => []LossesCount
<1>1. TypeOK /\ CountInv => LossesCount
  BY LinkAssumption DEF TypeOK, CountInv, Counted, LossesCount
<1> QED BY <1>1, LinkCorrect, PTL

\* The reader is in step with the Miniserver, and a stray frame costs no more than the
\* message it disturbs, whatever lengths are announced and however strays, estimates,
\* empty messages and keepalive answers alternate.
THEOREM InStepHolds == Spec => []InStep
<1>1. WireInv => InStep
  BY DEF WireInv, InStep
<1> QED BY <1>1, LinkCorrect, PTL

-----------------------------------------------------------------------------
(* Short tables                                                            *)

\* Ticks since the oldest of u unanswered keepalives was sent, b after the last.
Age(u, b) == (u - 1) * Period + b

\* How long a keepalive may go unanswered before a message under way began.
Slack == IF Delay = 0 THEN 0 ELSE Delay - 1

\* How old the oldest unanswered keepalive may be at each stage of a short message.
Allowance(stage, w) ==
    CASE stage = "estimated" -> Slack + w
      [] stage = "exact" -> Slack + Transfer(Short) + Delay + w
      [] OTHER -> Slack + 2 * Transfer(Short) + Delay

\* A prompt Miniserver loses nothing and answers between two messages only, and while
\* the messages are short its oldest unanswered keepalive stays young enough.
ShortInv ==
    prompt =>
      /\ lost = 0 /\ forgiven = 0
      /\ seen # -1 => msg.stage = "none"
      /\ ~long =>
           /\ over # "missed"
           /\ msg.stage # "none" => msg.len <= Short
           /\ unacked > 0 => Age(unacked, beat) <= Allowance(msg.stage, waited)

\* How the age moves with the clock and the counter, and what it says of the limit.
LEMMA AgeSteps ==
    /\ \A u, b \in Nat : Age(u, b) \in Int /\ Age(u, b + 1) = Age(u, b) + 1
    /\ \A b \in Nat : Age(1, b) = b
    /\ \A u \in Nat : Age(u + 1, 0) = Age(u, Period)
    /\ \A u, b \in Nat : Age(u - 1, b) <= Age(u, b)
    /\ \A u \in Nat : u >= MaxMissed => Age(u, Period) >= MaxMissed * Period
<1> USE LinkAssumption
<1>1. ASSUME NEW u \in Nat, NEW b \in Nat
      PROVE  Age(u, b) \in Int /\ Age(u, b + 1) = Age(u, b) + 1
  BY Z3 DEF Age
<1>2. ASSUME NEW b \in Nat PROVE Age(1, b) = b
  BY Z3 DEF Age
<1>3. ASSUME NEW u \in Nat PROVE Age(u + 1, 0) = Age(u, Period)
  BY Z3 DEF Age
<1>4. ASSUME NEW u \in Nat, NEW b \in Nat PROVE Age(u - 1, b) <= Age(u, b)
  BY Z3 DEF Age
<1>5. ASSUME NEW u \in Nat, u >= MaxMissed PROVE Age(u, Period) >= MaxMissed * Period
  <2>1. Age(u, Period) = u * Period
    BY Z3 DEF Age
  <2>2. u * Period >= MaxMissed * Period
    BY <1>5, Z3
  <2> QED BY <2>1, <2>2
<1> QED BY <1>1, <1>2, <1>3, <1>4, <1>5

\* A longer payload takes no less time.
LEMMA TransferMonotone == \A m, n \in Nat : m <= n => Transfer(m) <= Transfer(n)
  BY LinkAssumption, Z3 DEF Transfer

\* What a prompt Miniserver allows itself is below the limit at every stage.
LEMMA AllowanceBounded ==
    ASSUME TypeOK, PromptInv, prompt, msg.stage # "none" => msg.len <= Short
    PROVE  /\ Slack \in Nat /\ Transfer(Short) \in Nat
           /\ Allowance(msg.stage, waited) \in Nat
           /\ Allowance(msg.stage, waited) <= Slack + 2 * Transfer(Short) + Delay
           /\ msg.stage = "estimated" =>
                Allowance(msg.stage, waited) <= Slack + Transfer(Short) + Delay
           /\ Slack + 2 * Transfer(Short) + Delay < MaxMissed * Period
<1> USE LinkAssumption DEF TypeOK, Stages
<1>1. Slack \in Nat /\ Transfer(Short) \in Nat /\ MaxMissed * Period \in Nat
  BY TransferNat DEF Slack
<1>2. Slack + 2 * Transfer(Short) + Delay < MaxMissed * Period
  BY <1>1, ShortAssumption DEF Slack
<1>3. msg.stage # "none" => Transfer(msg.len) \in Nat /\ Transfer(msg.len) <= Transfer(Short)
  BY TransferNat, TransferMonotone
<1>4. CASE msg.stage = "none"
  <2>1. Allowance(msg.stage, waited) = Slack + 2 * Transfer(Short) + Delay
    BY <1>4 DEF Allowance
  <2> QED BY <1>1, <1>2, <1>4, <2>1
<1>5. CASE msg.stage = "estimated"
  <2>1. Allowance(msg.stage, waited) = Slack + waited
    BY <1>5 DEF Allowance
  <2>2. waited <= Transfer(msg.len) + Delay
    BY <1>5 DEF PromptInv
  <2> QED BY <1>1, <1>2, <1>3, <1>5, <2>1, <2>2
<1>6. CASE msg.stage = "exact"
  <2>1. Allowance(msg.stage, waited) = Slack + Transfer(Short) + Delay + waited
    BY <1>6 DEF Allowance
  <2>2. waited <= Transfer(msg.len)
    BY <1>6 DEF PromptInv
  <2> QED BY <1>1, <1>2, <1>3, <1>6, <2>1, <2>2
<1> QED BY <1>4, <1>5, <1>6

\* The unanswered keepalives of a prompt Miniserver are those it owes.
LEMMA PromptCounts ==
    ASSUME TypeOK, CountInv, ShortInv, prompt, seen = -1
    PROVE  unacked = owed
  BY LinkAssumption DEF TypeOK, CountInv, Counted, ShortInv

\* Where a prompt Miniserver may announce a message or let time pass between two, its
\* one unanswered keepalive has just been sent.
LEMMA PromptYoung ==
    ASSUME TypeOK, CountInv, ShortInv, prompt, seen = -1, msg.stage = "none", ~Overdue,
           unacked > 0
    PROVE  Age(unacked, beat) <= Slack /\ unacked = 1 /\ beat < Delay
<1>1. unacked = 1 /\ beat < Delay
  BY PromptCounts, LinkAssumption DEF TypeOK, Overdue
<1>2. Age(unacked, beat) = beat
  BY <1>1, AgeSteps, LinkAssumption DEF TypeOK
<1> QED BY <1>1, <1>2, LinkAssumption DEF TypeOK, Slack

\* As long as its messages are short, a prompt Miniserver is never behind with
\* MAX_MISSED_KEEPALIVES answers when the keepalive tick looks.
LEMMA ShortStep ==
    TypeOK /\ CountInv /\ WireInv /\ PromptInv /\ ShortInv /\ [Next]_vars => ShortInv'
<1> SUFFICES ASSUME TypeOK, CountInv, WireInv, PromptInv, ShortInv, [Next]_vars, prompt'
             PROVE  ShortInv'
  BY DEF ShortInv
<1> USE LinkAssumption DEF TypeOK, Stages
<1>0. prompt
  BY DEF Next, Tick, KeepaliveTick, IdleTimeout, ReadEstimated, ReadExact, ReadPayload,
     ReadStray, ReadControl, ReadClose, ReadKeepalive, RecordAck, LoseKeepalive, GoDeaf,
     NextSession, vars
<1>s. ~stray
  BY <1>0 DEF PromptInv
<1>a. Slack \in Nat /\ Transfer(Short) \in Nat
  BY TransferNat DEF Slack
<1>b. ASSUME ~long
      PROVE  /\ over # "missed" /\ (msg.stage # "none" => msg.len <= Short)
             /\ unacked > 0 => Age(unacked, beat) <= Allowance(msg.stage, waited)
             /\ Allowance(msg.stage, waited) \in Nat
             /\ Allowance(msg.stage, waited) <= Slack + 2 * Transfer(Short) + Delay
             /\ msg.stage = "estimated" =>
                  Allowance(msg.stage, waited) <= Slack + Transfer(Short) + Delay
             /\ Slack + 2 * Transfer(Short) + Delay < MaxMissed * Period
  BY <1>0, <1>b, AllowanceBounded DEF ShortInv
<1>c. /\ lost = 0 /\ forgiven = 0 /\ (seen # -1 => msg.stage = "none")
      /\ Age(unacked, beat) \in Int
  BY <1>0, AgeSteps DEF ShortInv
<1>d. MaxMissed * Period \in Nat
  OBVIOUS
<1>1. CASE Tick
  <2>0. /\ UNCHANGED <<msg, long, unacked, seen, lost, forgiven, over>> /\ seen = -1
        /\ beat' = beat + 1 /\ waited' = waited + 1 /\ ~Overdue
    BY <1>0, <1>1 DEF Tick, wireVars, countVars
  <2>1. Age(unacked, beat + 1) = Age(unacked, beat) + 1
    BY AgeSteps
  <2>2. ASSUME ~long, unacked > 0
        PROVE  Age(unacked, beat + 1) <= Allowance(msg.stage, waited + 1)
    <3>1. CASE msg.stage = "none"
      <4>1. unacked = 1 /\ beat < Delay /\ Age(unacked, beat) <= Slack
        BY <1>0, <2>0, <2>2, <3>1, PromptYoung
      <4>2. Allowance(msg.stage, waited + 1) = Slack + 2 * Transfer(Short) + Delay
        BY <3>1 DEF Allowance
      <4> QED BY <1>a, <1>c, <2>1, <4>1, <4>2
    <3>2. CASE msg.stage # "none"
      <4>1. Allowance(msg.stage, waited + 1) = Allowance(msg.stage, waited) + 1
        BY <1>a, <3>2 DEF Allowance
      <4> QED BY <1>b, <1>c, <2>1, <2>2, <4>1
    <3> QED BY <3>1, <3>2
  <2> QED BY <1>b, <1>c, <2>0, <2>2 DEF ShortInv
<1>2. CASE KeepaliveTick
  <2>0. UNCHANGED <<msg, long, seen, lost, forgiven, waited>> /\ beat = Period /\ beat' = 0
    BY <1>2 DEF KeepaliveTick, wireVars
  <2>1. ASSUME ~long PROVE unacked < MaxMissed
    <3> SUFFICES ASSUME unacked >= MaxMissed PROVE FALSE
      OBVIOUS
    <3>1. Age(unacked, beat) >= MaxMissed * Period
      BY <2>0, AgeSteps
    <3> QED BY <1>a, <1>b, <1>c, <1>d, <2>1, <3>1
  <2>2. ASSUME ~long
        PROVE  unacked' = unacked + 1 /\ over' = over
    BY <1>2, <2>1, <2>2 DEF KeepaliveTick
  <2>3. ASSUME ~long
        PROVE  Age(unacked', beat') <= Allowance(msg.stage, waited)
    <3>1. Age(unacked', beat') = Age(unacked, beat)
      BY <2>0, <2>2, <2>3, AgeSteps
    <3>2. CASE unacked = 0
      <4>1. Age(unacked', beat') = 0
        BY <2>0, <2>2, <2>3, <3>2, AgeSteps
      <4> QED BY <1>b, <2>3, <4>1
    <3>3. CASE unacked # 0
      BY <1>b, <2>3, <3>1, <3>3
    <3> QED BY <3>2, <3>3
  <2> QED BY <1>b, <1>c, <2>0, <2>2, <2>3 DEF ShortInv
<1>3. ASSUME NEW n \in Lens, ReadEstimated(n) PROVE ShortInv'
  <2>0. /\ UNCHANGED <<beat, unacked, seen, lost, forgiven, over>> /\ seen = -1
        /\ waited' = 0 /\ msg' = [stage |-> "estimated", len |-> n]
        /\ long' = (long \/ n > Short) /\ msg.stage = "none" /\ ~Overdue
    BY <1>0, <1>s, <1>3 DEF ReadEstimated, Reading, MayAnnounce, Announced, OnEstimated, HandOn,
       Uncounted
  <2>1. ASSUME unacked > 0 PROVE Age(unacked, beat) <= Allowance("estimated", 0)
    <3>1. Age(unacked, beat) <= Slack
      BY <1>0, <2>0, <2>1, PromptYoung
    <3> QED BY <1>a, <1>c, <3>1 DEF Allowance
  <2>2. msg'.stage = "estimated" /\ msg'.len = n
    BY <2>0
  <2>3. ASSUME ~long' PROVE ~long /\ n <= Short
    <3>1. ~long /\ ~(n > Short)
      BY <2>0, <2>3, Zenon
    <3> QED BY <3>1
  <2> QED BY <1>b, <1>c, <2>0, <2>1, <2>2, <2>3 DEF ShortInv
<1>4. ASSUME NEW n \in Lens, ReadExact(n) PROVE ShortInv'
  <2>0. /\ UNCHANGED <<beat, unacked, seen, lost, forgiven, over>> /\ seen = -1
        /\ waited' = 0 /\ long' = (long \/ n > Short)
        /\ (msg.stage = "none" /\ ~Overdue) \/ msg.stage = "estimated"
    BY <1>0, <1>s, <1>4 DEF ReadExact, Reading, MayAnnounce, Announced, OnExact, HandOn, Uncounted
  <2>1. ASSUME ~long, unacked > 0
        PROVE  Age(unacked, beat) <= Slack + Transfer(Short) + Delay
    <3>1. CASE msg.stage = "none" /\ ~Overdue
      <4>1. Age(unacked, beat) <= Slack
        BY <1>0, <2>0, <2>1, <3>1, PromptYoung
      <4> QED BY <1>a, <1>c, <4>1
    <3>2. CASE msg.stage = "estimated"
      BY <1>a, <1>b, <1>c, <2>1, <3>2
    <3> QED BY <2>0, <3>1, <3>2
  <2>2. /\ msg'.stage \in {"none", "exact"} /\ (msg'.stage # "none" => msg'.len = n)
        /\ msg' = [stage |-> msg'.stage, len |-> msg'.len]
    BY <1>4 DEF ReadExact, Boundary
  <2>3. Slack + Transfer(Short) + Delay <= Allowance(msg'.stage, 0)
    BY <1>a, <2>2 DEF Allowance
  <2>4. ASSUME ~long' PROVE ~long /\ n <= Short
    <3>1. ~long /\ ~(n > Short)
      BY <2>0, <2>4, Zenon
    <3> QED BY <3>1
  <2>5. ASSUME ~long', unacked > 0 PROVE Age(unacked, beat) <= Allowance(msg'.stage, 0)
    <3>1. Allowance(msg'.stage, 0) \in Int
      BY <1>a, <2>2 DEF Allowance
    <3> QED BY <1>a, <1>c, <2>1, <2>3, <2>4, <2>5, <3>1
  <2> QED BY <1>b, <1>c, <2>0, <2>2, <2>4, <2>5 DEF ShortInv
<1>5. CASE ReadPayload
  <2>0. /\ UNCHANGED <<beat, unacked, seen, lost, forgiven, over, long>> /\ seen = -1
        /\ msg'.stage = "none"
    BY <1>s, <1>5 DEF ReadPayload, Reading, HandOn, Uncounted, Boundary, WireInv
  <2>1. Allowance(msg'.stage, waited') = Slack + 2 * Transfer(Short) + Delay
    BY <2>0 DEF Allowance
  <2> QED BY <1>a, <1>b, <1>c, <2>0, <2>1 DEF ShortInv
<1>6. CASE ReadKeepalive
  <2>0. /\ UNCHANGED <<msg, long, beat, unacked, lost, forgiven, over>> /\ msg.stage = "none"
    BY <1>0, <1>s, <1>6 DEF ReadKeepalive, Reading, WireInv
  <2>1. Allowance("none", waited') = Allowance("none", waited)
    BY DEF Allowance
  <2> QED BY <1>b, <1>c, <2>0, <2>1 DEF ShortInv
<1>7. CASE RecordAck
  <2>0. /\ UNCHANGED <<msg, long, beat, lost, forgiven, over>> /\ msg.stage = "none"
        /\ seen' = -1 /\ unacked' \in {unacked, unacked - 1}
    BY <1>c, <1>7 DEF RecordAck, wireVars
  <2>1. Allowance("none", waited') = Allowance("none", waited)
    BY DEF Allowance
  <2>2. Age(unacked - 1, beat) <= Age(unacked, beat) /\ Age(unacked - 1, beat) \in Int
    BY AgeSteps DEF Age
  <2>3. ASSUME ~long, unacked' > 0 PROVE Age(unacked', beat) <= Allowance("none", waited)
    BY <1>b, <1>c, <2>0, <2>2, <2>3
  <2> QED BY <1>b, <1>c, <2>0, <2>1, <2>3 DEF ShortInv
<1>8. CASE NextSession
  <2>1. /\ lost' = 0 /\ forgiven' = 0 /\ seen' = -1 /\ over' = "no" /\ unacked' = 0
        /\ msg'.stage = "none"
    BY <1>8 DEF NextSession, Boundary
  <2> QED BY <2>1 DEF ShortInv
<1>9. CASE IdleTimeout
  BY <1>9 DEF IdleTimeout, wireVars, countVars, ShortInv
<1>10. ~ReadStray /\ ~ReadControl /\ ~ReadClose /\ ~LoseKeepalive /\ ~GoDeaf
  BY <1>0 DEF ReadStray, ReadControl, ReadClose, LoseKeepalive, GoDeaf
<1>11. CASE UNCHANGED vars
  BY <1>11 DEF vars, wireVars, countVars, ShortInv
<1> QED
  BY <1>1, <1>2, <1>3, <1>4, <1>5, <1>6, <1>7, <1>8, <1>9, <1>10, <1>11 DEF Next

\* While no message is longer than Short, a Miniserver that keeps the assumed
\* throughput keeps its connection, whatever the periods and the limit are.
THEOREM ShortTablesKeptHolds == Spec => []ShortTablesKept
<1>1. Init => ShortInv
  BY DEF Init, ShortInv, Boundary
<1>2. ShortInv => ShortTablesKept
  BY DEF ShortInv, ShortTablesKept
<1> QED BY <1>1, <1>2, LinkCorrect, ShortStep, PTL DEF Spec

=============================================================================
