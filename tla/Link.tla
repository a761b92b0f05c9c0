-------------------------------- MODULE Link --------------------------------
(***************************************************************************)
(* The framing and the clocks of one session: the reader's FrameExpect and *)
(* its widened idle timeout, the writer's keepalive tick, and the Liveness *)
(* counters the two tasks share.                                           *)
(*                                                                         *)
(* A message is an exact header and its payload frame, with an estimated   *)
(* header before it when the Miniserver still has to produce the data.     *)
(* Only what the clocks depend on is kept of it: its type and its length.  *)
(* Time passes in ticks; a timer that is due fires before the next tick.   *)
(***************************************************************************)
EXTENDS Integers

CONSTANTS
    Period,     \* keepalive_period, in ticks
    Idle,       \* READ_IDLE_TIMEOUT_SECS, in ticks
    MaxMissed,  \* MAX_MISSED_KEEPALIVES
    Rate,       \* MIN_PAYLOAD_THROUGHPUT_BYTES_PER_SEC, length units a tick
    MaxExt,     \* MAX_PAYLOAD_EXTENSION_SECS, in ticks
    Delay,      \* ticks a prompt Miniserver takes over an answer
    Lens,       \* the payload lengths a header announces
    Size,       \* WsBinHdr::SIZE in length units, rounded up
    Short,      \* lengths up to this are short
    MaxExtra    \* bound: type-6 messages nobody asked for

ASSUME LinkAssumption ==
    /\ Period \in Nat \ {0} /\ Idle \in Nat /\ MaxMissed \in Nat \ {0}
    /\ Rate \in Nat \ {0} /\ MaxExt \in Nat /\ Delay \in Nat /\ MaxExtra \in Nat
    /\ Lens \subseteq Nat /\ Size \in Nat /\ Short \in Nat

\* div_ceil.
Transfer(n) == (n + Rate - 1) \div Rate

\* What "Must exceed KEEP_ALIVE_PERIOD_SECS" asks of the idle timeout, answers that come
\* before the next keepalive, and no length that the capped extension is too short for
\* ("a bogus length field").
ASSUME IdleAssumption ==
    /\ Delay < Period /\ Period + Delay < Idle
    /\ \A n \in Lens : Transfer(n) <= MaxExt + Period

\* What "short" means: a keepalive just left unanswered, an estimated message and the
\* message itself together pass before MAX_MISSED_KEEPALIVES periods are over.
ASSUME ShortAssumption ==
    2 * Transfer(Short) + Delay + (IF Delay = 0 THEN 1 ELSE Delay) <= MaxMissed * Period

VARIABLES
    prompt,   \* the Miniserver keeps the throughput and answers in time
    msg,      \* the message it is sending: type, announced length and stage
    expect,   \* FrameExpect: what the next data frame is taken for
    waited,   \* ticks since the reader began to wait for a frame
    beat,     \* ticks since the keepalive interval last fired
    unacked,  \* Liveness: sent - acked
    seen,     \* record_ack between its load and its update: sent - acked as loaded, or -1
    over,     \* why the session ended, "no" while it lasts
    owed,     \* keepalives the Miniserver has still to answer
    lost,     \* history: keepalives whose answer never reaches record_ack
    forgiven, \* history: type-6 messages nobody asked for, read while one was missing
    extra,    \* type-6 messages nobody asked for
    stray,    \* history: a frame outside the protocol since the last message ended, or
              \* the payload that ended it was taken for a header
    mixed,    \* history: a message handed on with a frame that is not its payload
    long,     \* history: a message above Short has been announced
    deaf      \* the Miniserver has stopped answering keepalives for good

wireVars == <<msg, expect, stray, mixed, long>>
countVars == <<unacked, seen, owed, lost, forgiven, extra>>
vars == <<prompt, wireVars, waited, beat, countVars, over, deaf>>

Boundary == [stage |-> "none", len |-> 0]
START == [kind |-> "header", len |-> 0]
Stages == {"none", "estimated", "exact"}

Init ==
    /\ prompt \in BOOLEAN
    /\ msg = Boundary /\ expect = START /\ stray = FALSE /\ mixed = FALSE /\ long = FALSE
    /\ waited = 0 /\ beat = 0
    /\ unacked = 0 /\ seen = -1 /\ owed = 0 /\ lost = 0 /\ forgiven = 0 /\ extra = 0
    /\ over = "no" /\ deaf = FALSE

-----------------------------------------------------------------------------
(* Clocks                                                                  *)

\* Mutant: the announced length is not looked at.
IdleOnly(n) == Idle

\* read_timeout.
ReadTimeout(n) ==
    Idle + (IF n = 0 THEN 0 ELSE IF Transfer(n) < MaxExt THEN Transfer(n) ELSE MaxExt)

Deadline == ReadTimeout(expect.len)

\* What a prompt Miniserver must send before time passes: the frame its announcement
\* left due, or the answer to a keepalive, which waits for the message under way.
Overdue ==
    \/ msg.stage = "estimated" /\ waited >= Transfer(msg.len) + Delay
    \/ msg.stage = "exact" /\ waited >= Transfer(msg.len)
    \/ msg.stage = "none" /\ owed > 0 /\ (owed > 1 \/ beat >= Delay)

Tick ==
    /\ over = "no" /\ seen = -1
    /\ beat < Period /\ waited < Deadline
    /\ prompt => ~Overdue
    /\ beat' = beat + 1 /\ waited' = waited + 1
    /\ UNCHANGED <<prompt, wireVars, countVars, over, deaf>>

\* Mutant: too many unanswered keepalives silence the writer instead of ending it.
TickUnchecked ==
    /\ over = "no" /\ beat = Period
    /\ beat' = 0 /\ over' = over
    /\ IF unacked >= MaxMissed THEN UNCHANGED <<unacked, owed>>
       ELSE unacked' = unacked + 1 /\ owed' = owed + 1
    /\ UNCHANGED <<prompt, wireVars, waited, seen, lost, forgiven, extra, deaf>>

\* Mutant: one unanswered keepalive too few.
TickImpatient ==
    /\ over = "no" /\ beat = Period
    /\ beat' = 0
    /\ IF unacked + 1 >= MaxMissed
       THEN over' = "missed" /\ UNCHANGED <<unacked, owed>>
       ELSE unacked' = unacked + 1 /\ owed' = owed + 1 /\ over' = over
    /\ UNCHANGED <<prompt, wireVars, waited, seen, lost, forgiven, extra, deaf>>

\* on_keepalive_tick: missed() and record_sent, which the reader's update commutes with.
KeepaliveTick ==
    /\ over = "no" /\ beat = Period
    /\ beat' = 0
    /\ IF unacked >= MaxMissed
       THEN over' = "missed" /\ UNCHANGED <<unacked, owed>>
       ELSE unacked' = unacked + 1 /\ owed' = owed + 1 /\ over' = over
    /\ UNCHANGED <<prompt, wireVars, waited, seen, lost, forgiven, extra, deaf>>

\* The reader's timeout, "the only cancellation the reader ever performs".
IdleTimeout ==
    /\ over = "no" /\ seen = -1
    /\ waited >= Deadline
    /\ over' = "idle"
    /\ UNCHANGED <<prompt, wireVars, waited, beat, countVars, deaf>>

-----------------------------------------------------------------------------
(* Frames.  The reader waits for one, takes it and waits for the next.     *)

Reading == over = "no" /\ seen = -1 /\ waited' = 0

\* A prompt Miniserver starts nothing while an answer is due.
MayAnnounce == msg.stage = "none" /\ (prompt => ~Overdue)

Announced(n) == long' = (long \/ n > Short)

\* A type-6 message nobody asked for reaches record_ack, which loads `sent` first.
Unsolicited ==
    /\ extra < MaxExtra /\ extra' = extra + 1 /\ seen' = unacked
    /\ forgiven' = IF unacked > 0 THEN forgiven + 1 ELSE forgiven

Uncounted == UNCHANGED <<seen, forgiven, extra>>

\* on_data_frame where a payload is expected: any frame is handed on as one, whatever
\* its length.  After a stray the header may have been none, and name a keepalive.
HandOn(right) ==
    /\ expect' = START /\ mixed' = (mixed \/ (~stray /\ ~right))
    /\ Uncounted \/ (stray /\ Unsolicited)

\* Mutant: the length of an estimated header is taken for the message's own.
OnEstimatedAsExact(n) == expect' = [kind |-> "payload", len |-> n] /\ Uncounted

\* on_data_frame on an estimated header: skipped but for the wait it announces.
OnEstimated(n) == expect' = [kind |-> "header", len |-> n] /\ Uncounted

\* on_data_frame on an exact header: an empty message is handed on at once.
OnExact(n) ==
    expect' = (IF n = 0 THEN START ELSE [kind |-> "payload", len |-> n]) /\ Uncounted

\* on_data_frame on a frame that is no header, where one is expected: logged and
\* skipped, unless its eight bytes begin with the magic one.
Skip == expect' = expect /\ Uncounted
TakenForHeader ==
    \/ \E n \in Lens : OnEstimated(n) \/ OnExact(n)
    \/ expect' = START /\ Unsolicited

ReadEstimated(n) ==
    /\ Reading /\ MayAnnounce
    /\ msg' = [stage |-> "estimated", len |-> n] /\ Announced(n)
    /\ IF expect.kind = "header" THEN OnEstimated(n) /\ mixed' = mixed ELSE HandOn(FALSE)
    /\ UNCHANGED <<prompt, beat, unacked, owed, lost, stray, over, deaf>>

\* The exact header, after its estimate or without one.
ReadExact(n) ==
    /\ Reading
    /\ MayAnnounce \/ (msg.stage = "estimated" /\ msg.len <= n)
    /\ msg' = (IF n = 0 THEN Boundary ELSE [stage |-> "exact", len |-> n]) /\ Announced(n)
    /\ IF expect.kind = "header" THEN OnExact(n) /\ mixed' = mixed ELSE HandOn(FALSE)
    /\ stray' = (stray /\ n # 0)
    /\ UNCHANGED <<prompt, beat, unacked, owed, lost, over, deaf>>

\* The payload.  One that a stray has displaced is skipped, or taken for a header.
ReadPayload ==
    /\ Reading /\ msg.stage = "exact"
    /\ msg' = Boundary
    /\ \/ expect.kind = "payload" /\ HandOn(expect.len = msg.len) /\ stray' = FALSE
       \/ expect.kind = "header" /\ Skip /\ mixed' = (mixed \/ ~stray) /\ stray' = FALSE
       \/ /\ expect.kind = "header" /\ msg.len = Size
          /\ TakenForHeader /\ mixed' = (mixed \/ ~stray) /\ stray' = TRUE
    /\ UNCHANGED <<prompt, long, beat, unacked, owed, lost, over, deaf>>

\* A data frame no header announced, of a Miniserver that is not prompt.
ReadStray ==
    /\ Reading /\ ~prompt
    /\ stray' = TRUE
    /\ \/ expect.kind = "payload" /\ HandOn(TRUE)
       \/ expect.kind = "header" /\ (Skip \/ TakenForHeader) /\ mixed' = mixed
    /\ UNCHANGED <<prompt, msg, long, beat, unacked, owed, lost, over, deaf>>

\* A ping, a pong or a continuation: the wait begins anew, nothing else happens.
ReadControl ==
    /\ Reading /\ ~prompt
    /\ UNCHANGED <<prompt, wireVars, beat, countVars, over, deaf>>

\* A close frame, or an out-of-service header where a header is expected.
ReadClose ==
    /\ Reading /\ ~prompt
    /\ over' = "closed"
    /\ UNCHANGED <<prompt, wireVars, beat, countVars, deaf>>

-----------------------------------------------------------------------------
(* Keepalive answers                                                       *)

\* A type-6 header without payload, asked for or not, reaches record_ack.  A reader
\* that a stray has made to expect a payload swallows it.
ReadKeepalive ==
    /\ Reading /\ ~deaf
    /\ msg.stage = "none" \/ (~prompt /\ msg.stage = "estimated")
    /\ \/ /\ owed > 0 /\ owed' = owed - 1
          /\ \/ /\ expect.kind = "header" /\ expect' = START /\ mixed' = mixed
                /\ seen' = unacked /\ UNCHANGED <<lost, forgiven, extra>>
             \/ expect.kind = "payload" /\ HandOn(FALSE) /\ lost' = lost + 1
       \/ /\ ~prompt /\ expect.kind = "header" /\ expect' = START /\ mixed' = mixed
          /\ Unsolicited /\ UNCHANGED <<owed, lost>>
    /\ stray' = (stray /\ msg.stage # "none")
    /\ UNCHANGED <<prompt, msg, long, beat, unacked, over, deaf>>

\* Mutant: an answer catches up with everything sent.
RecordAckCatchesUp ==
    /\ over = "no" /\ seen # -1
    /\ unacked' = IF seen > 0 THEN unacked - seen ELSE unacked
    /\ seen' = -1 /\ waited' = 0
    /\ UNCHANGED <<prompt, wireVars, beat, owed, lost, forgiven, extra, over, deaf>>

\* Mutant: the first unanswered keepalive is not counted as answered.
RecordAckOffByOne ==
    /\ over = "no" /\ seen # -1
    /\ unacked' = IF seen > 1 THEN unacked - 1 ELSE unacked
    /\ seen' = -1 /\ waited' = 0
    /\ UNCHANGED <<prompt, wireVars, beat, owed, lost, forgiven, extra, over, deaf>>

\* Mutant: the cap at `sent` is missing.
RecordAckUncapped ==
    /\ over = "no" /\ seen # -1
    /\ unacked' = unacked - 1
    /\ seen' = -1 /\ waited' = 0
    /\ UNCHANGED <<prompt, wireVars, beat, owed, lost, forgiven, extra, over, deaf>>

\* record_ack's update: one answer, capped at the `sent` it loaded, whatever the
\* writer has counted since.
RecordAck ==
    /\ over = "no" /\ seen # -1
    /\ unacked' = IF seen > 0 THEN unacked - 1 ELSE unacked
    /\ seen' = -1 /\ waited' = 0
    /\ UNCHANGED <<prompt, wireVars, beat, owed, lost, forgiven, extra, over, deaf>>

\* A keepalive or its answer is dropped on the way.
LoseKeepalive ==
    /\ over = "no" /\ ~prompt /\ owed > 0
    /\ owed' = owed - 1 /\ lost' = lost + 1
    /\ UNCHANGED <<prompt, wireVars, waited, beat, unacked, seen, forgiven, extra, over, deaf>>

\* From here on the Miniserver pushes its tables and answers no keepalive.
GoDeaf ==
    /\ over = "no" /\ ~prompt /\ ~deaf /\ deaf' = TRUE
    /\ UNCHANGED <<prompt, wireVars, waited, beat, countVars, over>>

\* The next session has a reader, a keepalive interval and a Liveness of its own.
NextSession ==
    /\ over # "no" /\ over' = "no"
    /\ msg' = Boundary /\ expect' = START /\ stray' = FALSE /\ mixed' = FALSE /\ long' = FALSE
    /\ waited' = 0 /\ beat' = 0
    /\ unacked' = 0 /\ seen' = -1 /\ owed' = 0 /\ lost' = 0 /\ forgiven' = 0 /\ extra' = 0
    /\ deaf' = FALSE /\ UNCHANGED prompt

Next ==
    \/ Tick \/ KeepaliveTick \/ IdleTimeout
    \/ (\E n \in Lens : ReadEstimated(n) \/ ReadExact(n))
    \/ ReadPayload \/ ReadStray \/ ReadControl \/ ReadClose
    \/ ReadKeepalive \/ RecordAck \/ LoseKeepalive \/ GoDeaf \/ NextSession

Spec == Init /\ [][Next]_vars

\* Time passes, and the two tasks take the steps that need no frame.
FairSpec ==
    /\ Spec
    /\ WF_vars(Tick) /\ WF_vars(KeepaliveTick) /\ WF_vars(IdleTimeout) /\ WF_vars(RecordAck)

-----------------------------------------------------------------------------
(* Properties                                                              *)

TypeOK ==
    /\ prompt \in BOOLEAN /\ stray \in BOOLEAN /\ mixed \in BOOLEAN /\ long \in BOOLEAN
    /\ deaf \in BOOLEAN /\ over \in {"no", "idle", "missed", "closed"}
    /\ msg \in [stage : Stages, len : Nat] /\ expect \in [kind : {"header", "payload"}, len : Nat]
    /\ waited \in Nat /\ beat \in 0..Period
    /\ unacked \in 0..MaxMissed /\ seen \in -1..MaxMissed
    /\ owed \in Nat /\ lost \in Nat /\ forgiven \in 0..extra /\ extra \in 0..MaxExtra

\* A quiet connection and a large table are both waited for: a Miniserver that keeps
\* the assumed throughput and answers its keepalives never runs into the reader's
\* idle timeout.
Patient == prompt => over # "idle"

\* A Miniserver that keeps the assumed throughput keeps its connection: its answers
\* wait behind the table it is sending, and the keepalive tick does not discard the
\* session for that.
HealthyKept == prompt => over # "missed"

\* As HealthyKept, as long as the tables are short.
ShortTablesKept == prompt /\ ~long => over # "missed"

\* The answer record_ack has loaded `sent` for and not yet counted.
InHand == IF seen = -1 THEN 0 ELSE 1

\* The session is discarded only when MAX_MISSED_KEEPALIVES keepalives really are
\* unanswered, however record_ack and record_sent interleave; only the one answer the
\* reader is recording at that moment may come too late to count.
MissedHonest == over = "missed" => owed + lost + InHand >= MaxMissed

\* A lost answer is never forgiven by the answers that follow: a session outlives at
\* most MAX_MISSED_KEEPALIVES losses in all, and one more for each unsolicited type-6
\* read while an answer was missing; one read at another time banks no credit.
LossesCount == lost <= MaxMissed + forgiven

\* The reader is in step with the Miniserver: it expects a payload exactly when the
\* next frame is one, and hands no message on with another frame than the payload its
\* header announced.  A stray frame, taken for a header or for a payload, costs no
\* more than the message it falls into or comes before: at the end of that one the
\* reader is in step again, unless its payload was taken for a header in turn.
InStep == ~mixed /\ (~stray => (expect.kind = "payload" <=> msg.stage = "exact"))

\* A Miniserver that answers no keepalive any more is given up, however busily it
\* keeps pushing tables.
DeafDropped == deaf ~> (over # "no")

=============================================================================
