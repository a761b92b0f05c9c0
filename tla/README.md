# Verification of loxwebsocketclient-rs

TLA+ models of the Loxone WebSocket client in this repository, model-checked
with TLC and, where it says so, proved with TLAPS. Source paths below are relative
to `src/src/` (the crate's `src` directory). `PROJECT.json` maps every definition to
the lines it models.

## The system

A `LoxClient` is a façade over one supervisor task. For each session the supervisor
performs the handshake, spawns a writer task and a token refresher, and runs the
reader loop inline. These pieces of state are shared:

| state | filled by | emptied by | life |
|---|---|---|---|
| command channel (bounded mpsc) | façade calls, refresher | writer | the client's: its receiver is handed from session to session |
| `PendingQueue` (FIFO of waiters) | writer, before each write | reader (answers), writer (expiry, `finish`) | session |
| `VisuQueue` (at most one) | writer | reader, `finish` | session |
| reader-to-writer channel (depth 16) | reader, supervisor | writer | session |
| `Liveness` (keepalives sent, answered) | writer, reader | never | session |
| `SaltState` | handshake, then writer | new per session | session |
| token in memory and in the `TokenStore` | handshake, refresher | close codes, stop | the client's, the store's longer |
| certificate pin (`TlsContext`) | TLS verifier, `adopt_spki` | never | the client's |

Loxone answers carry no request id. Answers are matched to commands by position
only, so *every* command has to register a waiter, in wire order.

### Inventory

| component | source | operations that change state | model |
|---|---|---|---|
| Façade | `client/mod.rs` | `connect`, `send_command`, `send_control`, `try_send_control`, `send_visu_control`, `stop`, `Drop`, dropped futures | `Session`, `Supervisor` |
| Command channel | `client/io.rs`, `client/mod.rs` | send, park, receive, hand over, lose | `Session` |
| Writer | `client/writer.rs` | one per `IoCommand`/`WriterMsg`, expiry, write, `graceful_close`, `finish`; keepalive tick | `Session`; `Link` |
| Reader | `client/reader.rs` | type-0 texts, visu hand-off, close, failure; framing and deadlines; dispatch | `Session`; `Link`; `Tables`, `Control`, `Echo` |
| Pending and visu queues | `client/pending.rs`, `client/visu.rs` | push, resolve, expire, fail_all, drain; scan and comparison of `LL.control` | `Session`; `Control`, `Echo` |
| Refresher | `client/refresh.rs` | request, re-read, set, give up | `Session`, `Token` |
| Supervisor | `client/io.rs`, `client/reconnect.rs` | sessions, budget, backoff, lifecycle events, `ConnState` | `Supervisor`, `Session` |
| Handler guard | `client/handler.rs` | delivery, unwinding | `Supervisor`, `Connection` |
| Preflight, pin, public key, WebSocket | `client/http.rs`, `client/tls.rs`, `client/connect.rs` | one per request, pin learned | `Connect` |
| Handshake | `client/handshake.rs`, `auth/flow.rs` | one per exchange | `Connection`, `Token` |
| Token and store | `client/state.rs`, `auth/store.rs`, `auth/token.rs` | set, clear, restore, the file operations | `Token` |
| Command salt | `crypto/session.rs` | encrypt, rotate, reset | `Salt`, in `Connection` |
| Keepalive counters, timing | `client/state.rs`, `client/keepalive.rs` | record_sent, record_ack, timeouts | `Link` |
| Headers, tables, uuids, collectors | `proto/`, `uuid.rs`, `collect.rs` | none (pure) | `Tables`, `Uuid` |
| Hashing, RSA, AES | `crypto/` | none (pure) | not modelled |

What makes it hard: three tasks and any number of callers interleave between
awaits; callers cancel; answers are late, missing or unasked for; the writer's
timeouts are longer than the supervisor's patience; commands outlive the session
they were meant for; two clocks judge the same silence; callbacks unwind; the process
dies, in the middle of a save too, and is restarted with what the store kept. `PROJECT.json` lists these as hazards, each at its line.

## Modules

### Session: the command path

`Session.tla` has the façade, the channel, the writer, the reader, both queues, the
end of a session and its successor. A step goes from one await or lock release to
the next; `sup` and `wr` are the program counters of the two tasks, and one action
stands for one arm of the writer's `select!`, one reader dispatch or one façade call.
A command is a verb and the request it carries. `chan` holds the channel and the
senders parked behind it, in tokio's FIFO order. Deadlines are abstracted to
`overdue`, the number of leading entries past theirs (all entries get the same
timeout). The verb `command` stands for what users send: its answers may have the
shape of a key answer, and its `LL.control` matches none of the client's own verbs
(`io`, `ios`, `getvisusalt`, `getkey`, `killtoken`). Within a verb the model takes an
answer to match, which is the weakest check the code makes. `RemoveAt` and `IsPrefix`
are defined in the module, and not taken from `SequencesExt`, so that the proofs do not
carry that module's definitions in every obligation.

The constant `Prompt` selects the Miniserver: punctual (it answers in order, before
the deadline, unless it falls silent for good) or adverse (it may skip, delay or push
texts).

`CommandService.tla` is what `send_command` promises without naming a session, a
queue or a task. `Session` implements it (`ImplementsService`).

### Supervisor: sessions, budget, events

`Supervisor.tla` follows `run_supervisor`, `session_once`, `wait_reconnect`,
`sleep_unless_stopped` and `finish`; `pc` is its place. Errors and close codes are
classes, as the code distinguishes them. Every lifecycle callback may unwind, and the
future of `connect()` may be dropped while it waits (`CancelConnect`): the supervisor
goes on, with nobody to stop it.
`streak`, a history variable, counts sessions since a productive one, independently
of the counter the code keeps.

### Token: memory, file, Miniserver

`Token.tla` has the handshake's token exchange, the refresher and the stopping
writer as three tasks that read, ask and write in separate steps, with process death
and restart. The store is `FileTokenStore`: `SaveUpTo` is `write_record` up to its
k-th operation (remove the leftover, create, write and sync, rename). `Save` and
`Clear` may fail at any of them, which the client only logs (`failed`), and
`CrashInSave` is the process dying after any of them. `Load` accepts only a complete
record with this account's binding. `lost` and `raced` are history variables that
record which tokens the client could not know about, `crossed` whether a stop cleared
the token while a refresher stood between its re-read and its write. The Miniserver is assumed to
refuse only tokens it no longer accepts. An aborted refresher can survive only
between its two lock sections, where it does not await, and is taken to finish before
the next session is up.

### Salt, Connect and Connection: from the first request to the session

`Salt.tla` has `SaltState` and what the Miniserver expects of each command. Commands
are pipelined: the handshake and the writer encrypt in the order they write, and a
write that fails ends the session. The clock is the wall clock and may be set.

`Connect.tla` is `session_once` up to the WebSocket, one action per request: the two
probes of `preflight`, `bootstrap_pin`, the public key, `ws_connect`. With https every
request opens a connection whose certificate is verified against `mode` and `pin`; a
certificate is the fingerprint of its key. Each request may fail before the
certificate was seen or after the pin was learned from it.

`Connection.tla` composes the two with the handshake. `phase` is the exchange whose
answer is awaited, `asked` and `stream` are the two directions of the socket. An
exchange may be given up at any time, within a message as well (`torn`), which is
fatal everywhere but in `kill_token`, whose errors `acquire_token` passes over. An
answer is the command it answers and its LL status. `Parses` says which answers the
parser of a step accepts, which is all that separates a step from the late answer to
an earlier one. Where two answers carry the same kind of value the model takes the
parser to accept both.

### Link: framing and clocks

`Link.tla` has the reader's `FrameExpect`, its deadline widened by the announced
length, the keepalive tick and the two `Liveness` counters, against a clock. A timer
that is due fires before the next tick; `prompt` selects a Miniserver that keeps the
throughput the code assumes and answers keepalives within `Delay`, after the message
it is sending. `record_ack` is two steps, its load of `sent` and its capped update,
so that the writer's `record_sent` falls between them.

`on_data_frame` goes by what it expects and not by what was sent. Any Miniserver but a
punctual one may send a stray, a data frame that no header announced. It is handed on
where a payload is expected. Where a header is expected it is skipped, or taken for any
header (`TakenForHeader`), since `parse_header` accepts eight bytes that begin with
the magic one; so is a payload of that size (`Size`) which a stray has displaced. `stray`
says that the reader may be out of step for that reason, `mixed` that it handed on a
message with another frame than its payload without that excuse.

### Tables, Uuid, Control, Echo, Frames: the bytes of a message

`Tables.tla` has `parse_header`, `dispatch_event`, the record walkers with the wire
sizes of their records, and the collectors. A table is composed record by record and may
end after any byte. `Walk` is one turn of a walker's loop: `at` is its position, `Rest`
what is left of the payload, and each turn calls the handler and the collectors once or
ends the walk. The contents of the fields are constants (`Uuids`, `Doubles`, `Texts`,
...), and `TableAssumption` gives them their sizes. `Uuid.tla` has the two string
conversions. `Ordered` gives every character of a name in closed form, where
`format_loxone_bytes` writes them one after the other.

`Control.tla` has the search for `LL.control` with its jumps and limits: a text grows
piece by piece, and `find_control_key` is one turn of the loop, from quote to quote.
The borrow of `zero_byte_mask` is in closed form: the subtraction borrows from a byte
when a zero is below it with only zeros and ones between. `Pieces` is what texts are
composed of, `Utf8` the sequences that `from_utf8` accepts; nothing is assumed of the
latter.

`Echo.tla` has the comparison of an echo with a waiter, on commands as sequences of
segments: `Root` is what stands in front of a leading slash, and a blob is the key it was
encrypted with and its salted plaintext. An answer is one of the spellings an echo may
have.

`Frames.tla` puts the three into one specification; a behaviour reads messages of one
sort. The reference definitions (`Whole`, `Digits`, `Reference`, `Kind`) are plain
searches and layouts that share nothing with the algorithm. Bytes keep their width.

## Runs

| run | instance | shows | distinct states |
|---|---|---|---|
| `prompt` | two commands, a control, a secured control, killtoken on stop | queue order equals wire order, no answer crosses | 658 000 |
| `adverse` | a command, a refresh, a secured control, two sessions, adverse Miniserver | types, each waiting caller in exactly one place, the limit, mismatches counted, `CommandService` implemented | 4 004 000 |
| `liveness` | a command, a refresh, two sessions, adverse | every call ends, `stop()` ends both tasks, but for the waits without a timeout | 105 000 |
| `supervisor` | budgets 0, 1, 2 | ways out, state, `connect()`'s answer, budget, event order, no session after a panic, stop | 4 156 |
| `token` | three tokens, failing and interrupted saves | file = memory, no token left behind, recovery from any dead token or unusable file, a killed token forgotten | 490 000 |
| `connection` | two keys, two uses and age 1 of a salt, two interleaved messages, three on the stream | one key per pin, no crossed answer, a clean start of the session, no refused or outlived salt | 6 377 000 |
| `link` | a tick of 30 s, lengths 0, 1, 2 and 9 units of 960 KiB | deadlines, counters, framing, a deaf peer | 705 000 |
| `frames` | two records a table, five pieces a text, seven commands | walkers, collectors, names, scan and echoes against references | 343 000 |

The bounds are small because the code treats requests alike. In `prompt`, channel
depth 1 with four requests makes senders park, and `MaxPending = 2` is reached. In
`adverse`, `OutDepth = 1` makes the reader wait for the writer, which is the only way
depth matters; two sessions are the fewest in which anything is carried over. Three
tokens are one held, one in a refresher's answer or lost, and one to be issued.
`AttemptCap` is above every budget, so the counter saturates only where it is not
compared with anything. In `connection`, `MaxUse = 2` puts a rotation into every
handshake, `MaxInterleaved = 2` (64 in the code) lets the budget run out, and
`StreamCap = 3` holds a late answer, its successor and a table. In `link` the ratios
are the code's: a period of 60 s, an idle timeout of 150 s, three missed keepalives,
32 KiB/s; the extension is capped at 8 ticks instead of 20, so that the length 9 lies
beyond the cap. A header has the size of the length 1, so that payloads of that size and
of another both occur. In `frames`, texts reach past two words of eight bytes at every
alignment and past both limits (`KeyLimit` and `ValueLimit` are scaled down), counts
include a negative one, and the two uuids differ by the order of two bytes only.
`frames` does not check for deadlock, because a message has a last byte.

### Findings

Four runs show where the code does not do what a comment or the README says; each
is a `violation` run with one property.

- `lateanswer`: an answer that comes after its waiter expired completes the next
  command with `Ok` and shifts the queue for the rest of the session.
- `channel`: the join gives up (10 s) before a stalled write does (20 s); the channel
  is lost and the client ends instead of reconnecting.
- `reset`: a session that fails without a close frame is followed by a reconnect
  without the `ConnectionClosed` handlers are told to reset on.
- `slowtable`: the reader waits longer for a large table, the keepalive check does
  not, and the answers to keepalives cannot overtake the table. With the defaults a
  payload that takes more than 180 to 240 s is never received, at a throughput the
  code says is enough.

Four consequences that the models exhibit have no run of their own. After a shift as
in `lateanswer`, a key answer of another command may be hashed with the visu password:
`flush_visu` goes by the waiter and not by the mismatch that was counted. A control
accepted just before the session ends, or a `DropSession`, is carried out in a later
session. A refresh that is between its two locks while the graceful close runs puts
the killed token back into the store (`crossed` in `Token`); the next handshake
recovers. And "shutdown must not hang on an unresponsive Miniserver" (`client/writer.rs:333`)
is true of what `stop()` returns, not of the tasks: the flush after the close frame has
no timeout and precedes the abort of the read, and a stop that falls into `ws_connect` or a
write of the handshake waits for the peer. `StopCompletes`, `StopEnds` and
`ConnectAnswered` name these waits as exceptions.

### Fairness

Fairness is assumed of a step only if the code bounds it by a timeout or needs nobody
else for it. Where it waits for the peer without a timeout nothing is assumed, and the
properties say what happens if the wait never ends.

- `Session`: weak fairness of the writer and of the supervisor (tokio runs ready
  tasks; each read and write of a session and the join have a timeout), of an aborted
  read and of deadlines. None of the flush after the close frame, none of the handshake:
  `CommandsComplete` and `StopCompletes` except a client that stays in one of them for
  ever, `CommandsComplete` also one that goes on reconnecting without success. The
  Miniserver owes no answers.
- `Supervisor`: weak fairness of its steps outside `Unbounded`, which is the handshake
  (`ws_connect` and the handshake's writes have no timeout and do not look at the stop flag)
  and, after a stop, the wait for the reader and the writer, which the flush may hold. A
  session may last for ever unless its handler has unwound: every message, a keepalive
  answer at the latest, runs the guard, and the lack of one runs into the idle timeout.
- `Token`: the tasks run, a handshake does not fail for ever, and the Miniserver
  eventually drops tokens nobody knows, so that it can issue others. The file system
  may fail for ever.
- `Link`: time passes, timers that are due fire, and the reader finishes `record_ack`,
  which does not await. The Miniserver owes nothing.

## Proofs

All proofs hold for every value of the constants that satisfies the named
assumptions (`RequestsAssumption`, `BoundsAssumption`, `BudgetsAssumption`,
`TokensAssumption`, `KeysAssumption`, `ConnectionAssumption`, `LinkAssumption`,
`IdleAssumption`, `ShortAssumption`, `SaltAssumption`, `CommandsAssumption`,
`ControlAssumption` and `TableAssumption`).

| module | theorem | statement |
|---|---|---|
| `Session_wire` | `TypeCorrect`, `WireOrderHolds` | `Spec => []TypeOK`, `Spec => []WireOrder` |
| `Session_proofs` | `SessionCorrect` | the combined invariant |
| | `SessionImplementsService` | `Spec => ImplementsService` |
| | `AnswersMatchHolds`, `VisuKeyHolds` | `Spec => []AnswersMatch`, `Spec => []VisuKeyMatches` |
| | `AccountedHolds`, `WaitersBoundedHolds`, `WrongKindCountedHolds` | the properties of the same names |
| `Client_proofs` | `EchoMatchesHolds` | `EchoSpec => []EchoMatches` |
| | `SupervisorTypeCorrect`, `EndsClosedHolds`, `ReadyHonestHolds`, `StateHonestHolds`, `BudgetHoldsAlways`, `ClosedIsLastHolds`, `NoSessionAfterPanicHolds` | all safety properties of the run `supervisor` |
| `Token_proofs` | `TokenTypeCorrect`, `MirrorHolds`, `NoneLeftBehindHolds`, `KilledForgottenHolds` | all safety properties of the run |
| `Link_proofs` | `LinkTypeCorrect`, `PatientHolds`, `MissedHonestHolds`, `LossesCountHolds`, `InStepHolds`, `ShortTablesKeptHolds` | the properties of the same names |
| `Connection_proofs` | `NeverRefusedHolds`, `SaltRetiredHolds`, `SaltTypeCorrect` | of `Salt` alone |
| | `ConnectPinHeld` | `ConnectSpec => []PinHeld` |
| | `ConnectionImplements` | `ConnSpec => ConnectSpec /\ Spec`, the composition implements `Connect` and `Salt` |
| | `PinHeldHolds`, `ConnNeverRefused`, `ConnSaltRetired` | the same of `ConnSpec` |
| | `ConnTypeCorrect`, `SessionCleanHolds` | `ConnSpec => []ConnTypeOK`, `ConnSpec => []SessionClean` |
| `Tables_proofs` | `RecordsWholeHolds`, `MapsAgreeHolds` | `TableSpec => []RecordsWhole`, `TableSpec => []MapsAgree` |
| `Frames_proofs` | `ScanAgreesHolds` | `ControlSpec => []ScanAgrees` |
| | `FramesImplement` | `FramesSpec => TableSpec /\ ControlSpec /\ EchoSpec`, which carries the four results over to `Frames` |

- **Session.** `WireOrder` is not inductive: a deadline that passes while answers are
  under way would let the expiry overtake them, and a write after the Miniserver has
  left would put a command back on the wire. `WireInv` adds that nothing is overdue
  while the Miniserver answers or an answer is unread, and that nothing is on its way
  to one that has left. With it the text the reader takes is
  the answer to the oldest waiter; from that follow `AnswersMatch`, `VisuKeyMatches`
  and the `Succeed` step of `CommandService`. Every other step maps to `Issue`, `Fail`
  or a stutter, by a lemma on which statuses each action may change.
  `Accounted` counts, and is proved from facts that do not: `PlaceInv` says of each call
  that its command stands at most once in the channel and at most once in the pending
  queue, not in both, in one of them while it waits, and in none once it was told an
  outcome (that of a dropped future may still be queued or sent); `OwnerInv` says that
  the supervisor has the receiver only from a writer that has finished, and starts a
  session only with it in hand. `WaitersBounded` rests on how the number of commands in a
  queue moves: only the writer's check adds one, and it refuses at the limit. For
  `WrongKindCounted`, `KindInv` adds the answer the reader holds while it hashes, and
  asks nothing of the Miniserver.
- **Supervisor.** `BudgetHolds` alone is not inductive: `BudgetInv` says that each
  session since a productive one was paid for by an attempt, and that the next one is
  paid for before the wait that precedes it (`streak < attempt` at `sleep` and `top`).
  `ReadyInv` ties `connect()`'s answer to where the supervisor is: until it is given no
  handshake has succeeded, so `finish`, the only other place that gives one, is right to
  answer with an error.
- **Token.** `StoreFollows` reduces the file operations to three facts: a token that
  is set is in the file or the file is as before and `failed` is set, likewise for one
  that is cleared, and what is not written stays. `NoneLeftBehind` needs to know what
  the tasks' own copies mean: `CopiesInv` says that the token a handshake or a stop
  works on is the one in memory, that one about to be overwritten is dead or lost, that
  an answered refresh has left no second token, and that a file that could not be
  written holds nothing worth keeping. It holds until a refresh has raced.
  `KilledForgotten` has its own invariant, `ForgottenInv`: after a stop has cleared the
  token, a refresher that was not in its critical section then is not in it later, because
  its re-read finds no token.
- **Salt.** Each command under way continues the one before it, and the client's salt
  is what the Miniserver will expect after the last (`SaltInv`).
- **Link.** `CountInv` relates the counters to what the Miniserver owes, what was lost
  and the answer that `record_ack` holds between its two steps; `WireInv` relates
  `expect` to the message under way, its length included, as long as no stray has come
  between; `PromptInv` says that a punctual Miniserver is
  never more than its due behind, from which the deadline is not reached. `ShortInv`
  bounds the age of the oldest unanswered keepalive by what the stage of the message
  under way still allows (`Allowance`); a tick that finds `MAX_MISSED_KEEPALIVES`
  unanswered needs an older one. `ShortAssumption` states how short the messages must be
  for that; `slowtable` shows what happens to longer ones.
- **Connection.** Every step of the composition is a step or a stutter of each
  component, so what is proved of `Connect` and `Salt` is carried over. `SessionClean` is
  not inductive: `CleanInv` says where the awaited answer is at each phase (still asked,
  or on the stream behind late answers and tables, with only tables after it), and that
  late answers and a torn read are met only at `getkey2`, whose parser takes neither.
- **Echo.** Each spelling is brought back to the command's verb: `canonical` undoes the
  slash and the `j`, `strip_salt_prefix` the two forms of the prefix, and `verb` of a
  command is its `Kind` with `dev` for `jdev`. A blob that cannot be read leaves
  `dev/sys/enc` or nothing to compare, and no command is of that kind
  (`CommandsAssumption`, which also leaves out commands a user spells with `dev`, with a
  slash in front, or with `jdev` and fewer than three segments).
- **Tables.** `RecordsWhole` speaks of the end of a walk only. `TableInv` is `Laid`, the
  records stand in a row in the bytes, each where the one before it and its padding end,
  and `Walked`, the calls so far are those of the first records, all whole, and the walk
  stands where the next one begins. That a turn finds this record when it is all there
  and nothing otherwise (`Found`) is proved for each kind of record from its layout
  alone: the four bytes of a count are read back as the number, a negative one included
  (a text length is unsigned and may be any that fits its word),
  and entries of one size are split where they were joined. For `MapsAgree` the
  invariant is `Mapped`: the map by name has the entries of the other one, each under
  its uuid's name. It rests on two lemmas about names: `NameIs`, that
  `format_loxone_bytes` writes the digits of the fields with dashes after the 8th, 12th
  and 16th, and `NamesDiffer`, that it writes no two uuids alike.
- **Control.** What the words of eight bytes find is the first match of a plain search:
  a byte that is marked without matching has a match below it in its word, so the
  lowest mark of the lowest word with one is right. Both minima are taken over sets of
  numbers, by least elements, and need no induction over the text. `ScanInv` says that
  no key is before the position of the search, and that `ScanAgrees` holds of a search
  that is over.
- **Frames.** Each step of the composition is a step of one part and leaves the
  variables of the others alone.

Only model-checked: the liveness properties (`CommandsComplete`, `StopCompletes`,
`StopEnds`, `ConnectAnswered`, `Recovers`, `DeafDropped`), which are out of the
prover's reach, and the part of `NamesAgree` that goes through `parse`. `parse` skips
dashes with `SelectSeq`, a recursive definition: what it computes for every string needs
an induction the provers cannot do. The rest of `NamesAgree` is `MapsAgree`, which is
proved. The four findings are counterexamples and need no proof.

## Not modelled

- What user callbacks do beyond unwinding, and `ChannelHandler`, which forwards each
  callback into a bounded channel or counts a drop.
- Hashes, RSA, AES, padding, base64 and percent-encoding: conversions of one value into
  another, with no state, whose reference is a standard. The hasher of the collectors'
  maps.
- The JSON, PEM and DER of answers, HTTP redirects and URLs, the text of the token
  record: an answer is usable for a step or it is not. How `valid_until` is computed: a
  token is fresh, near its end or expired.
- Durations: backoff, the refresher's sleep, and all timeouts but those of `Link`.
- Metrics other than whether a mismatch was counted; logging; `walk_daytimer_raw` and
  the accessors of table entries, which the client itself does not call.
- `Supervisor`, `Session` and `Token` are not composed: they meet at the outcome of a
  handshake, the end of a session and a stop, each of which is nondeterministic in the
  others, and their product is out of TLC's reach.

## Running

    tlc -workers 2 -config MCSession_prompt.cfg MCSession
    tlapm Session_wire.tla
