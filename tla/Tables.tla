------------------------------- MODULE Tables -------------------------------
(***************************************************************************)
(* Message headers and event tables: what parse_header, dispatch_event and *)
(* the record walkers make of the bytes of a message, and what the         *)
(* collectors make of a value or a text table.                             *)
(*                                                                         *)
(* Records are laid out with their wire sizes.  The Miniserver composes a  *)
(* table record by record, and the message may end after any byte of it:   *)
(* the walkers see every prefix.                                           *)
(***************************************************************************)
EXTENDS Uuid

CONSTANTS
    MaxRecords,   \* bound: records in one table
    Uuids,        \* the uuids in use, sixteen bytes each
    Doubles,      \* values and default values, eight bytes each
    Stamps,       \* times of the last update, four bytes each
    Texts,        \* texts of text states
    Daytimers,    \* entries of daytimer tables
    Weathers,     \* entries of weather tables
    Negatives     \* counts that no table can have

VARIABLES
    kind,         \* the table under way, a MessageType
    recs,         \* its records
    bytes,        \* their bytes
    starts,       \* what is before each of them
    cut,          \* bytes of the table the message has
    msg_type,     \* the MessageType that is dispatched
    at,           \* bytes that are walked, or Done
    seen,         \* what the handler was called with
    snapshot,     \* collect_values or collect_texts of the message
    named         \* the same, by name

tableVars == <<kind, recs, bytes, starts, cut, msg_type, at, seen, snapshot, named>>

UUID == 16
WORD == 4
DOUBLE == 8
VALUE_RECORD_SIZE == UUID + DOUBLE
TEXT_HEADER_SIZE == UUID + UUID + WORD
DAYTIMER_HEADER_SIZE == UUID + DOUBLE + WORD
DAYTIMER_ENTRY_SIZE == 4 * WORD + DOUBLE
WEATHER_HEADER_SIZE == UUID + WORD + WORD
WEATHER_ENTRY_SIZE == 5 * WORD + 6 * DOUBLE

Byte == 0..255
MaxI32 == ((127 * 256 + 255) * 256 + 255) * 256 + 255

\* Little-endian words of four bytes, unsigned and two's complement.
U32(b) == b[1] + 256 * (b[2] + 256 * (b[3] + 256 * b[4]))
I32(b) ==
    LET high == IF b[4] < 128 THEN b[4] ELSE b[4] - 256
    IN  b[1] + 256 * (b[2] + 256 * (b[3] + 256 * high))

\* A number as a word, of either kind.
Word(n) ==
    LET a == n \div 256
        b == a \div 256
    IN  <<n % 256, a % 256, b % 256, (b \div 256) % 256>>

\* A field has its size, and a length or count fits its word.
ASSUME TableAssumption ==
    /\ Uuids \subseteq [1..UUID -> Byte]
    /\ Doubles \subseteq [1..DOUBLE -> Byte]
    /\ Stamps \subseteq [1..WORD -> Byte]
    /\ Texts \subseteq Seq(Byte) /\ \A t \in Texts : U32(Word(Len(t))) = Len(t)
    /\ Daytimers \subseteq Seq([1..DAYTIMER_ENTRY_SIZE -> Byte])
    /\ Weathers \subseteq Seq([1..WEATHER_ENTRY_SIZE -> Byte])
    /\ \A e \in Daytimers \cup Weathers : Len(e) <= MaxI32
    /\ Negatives \subseteq Int /\ \A n \in Negatives : -MaxI32 <= n /\ n < 0

-----------------------------------------------------------------------------
(* Headers                                                                 *)

MessageTypes == <<"Text", "BinaryFile", "ValueStates", "TextStates", "DaytimerStates",
                  "OutOfService", "Keepalive", "WeatherStates">>

from_u8(v) == IF v < 8 THEN MessageTypes[v + 1] ELSE "None"

\* A frame of another length, or without the magic byte, is no header.
parse_header(buf) ==
    IF Len(buf) # 8 \/ (Len(buf) > 0 /\ Head(buf) # 3) THEN [is |-> FALSE]
    ELSE [is |-> TRUE, identifier |-> buf[2], estimated |-> buf[3] % 2 = 1,
          len |-> U32(SubSeq(buf, 5, 8))]

-----------------------------------------------------------------------------
(* Record walkers: the record a turn of the loop finds in the rest of the  *)
(* payload, if any, and how far it goes on                                 *)

Field(b, before, len) == SubSeq(b, before + 1, before + len)
Rest(b, before) == SubSeq(b, before + 1, Len(b))

walk_values(rest) ==
    IF Len(rest) < VALUE_RECORD_SIZE THEN {}
    ELSE {[uuid |-> Field(rest, 0, UUID), head |-> Field(rest, UUID, DOUBLE), parts |-> <<>>,
           len |-> VALUE_RECORD_SIZE]}

\* Mutant: the next record is looked for where the text ends.
record_len_unpadded(text_len) == TEXT_HEADER_SIZE + text_len

record_len(text_len) == ((TEXT_HEADER_SIZE + text_len + 3) \div 4) * 4

walk_texts(rest) ==
    LET n == U32(Field(rest, 2 * UUID, WORD))
    IN  IF Len(rest) < TEXT_HEADER_SIZE THEN {}
        ELSE IF n > Len(rest) - TEXT_HEADER_SIZE THEN {}
        ELSE {[uuid |-> Field(rest, 0, UUID), head |-> Field(rest, UUID, UUID),
               parts |-> <<Field(rest, TEXT_HEADER_SIZE, n)>>, len |-> record_len(n)]}

entries_of(b, size) == [i \in 1..(Len(b) \div size) |-> Field(b, (i - 1) * size, size)]

\* A whole header, a count and that many entries.
split_table(rest, header, size) ==
    LET n == I32(Field(rest, header - WORD, WORD))
    IN  IF Len(rest) < header THEN {}
        ELSE IF n < 0 \/ n * size > Len(rest) - header THEN {}
        ELSE {[uuid |-> Field(rest, 0, UUID), head |-> Field(rest, UUID, header - UUID - WORD),
               parts |-> entries_of(Field(rest, header, n * size), size),
               len |-> header + n * size]}

walk_daytimers(rest) == split_table(rest, DAYTIMER_HEADER_SIZE, DAYTIMER_ENTRY_SIZE)
walk_weather(rest) == split_table(rest, WEATHER_HEADER_SIZE, WEATHER_ENTRY_SIZE)

\* The walker of an event table; a file is handed on as it is, and the remaining types
\* are no events.
dispatch_event(type, rest) ==
    CASE type = "ValueStates" -> walk_values(rest)
      [] type = "TextStates" -> walk_texts(rest)
      [] type = "DaytimerStates" -> walk_daytimers(rest)
      [] type = "WeatherStates" -> walk_weather(rest)
      [] OTHER -> {}

-----------------------------------------------------------------------------
(* Collectors: a map from what the walkers call back with                  *)

\* The later of two records under a key wins.
insert(map, key, value) ==
    [k \in DOMAIN map \cup {key} |-> IF k = key THEN value ELSE map[k]]

\* Of a text the icon is left out; daytimers and weather are not collected.
collect(type, map, key, call) ==
    CASE type = "ValueStates" -> insert(map, key, call.head)
      [] type = "TextStates" -> insert(map, key, call.parts[1])
      [] OTHER -> map

-----------------------------------------------------------------------------
(* The Miniserver's side: records and their bytes                          *)

\* A record: whose it is, what stands before its count, the count, and what is counted,
\* the entries of a table or the one text.
Record(uuid, head, n, parts) == [uuid |-> uuid, head |-> head, n |-> n, parts |-> parts]

TablesOf(heads, entries) ==
    {Record(u, h, Len(e), e) : u \in Uuids, h \in heads, e \in entries}
    \cup {Record(u, h, n, <<>>) : u \in Uuids, h \in heads, n \in Negatives}

Records(k) ==
    CASE k = "ValueStates" -> {Record(u, d, 0, <<>>) : u \in Uuids, d \in Doubles}
      [] k = "TextStates" -> {Record(u, i, Len(t), <<t>>) : u \in Uuids, i \in Uuids, t \in Texts}
      [] k = "DaytimerStates" -> TablesOf(Doubles, Daytimers)
      [] k = "WeatherStates" -> TablesOf(Stamps, Weathers)

\* Entries of one size, one after the other.
Flat(entries, size) ==
    [i \in 1..(Len(entries) * size) |-> entries[((i - 1) \div size) + 1][((i - 1) % size) + 1]]

Body(k, r) ==
    CASE k = "ValueStates" -> <<>>
      [] k = "TextStates" -> Word(r.n) \o r.parts[1]
      [] k = "DaytimerStates" -> Word(r.n) \o Flat(r.parts, DAYTIMER_ENTRY_SIZE)
      [] k = "WeatherStates" -> Word(r.n) \o Flat(r.parts, WEATHER_ENTRY_SIZE)

\* The record, without padding.
Encode(k, r) == r.uuid \o r.head \o Body(k, r)

Padding(len) == [i \in 1..((4 - (len % 4)) % 4) |-> 0]

\* The call a record stands for.
Call(r) == [uuid |-> r.uuid, head |-> r.head, parts |-> r.parts]

\* Record i is in the message to its last byte, and no count before it is negative.
Whole(i) ==
    /\ starts[i] + Len(Encode(kind, recs[i])) <= cut
    /\ \A j \in 1..i : recs[j].n >= 0

-----------------------------------------------------------------------------
(* The message with a first record, with one more, or with one more byte   *)

Done == -1

TableInit ==
    /\ kind \in {"ValueStates", "TextStates", "DaytimerStates", "WeatherStates"}
    /\ recs = <<>> /\ bytes = <<>> /\ starts = <<>> /\ cut = 0
    /\ msg_type = "None" /\ at = Done /\ seen = <<>> /\ snapshot = <<>> /\ named = <<>>

\* The message is read: its header says what is dispatched.
ReadTable ==
    LET id == CHOOSE v \in 0..7 : from_u8(v) = kind
        header == parse_header(<<3, id, 0, 0>> \o Word(cut'))
    IN  /\ header.is /\ ~header.estimated
        /\ msg_type' = from_u8(header.identifier) /\ at' = 0
        /\ seen' = <<>> /\ snapshot' = <<>> /\ named' = <<>>

TableRecord ==
    /\ at = Done /\ Len(recs) < MaxRecords /\ cut = Len(bytes)
    /\ \E r \in Records(kind) :
         LET b == Encode(kind, r)
         IN  recs' = Append(recs, r) /\ bytes' = bytes \o b \o Padding(Len(b))
    /\ starts' = Append(starts, Len(bytes))
    /\ cut' = cut + 1
    /\ ReadTable
    /\ UNCHANGED kind

TableByte ==
    /\ at = Done /\ cut < Len(bytes)
    /\ cut' = cut + 1
    /\ ReadTable
    /\ UNCHANGED <<kind, recs, bytes, starts>>

\* A turn of the walker's loop, with the handler's call and with the collectors', which
\* walk the same payload.  The padding of the last record may be missing.
Walk ==
    LET rest == Rest(SubSeq(bytes, 1, cut), at)
        found == dispatch_event(msg_type, rest)
    IN  /\ at # Done
        /\ \/ found = {} /\ at' = Done /\ UNCHANGED <<seen, snapshot, named>>
           \/ \E call \in found :
                /\ seen' = Append(seen, Call(call))
                /\ snapshot' = collect(msg_type, snapshot, call.uuid, call)
                /\ named' = collect(msg_type, named, format_loxone_bytes(call.uuid), call)
                /\ at' = IF call.len > Len(rest) THEN Done ELSE at + call.len
        /\ UNCHANGED <<kind, recs, bytes, starts, cut, msg_type>>

TableNext == TableRecord \/ TableByte \/ Walk

TableSpec == TableInit /\ [][TableNext]_tableVars

-----------------------------------------------------------------------------
(* Properties                                                              *)

\* Wherever a message ends, the walkers call the handler once for each record that is in
\* it to the last byte, in order and with the record's own bytes, and never for a part
\* of one: a count or a length that runs past the payload ends the walk, and so does a
\* negative count.
RecordsWhole ==
    at = Done =>
        seen = [i \in 1..Cardinality({i \in DOMAIN recs : Whole(i)}) |-> Call(recs[i])]

\* A consumer that keys its map by name finds under the name LoxAPP3.json gives a uuid
\* what the map by wire bytes holds, and no two uuids share a name.
MapsAgree ==
    /\ Cardinality(DOMAIN named) = Cardinality(DOMAIN snapshot)
    /\ \A u \in DOMAIN snapshot :
         LET name == Dashed(Digits(u), {8, 12, 16})
         IN  name \in DOMAIN named /\ named[name] = snapshot[u]

\* The maps agree, and each other spelling of a uuid, RFC 4122 or upper case included,
\* leads to the same value once it goes through parse and format_loxone_key as uuid.rs
\* tells the consumer to.
NamesAgree ==
    /\ MapsAgree
    /\ \A u \in DOMAIN snapshot :
         /\ \A s \in Spellings(u) :
              /\ parse(s) = u
              /\ format_loxone_bytes(parse(s)) \in DOMAIN named
              /\ named[format_loxone_bytes(parse(s))] = snapshot[u]
         /\ \A s \in Misspellings(u) : parse(s) = InvalidUuid

=============================================================================
