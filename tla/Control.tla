------------------------------- MODULE Control ------------------------------
(***************************************************************************)
(* LL.control: the scan that takes it out of a type-0 text without parsing *)
(* the text, eight bytes at a time.                                        *)
(***************************************************************************)
EXTENDS Integers, Sequences, FiniteSetsExt

CONSTANTS
    KeyLimit,      \* CONTROL_KEY_SCAN_LIMIT
    ValueLimit,    \* CONTROL_VALUE_LIMIT
    Utf8,          \* the sequences of bytes that from_utf8 accepts
    Pieces,        \* what texts are composed of, sequences of bytes
    MaxPieces      \* bound: pieces a text is composed of

ASSUME ControlAssumption ==
    /\ KeyLimit \in Nat /\ ValueLimit \in Nat /\ MaxPieces \in Nat
    /\ \A p \in Pieces : p \in Seq(0..255)

VARIABLES
    text,          \* the type-0 text that is read
    pieces,        \* the pieces it is composed of
    from,          \* where find_control_key is in it, or 0 when the search is over
    control        \* what extract_ll_control found in it

controlVars == <<text, pieces, from, control>>

-----------------------------------------------------------------------------
(* Bytes.  Positions count from 1, and 0 is None.                          *)

QUOTE == 34
COLON == 58
BACKSLASH == 92
Whitespace == {9, 10, 12, 13, 32}
KEY == <<34, 99, 111, 110, 116, 114, 111, 108, 34>>

First(S) == IF S = {} THEN 0 ELSE Min(S)
From(s, i) == SubSeq(s, i, Len(s))
Limited(s, n) == SubSeq(s, 1, IF Len(s) < n THEN Len(s) ELSE n)

\* byte ^ needle, bit by bit.
Xor(byte, needle) ==
    LET bit(k) == k * (((byte \div k) + (needle \div k)) % 2)
    IN  bit(1) + bit(2) + bit(4) + bit(8) + bit(16) + bit(32) + bit(64) + bit(128)

\* The bytes that are searched for.
XorWith == [needle \in {QUOTE, COLON, BACKSLASH} |-> [byte \in 0..255 |-> Xor(byte, needle)]]

\* The bytes whose high bit zero_byte_mask sets.  word - ONES borrows from a byte for a
\* zero below it, if there are but ones and zeros between them: a byte above a zero one
\* may be marked without being zero.
zero_byte_mask(word) ==
    LET borrow(i) == IF \E k \in 1..(i - 1) : /\ word[k] = 0
                                             /\ \A m \in (k + 1)..(i - 1) : word[m] <= 1
                     THEN 1 ELSE 0
    IN  {i \in 1..8 : word[i] < 128 /\ (word[i] - 1 - borrow(i)) % 256 >= 128}

\* Mutant: leading_zeros, the last mark of a word instead of its first.
first_mark_from_the_top(mask) == Max(mask)

\* mask.trailing_zeros() / 8
first_mark(mask) == Min(mask)

find_either(haystack, a, b) ==
    LET chunks == Len(haystack) \div 8
        word(k) == SubSeq(haystack, 8 * k + 1, 8 * k + 8)
        xor(w, needle) == [i \in 1..8 |-> XorWith[needle][w[i]]]
        mask == [k \in 0..(chunks - 1) |-> zero_byte_mask(xor(word(k), a))
                                           \cup zero_byte_mask(xor(word(k), b))]
        hits == {k \in DOMAIN mask : mask[k] # {}}
    IN  IF hits # {} THEN 8 * Min(hits) + first_mark(mask[Min(hits)])
        ELSE First({i \in (8 * chunks + 1)..Len(haystack) : haystack[i] \in {a, b}})

find_byte(haystack, needle) == find_either(haystack, needle, needle)

\* No value: a value is a sequence of bytes.
None == <<256>>

\* extract_ll_control from the key on.
value_after(payload, key) ==
    LET after_key == From(payload, key + 9)
        colon == find_byte(after_key, COLON)
        after_colon == From(after_key, colon + 1)
        quote == First({i \in DOMAIN after_colon : after_colon[i] \notin Whitespace})
        value == Limited(From(after_colon, quote + 1), ValueLimit)
        end == find_either(value, QUOTE, BACKSLASH)
    IN  IF colon = 0 \/ quote = 0 THEN None
        ELSE IF after_colon[quote] # QUOTE \/ end = 0 THEN None
        ELSE IF value[end] # QUOTE \/ SubSeq(value, 1, end - 1) \notin Utf8 THEN None
        ELSE SubSeq(value, 1, end - 1)

-----------------------------------------------------------------------------
(* A text and its search                                                   *)

ControlInit == text = <<>> /\ pieces = 0 /\ from = 0 /\ control = None

\* The text of a frame, a piece longer than the one before.
ReadText ==
    /\ from = 0 /\ pieces < MaxPieces /\ pieces' = pieces + 1
    /\ \E p \in Pieces : text' = text \o p
    /\ from' = 1 /\ control' = None

\* A turn of find_control_key's loop, from quote to quote: eight bytes are compared as a
\* word, the ninth by itself.
find_control_key ==
    LET window == Limited(text, KeyLimit)
        last == Len(window) - 8
        found == find_byte(From(window, from), QUOTE)
        at == from + found - 1
        none == from > last \/ found = 0 \/ at > last
        here == SubSeq(window, at, at + 7) = SubSeq(KEY, 1, 8) /\ window[at + 8] = QUOTE
    IN  /\ from # 0 /\ UNCHANGED <<text, pieces>>
        /\ \/ none /\ from' = 0 /\ control' = None
           \/ ~none /\ here /\ from' = 0 /\ control' = value_after(text, at)
           \/ ~none /\ ~here /\ from' = at + 1 /\ UNCHANGED control

ControlNext == ReadText \/ find_control_key

ControlSpec == ControlInit /\ [][ControlNext]_controlVars

-----------------------------------------------------------------------------
(* Properties                                                              *)

\* The value of the first control key that starts and ends within the limit, as a
\* search byte by byte would find it.
Reference(payload) ==
    LET is(i, S) == i \in DOMAIN payload /\ payload[i] \in S
        key == First({i \in 1..(Len(payload) - 8) :
                        i + 8 <= KeyLimit /\ SubSeq(payload, i, i + 8) = KEY})
        colon == First({i \in (key + 9)..Len(payload) : is(i, {COLON})})
        open == First({i \in (colon + 1)..Len(payload) : ~is(i, Whitespace)})
        close == First({i \in (open + 1)..Len(payload) : is(i, {QUOTE, BACKSLASH})})
    IN  IF /\ key # 0 /\ colon # 0 /\ open # 0 /\ close # 0
           /\ is(open, {QUOTE}) /\ is(close, {QUOTE}) /\ close - open <= ValueLimit
           /\ SubSeq(payload, open + 1, close - 1) \in Utf8
        THEN SubSeq(payload, open + 1, close - 1) ELSE None

\* extract_ll_control, with its borrowing words, its jumps from quote to quote and its
\* two limits, finds what a search byte by byte finds, at every alignment.
ScanAgrees == from = 0 => control = Reference(text)

=============================================================================
