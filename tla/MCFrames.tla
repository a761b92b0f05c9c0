------------------------------ MODULE MCFrames ------------------------------
(***************************************************************************)
(* Two records to a table, texts of up to five pieces, and a command of    *)
(* each shape: with the verb in three segments, twice with the same verb,  *)
(* with it in one segment, and with no arguments left after it.            *)
(***************************************************************************)
EXTENDS Frames

Uuid1 == [i \in 1..16 |-> 15 * i]
\* Differs from Uuid1 by the order of the bytes of data2 only.
Uuid2 == [Uuid1 EXCEPT ![5] = Uuid1[6], ![6] = Uuid1[5]]
MCUuids == {Uuid1, Uuid2}

Bytes(n, len) == [i \in 1..len |-> n]
MCDoubles == {Bytes(1, DOUBLE), Bytes(2, DOUBLE)}
MCStamps == {Bytes(1, WORD), Bytes(2, WORD)}
MCTexts == {Bytes(len + 1, len) : len \in {0, 1, 4, 6}}

\* None, or two that differ, each with a first byte of its own.
MCEntries(size) == {<<>>, <<[Bytes(3, size) EXCEPT ![1] = 4], [Bytes(5, size) EXCEPT ![1] = 6]>>}
MCDaytimers == MCEntries(DAYTIMER_ENTRY_SIZE)
MCWeathers == MCEntries(WEATHER_ENTRY_SIZE)
MCNegatives == {-1, -65536}

\* The key, an opened value, the bytes the scan looks for, and bytes that differ from
\* those by one, by the high bit, or altogether.
MCPieces == {KEY \o <<COLON, QUOTE>>, KEY, <<QUOTE>>, <<COLON>>, <<32>>, <<BACKSLASH>>,
             <<35>>, <<93>>, <<162>>, [i \in 1..7 |-> 120]}

\* No other value of the instance is UTF-8: its one byte above 127 is a continuation byte.
MCUtf8 == Seq(0..127)

MCCommands ==
    {<<"jdev", "sys", "getkey2", "admin">>, <<"jdev", "sys", "getvisusalt", "admin">>,
     <<"jdev", "sps", "io", "light", "on">>, <<"jdev", "sps", "io", "blind", "up">>,
     <<"jdev", "sys", "getkey">>, <<"authwithtoken", "hash", "admin">>,
     <<"data", "LoxAPP3.json">>}

=============================================================================
