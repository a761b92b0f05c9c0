-------------------------------- MODULE Token --------------------------------
(***************************************************************************)
(* The life of the authentication token: the copy in memory, the copy in   *)
(* the TokenStore, and what the Miniserver holds, across reconnects,       *)
(* refreshes, stops and restarts of the process.                           *)
(*                                                                         *)
(* The mutex around the token makes set_token and clear_token one step     *)
(* each for the other tasks, store included.  The file system may fail     *)
(* them and the process may die in them, after any of FileTokenStore's     *)
(* operations.  Everything that reads the token, talks to the Miniserver   *)
(* and then writes it takes several steps, and three tasks do: the         *)
(* handshake, the refresher and the writer that is stopping.               *)
(***************************************************************************)
EXTENDS Naturals

CONSTANTS
    Tokens,   \* the tokens the Miniserver may issue
    None,     \* no token, or no file
    Unusable  \* a file that load() does not accept: another account's, or cut short

ASSUME TokensAssumption == None \notin Tokens /\ Unusable \notin Tokens \cup {None}

VARIABLES
    mem,       \* SharedState::token
    left,      \* the remaining lifetime of that token, as the client sees it
    file,      \* the token file
    tmp,       \* the temporary file beside it
    kept,      \* the remaining lifetime of the token in the file
    failed,    \* the last access to the token file has failed
    valid,     \* the tokens the Miniserver accepts
    conn,      \* where supervisor and writer are
    cur,       \* the token the handshake, or the stopping writer, has read
    ref,       \* where the refresher is
    snap,      \* the token the refresher has read
    ans,       \* the token of the refresher's answer
    killOnStop,\* ConnectConfig::kill_token_on_stop
    lost,      \* history: valid tokens the client had to lose sight of
    raced,     \* history: a refresh landed outside the session it was asked in
    crossed    \* history: the stop cleared the token between the refresher's locks

vars == <<mem, left, file, tmp, kept, failed, valid, conn, cur, ref, snap, ans, killOnStop, lost,
          raced, crossed>>
refVars == <<ref, snap, ans>>
storeVars == <<file, tmp, kept, failed>>

Lifetimes == {"fresh", "near", "expired"}

\* Mutant: the binding of the record is not compared.
LoadAnyBinding(f) == f

\* FileTokenStore::load: a record that is missing, incomplete or another account's
\* is none.
Load(f) == IF f \in Tokens THEN f ELSE None

\* What the TokenStore holds for this binding.
store == Load(file)

Answered == IF ref \in {"answered", "read"} THEN {ans} ELSE {}
Known == {mem, store} \cup Answered
Unused == Tokens \ (valid \cup Known \cup {cur, snap, ans})

Init ==
    /\ mem = None /\ left = "fresh" /\ valid = {} /\ conn = "off"
    /\ file \in {None, Unusable} /\ tmp = "none" /\ kept = "fresh" /\ failed = FALSE
    /\ cur = None /\ ref = "none" /\ snap = None /\ ans = None
    /\ killOnStop \in BOOLEAN /\ lost = {}
    /\ raced = FALSE /\ crossed = FALSE

SaveOps == 4

\* Mutant: the record is written over the old one in place.
SaveInPlace(t, k) ==
    /\ \/ k \in {0, 1} /\ UNCHANGED file
       \/ k \in {2, 3} /\ file' = Unusable
       \/ k = 4 /\ file' = t
    /\ UNCHANGED tmp

\* FileTokenStore::write_record up to its k-th operation: the leftover temporary
\* file is removed, a new one is created, written and synced, and renamed.
SaveUpTo(t, k) ==
    \/ k = 0 /\ UNCHANGED <<file, tmp>>
    \/ k = 1 /\ tmp' = "none" /\ UNCHANGED file
    \/ k = 2 /\ tmp' = "torn" /\ UNCHANGED file
    \/ k = 3 /\ tmp' = "full" /\ UNCHANGED file
    \/ k = 4 /\ file' = t /\ tmp' = "none"

\* FileTokenStore::save: an operation that fails ends it, with a warning.
Save(t) ==
    \/ SaveUpTo(t, SaveOps) /\ kept' = "fresh" /\ failed' = FALSE
    \/ \E k \in 0 .. SaveOps - 1 : SaveUpTo(t, k) /\ failed' = TRUE /\ UNCHANGED kept

\* FileTokenStore::clear: likewise.
Clear ==
    /\ \/ file' = None /\ failed' = FALSE
       \/ file # None /\ failed' = TRUE /\ UNCHANGED file
    /\ UNCHANGED <<tmp, kept>>

\* SharedState::set_token, with the lifetime the answer announced, and clear_token.
SetToken(t) == mem' = t /\ left' = "fresh" /\ Save(t)
ClearToken == mem' = None /\ Clear /\ UNCHANGED left

\* The answer to authwithtoken and refreshjwt may carry a new token in place of
\* the one it extends.
Answers(t) == {t} \cup Unused
Extend(t, u) == valid' = (valid \ {t}) \cup {u}

\* refresher.abort() takes effect at an await: a refresher between its two locks
\* gets past the second one.
AbortRefresher ==
    IF ref = "read" THEN UNCHANGED refVars ELSE ref' = "none" /\ snap' = None /\ ans' = None

\* The token of an answer the client will no longer apply.
Dropped == Answered \ {mem, store}

\* Of the tokens the Miniserver accepts after the step, S are lost in it.
Loses(S) == lost' = (lost \cup S) \cap valid'

-----------------------------------------------------------------------------
(* The handshake                                                           *)

\* connect(): restore_token, which discards what has expired.  A token file that
\* cannot be read counts as none.
Start ==
    /\ conn = "off"
    /\ conn' = "between" /\ UNCHANGED valid
    /\ \/ /\ store # None => kept # "expired"
          /\ mem' = store /\ left' = kept /\ UNCHANGED <<storeVars, lost>>
       \/ store # None /\ kept = "expired" /\ ClearToken /\ Loses({store})
       \/ store # None /\ failed' = TRUE /\ Loses({store}) /\ UNCHANGED <<mem, left, file, tmp, kept>>
    /\ UNCHANGED <<cur, refVars, killOnStop, raced, crossed>>

\* Handshake::authenticate, up to its first exchange.
Authenticate ==
    /\ conn = "between"
    /\ cur' = mem
    /\ conn' = IF mem = None THEN "acquire" ELSE IF left # "fresh" THEN "displace" ELSE "reuse"
    /\ UNCHANGED <<mem, left, storeVars, valid, refVars, killOnStop, lost, raced, crossed>>

\* Session established; its refresher starts.  The one of an earlier session that
\* has not noticed its abort yet is taken to do so first.
Up ==
    /\ ref # "read"
    /\ conn' = "up" /\ cur' = None /\ ref' = "idle" /\ UNCHANGED <<snap, ans>>

\* reuse_token: accepted.
ReuseOk ==
    /\ conn = "reuse" /\ cur \in valid
    /\ \E t \in Answers(cur) : Extend(cur, t) /\ SetToken(t)
    /\ Up /\ Loses({})
    /\ UNCHANGED <<killOnStop, raced, crossed>>

\* Mutant: a refused token is kept for the next attempt.
ReuseKeepsRefused ==
    /\ conn = "reuse" /\ cur \notin valid
    /\ conn' = "between"
    /\ UNCHANGED <<mem, left, storeVars, valid, cur, refVars, killOnStop, lost, raced, crossed>>

\* reuse_token: refused for good (ll_status_invalidates_token).  The Miniserver is
\* taken to refuse only tokens it no longer accepts.
ReuseRefused ==
    /\ conn = "reuse" /\ cur \notin valid
    /\ ClearToken /\ conn' = "acquire" /\ cur' = None
    /\ UNCHANGED <<valid, refVars, killOnStop, lost, raced, crossed>>

\* acquire_token's first half: killtoken for the displaced token.  A failure is
\* ignored.
KillDisplaced ==
    /\ conn = "displace"
    /\ conn' = "acquire" /\ cur' = None
    /\ \/ valid' = valid \ {cur} /\ Loses({})
       \/ UNCHANGED valid /\ Loses({cur})
    /\ UNCHANGED <<mem, left, storeVars, refVars, killOnStop, raced, crossed>>

\* Mutant: the new token reaches the memory and not the store.
AcquireUnsaved ==
    /\ conn = "acquire"
    /\ \E t \in Unused : valid' = valid \cup {t} /\ mem' = t /\ left' = "fresh"
    /\ Up
    /\ failed' = FALSE
    /\ UNCHANGED <<file, tmp, kept, killOnStop, lost, raced, crossed>>

\* acquire_token's second half: getkey2, getjwt, and the new token is set.
Acquire ==
    /\ conn = "acquire"
    /\ \E t \in Unused : valid' = valid \cup {t} /\ SetToken(t)
    /\ Up
    /\ UNCHANGED <<killOnStop, lost, raced, crossed>>

\* An exchange fails (a status such as 503 or 901, a timeout, a broken stream), before
\* the Miniserver has acted on it or after.
HandshakeFails ==
    /\ conn \in {"reuse", "acquire"}
    /\ conn' = "between" /\ cur' = None
    /\ \/ UNCHANGED <<valid, lost>>
       \/ \E t \in Unused :
            /\ \/ conn = "reuse" /\ cur \in valid /\ Extend(cur, t)
               \/ conn = "acquire" /\ valid' = valid \cup {t}
            /\ Loses({t})
    /\ UNCHANGED <<mem, left, storeVars, refVars, killOnStop, raced, crossed>>

\* The session ends; close codes 4004 to 4006 cost the token (token_survives_close).
SessionEnds ==
    /\ conn = "up"
    /\ conn' = "between"
    /\ UNCHANGED valid
    /\ \/ ClearToken /\ Loses(Dropped \cup {mem})
       \/ Loses(Dropped) /\ UNCHANGED <<mem, left, storeVars>>
    /\ AbortRefresher
    /\ UNCHANGED <<cur, killOnStop, raced, crossed>>

-----------------------------------------------------------------------------
(* The refresher                                                           *)

Alive == conn \in {"up", "kill", "clear", "bye"}

\* refresh_once reads the token and asks for its extension.
RefreshAsk ==
    /\ Alive /\ ref = "idle" /\ mem # None
    /\ ref' = "asked" /\ snap' = mem
    /\ UNCHANGED <<mem, left, storeVars, valid, conn, cur, ans, killOnStop, lost, raced, crossed>>

RefreshAnswer ==
    /\ Alive /\ ref = "asked" /\ snap \in valid
    /\ \E t \in Answers(snap) : ans' = t /\ Extend(snap, t)
    /\ ref' = "answered" /\ Loses({})
    /\ UNCHANGED <<mem, left, storeVars, conn, cur, snap, killOnStop, raced, crossed>>

\* The refresh is refused or its answer lost, an extension with it.
RefreshFails ==
    /\ Alive /\ ref = "asked"
    /\ ref' = "idle" /\ snap' = None
    /\ \/ UNCHANGED <<valid, lost>>
       \/ \E t \in Unused : snap \in valid /\ Extend(snap, t) /\ Loses({t})
    /\ UNCHANGED <<mem, left, storeVars, conn, cur, ans, killOnStop, raced, crossed>>

\* Mutant: the token is not read again before the answer is applied to it.
RefreshBlindly ==
    /\ Alive /\ ref = "answered" /\ ref' = "read"
    /\ UNCHANGED <<mem, left, storeVars, valid, conn, cur, snap, ans, killOnStop, lost, raced, crossed>>

\* "Re-read instead of reusing the snapshot": the first lock.
RefreshReread ==
    /\ Alive /\ ref = "answered" /\ UNCHANGED valid
    /\ IF mem = snap
       THEN ref' = "read" /\ UNCHANGED <<snap, ans, lost>>
       ELSE ref' = "idle" /\ snap' = None /\ ans' = None /\ Loses(Dropped)
    /\ UNCHANGED <<mem, left, storeVars, conn, cur, killOnStop, raced, crossed>>

\* set_token: the second lock.
RefreshSet ==
    /\ ref = "read"
    /\ SetToken(ans)
    /\ ref' = (IF Alive THEN "idle" ELSE "none") /\ snap' = None /\ ans' = None
    /\ raced' = (raced \/ conn # "up")
    /\ UNCHANGED <<valid, conn, cur, killOnStop, lost, crossed>>

-----------------------------------------------------------------------------
(* Stopping, restarting, and what the Miniserver does of its own accord    *)

\* graceful_close in a session: kill_token reads the token.
Stop ==
    /\ conn = "up"
    /\ cur' = mem
    /\ conn' = IF killOnStop THEN "kill" ELSE "bye"
    /\ UNCHANGED <<mem, left, storeVars, valid, refVars, killOnStop, lost, raced, crossed>>

\* The kill succeeds, or any part of it fails and is ignored.
KillToken ==
    /\ conn = "kill"
    /\ conn' = "clear"
    /\ \/ valid' = valid \ {cur} /\ Loses({})
       \/ UNCHANGED valid /\ Loses({cur})
    /\ UNCHANGED <<mem, left, storeVars, cur, refVars, killOnStop, raced, crossed>>

\* clear_token, whatever has become of the kill.
ClearOnStop ==
    /\ conn = "clear"
    /\ ClearToken /\ conn' = "bye"
    /\ crossed' = (ref = "read")
    /\ UNCHANGED <<valid, cur, refVars, killOnStop, lost, raced>>

Off ==
    /\ conn' = "off" /\ mem' = None /\ left' = "fresh" /\ cur' = None
    /\ ref' = "none" /\ snap' = None /\ ans' = None /\ failed' = FALSE
    /\ crossed' = FALSE
    /\ UNCHANGED <<killOnStop, raced>>

\* The process is over: after its goodbye, stopped between two sessions (where
\* there is nobody to kill the token), or at once, by a crash.
Exit ==
    /\ conn # "off" /\ Off
    /\ UNCHANGED <<file, tmp, kept, valid>> /\ Loses(({mem} \cup Answered) \ {store})

\* The Miniserver has handed out t, and the task that was told is in set_token.
Setting(t) ==
    \/ conn = "reuse" /\ cur \in valid /\ t \in Answers(cur) /\ Extend(cur, t)
    \/ conn = "acquire" /\ t \in Unused /\ valid' = valid \cup {t}
    \/ ref = "read" /\ t = ans /\ UNCHANGED valid

\* The process dies in set_token, after any operation of the store.  What the store
\* held before is not lost with it.
CrashInSave(t) ==
    /\ Setting(t) /\ Off
    /\ \E k \in 0 .. SaveOps :
          SaveUpTo(t, k) /\ kept' = IF k = SaveOps THEN "fresh" ELSE kept
    /\ Loses(({t, mem} \cup Answered) \ {store, store'})

Older(l) == IF l = "fresh" THEN "near" ELSE "expired"

Age ==
    /\ \/ mem # None /\ left' = Older(left)
       \/ mem = None /\ UNCHANGED left
    /\ \/ store # None /\ kept' = Older(kept)
       \/ store = None /\ UNCHANGED kept
    /\ UNCHANGED <<mem, file, tmp, failed, valid, conn, cur, refVars, killOnStop, lost, raced, crossed>>

\* A token expires on the Miniserver, is revoked, or forgotten in a reboot.
Forget(t) ==
    /\ valid' = valid \ {t} /\ Loses({})
    /\ UNCHANGED <<mem, left, storeVars, conn, cur, refVars, killOnStop, raced, crossed>>

Refresher == RefreshAsk \/ RefreshAnswer \/ RefreshFails \/ RefreshReread \/ RefreshSet

Next ==
    \/ Start \/ Authenticate \/ ReuseOk \/ ReuseRefused \/ KillDisplaced \/ Acquire
    \/ HandshakeFails \/ SessionEnds \/ Refresher \/ Stop \/ KillToken \/ ClearOnStop \/ Exit
    \/ (\E t \in Tokens : CrashInSave(t)) \/ Age \/ \E t \in valid : Forget(t)

Spec == Init /\ [][Next]_vars

\* Handshakes are retried without end, so an exchange that could succeed again and
\* again does; tokens nobody extends expire; the refresher's lock sections are short.
FairSpec ==
    /\ Spec
    /\ WF_vars(Authenticate) /\ WF_vars(KillDisplaced) /\ WF_vars(RefreshSet)
    /\ SF_vars(ReuseOk) /\ SF_vars(ReuseRefused) /\ SF_vars(Acquire)
    /\ WF_vars(\E t \in valid \ Known : Forget(t))

-----------------------------------------------------------------------------
(* Properties                                                              *)

TypeOK ==
    /\ mem \in Tokens \cup {None} /\ left \in Lifetimes
    /\ file \in Tokens \cup {None, Unusable} /\ tmp \in {"none", "torn", "full"}
    /\ kept \in Lifetimes /\ failed \in BOOLEAN
    /\ cur \in Tokens \cup {None} /\ snap \in Tokens \cup {None} /\ ans \in Tokens \cup {None}
    /\ valid \subseteq Tokens /\ lost \subseteq Tokens
    /\ conn \in {"off", "between", "reuse", "displace", "acquire", "up", "kill", "clear", "bye"}
    /\ ref \in {"none", "idle", "asked", "answered", "read"}
    /\ killOnStop \in BOOLEAN /\ raced \in BOOLEAN /\ crossed \in BOOLEAN

\* "The saved value always matches the last one set": while the process runs and its
\* file system serves it, the store holds exactly what the memory holds, whatever
\* the tasks interleave.
Mirror == conn # "off" /\ ~failed => store = mem

\* The Miniserver's token storage does not fill up with tokens of this client: each
\* token it accepts is the one the client holds, unless a message about it was lost,
\* the process died before it was saved, or a refresh landed outside the session it
\* was asked in.  In particular "an interrupted save leaves the previous token
\* intact".
NoneLeftBehind == ~raced => valid \subseteq Known \cup lost

\* A token that has died never wedges the client, nor does a store that cannot be
\* written: every reconnect leads to a session, or the process ends.
Recovers == conn = "between" ~> conn \in {"up", "off"}

\* "The token is worthless now, so a store must not keep offering it to the next
\* run": once graceful_close has cleared it, memory and store stay empty until the
\* process ends, whatever refresh was asked for or answered before, during or after
\* the stop.  Only a refresher that had re-read the token and not yet written it
\* when it was cleared brings it back.
KilledForgotten ==
    conn = "bye" /\ killOnStop /\ ~crossed => mem = None /\ (store = None \/ failed)

=============================================================================
