---------------------------- MODULE Token_proofs ----------------------------
(***************************************************************************)
(* Proofs about Token, for every set of tokens.                            *)
(***************************************************************************)
EXTENDS Token, TLAPS

\* Every step keeps the types.
LEMMA TokenTypes == TypeOK /\ [Next]_vars => TypeOK'
<1> SUFFICES ASSUME TypeOK, [Next]_vars PROVE TypeOK'
  OBVIOUS
<1> USE DEF TypeOK, refVars, storeVars, Lifetimes, ClearToken, Clear, Loses
<1>t. ASSUME NEW t \in Tokens \cup {None}, SetToken(t)
      PROVE  /\ mem' \in Tokens \cup {None} /\ left' \in Lifetimes /\ kept' \in Lifetimes
             /\ file' \in Tokens \cup {None, Unusable} /\ tmp' \in {"none", "torn", "full"}
             /\ failed' \in BOOLEAN
  BY <1>t DEF SetToken, Save, SaveUpTo
<1>u. store \in Tokens \cup {None}
  BY DEF store, Load
<1>0. Unused \subseteq Tokens
  BY DEF Unused
<1>1. CASE Start
  <2>1. valid' \subseteq Tokens /\ lost' \subseteq Tokens
    BY <1>1 DEF Start
  <2>2. /\ mem' \in Tokens \cup {None} /\ left' \in Lifetimes /\ kept' \in Lifetimes
        /\ file' \in Tokens \cup {None, Unusable} /\ tmp' \in {"none", "torn", "full"}
        /\ failed' \in BOOLEAN
    BY <1>u, <1>1 DEF Start
  <2> QED BY <1>1, <2>1, <2>2 DEF Start
<1>2. CASE Authenticate BY <1>2 DEF Authenticate
<1>3. CASE ReuseOk
  <2>1. PICK t \in Tokens : Extend(cur, t) /\ SetToken(t)
    BY <1>0, <1>3 DEF ReuseOk, Answers
  <2> QED BY <1>t, <1>3, <2>1 DEF ReuseOk, Extend, Up
<1>4. CASE ReuseRefused
  <2>1. file' \in Tokens \cup {None, Unusable} /\ failed' \in BOOLEAN
    BY <1>4 DEF ReuseRefused
  <2> QED BY <1>4, <2>1 DEF ReuseRefused
<1>5. CASE KillDisplaced BY <1>5 DEF KillDisplaced
<1>6. CASE Acquire
  <2>1. PICK t \in Tokens : valid' = valid \cup {t} /\ SetToken(t)
    BY <1>0, <1>6 DEF Acquire
  <2> QED BY <1>t, <1>6, <2>1 DEF Acquire, Up
<1>7. CASE HandshakeFails BY <1>0, <1>7 DEF HandshakeFails, Extend
<1>8. CASE SessionEnds
  <2>1. valid' \subseteq Tokens /\ lost' \subseteq Tokens
    BY <1>8 DEF SessionEnds
  <2>2. /\ file' \in Tokens \cup {None, Unusable} /\ failed' \in BOOLEAN
        /\ mem' \in Tokens \cup {None} /\ UNCHANGED <<left, tmp, kept>>
    BY <1>8 DEF SessionEnds
  <2>3. /\ ref' \in {"none", "idle", "asked", "answered", "read"}
        /\ snap' \in Tokens \cup {None} /\ ans' \in Tokens \cup {None}
    BY <1>8 DEF SessionEnds, AbortRefresher
  <2> QED BY <1>8, <2>1, <2>2, <2>3 DEF SessionEnds
<1>9. CASE RefreshAsk BY <1>9 DEF RefreshAsk
<1>10. CASE RefreshAnswer
  <2>1. PICK t \in Tokens : ans' = t /\ Extend(snap, t)
    BY <1>0, <1>10 DEF RefreshAnswer, Answers
  <2> QED BY <1>10, <2>1 DEF RefreshAnswer, Extend
<1>11. CASE RefreshFails BY <1>0, <1>11 DEF RefreshFails, Extend
<1>12. CASE RefreshReread BY <1>12 DEF RefreshReread
<1>13. CASE RefreshSet BY <1>t, <1>13 DEF RefreshSet
<1>14. CASE Stop BY <1>14 DEF Stop
<1>15. CASE KillToken BY <1>15 DEF KillToken
<1>16. CASE ClearOnStop
  <2>1. file' \in Tokens \cup {None, Unusable} /\ failed' \in BOOLEAN
    BY <1>16 DEF ClearOnStop
  <2> QED BY <1>16, <2>1 DEF ClearOnStop
<1>17. CASE Exit
  <2>1. valid' \subseteq Tokens /\ lost' \subseteq Tokens
    BY <1>17 DEF Exit
  <2> QED BY <1>17, <2>1 DEF Exit, Off
<1>18. CASE Age
  <2>1. left' \in Lifetimes /\ kept' \in Lifetimes
    BY <1>18 DEF Age, Older
  <2> QED BY <1>18, <2>1 DEF Age
<1>19. CASE \E t \in valid : Forget(t) BY <1>19 DEF Forget
<1>20. CASE UNCHANGED vars BY <1>20 DEF vars
<1>21. CASE \E t \in Tokens : CrashInSave(t)
  <2>1. PICK t \in Tokens : CrashInSave(t)
    BY <1>21
  <2>2. valid' \subseteq Tokens
    BY <2>1 DEF CrashInSave, Setting, Extend
  <2> QED BY <2>1, <2>2 DEF CrashInSave, Off, SaveUpTo
<1> QED
  BY <1>1, <1>2, <1>3, <1>4, <1>5, <1>6, <1>7, <1>8, <1>9, <1>10, <1>11, <1>12, <1>13, <1>14,
     <1>15, <1>16, <1>17, <1>18, <1>19, <1>20, <1>21
     DEF Next, Refresher

\* A token that is set is the token in the store, unless the file system failed and
\* the store is as before; one that is cleared likewise.
LEMMA StoreFollows ==
    /\ \A t \in Tokens \cup {None} :
          SetToken(t) => mem' = t /\ store' \in {store, t} /\ (failed' \/ store' = t)
    /\ ClearToken => mem' = None /\ store' \in {store, None} /\ (failed' \/ store' = None)
    /\ file' = file => store' = store
    /\ store \in Tokens \cup {None}
<1>1. ASSUME NEW t \in Tokens \cup {None}, SetToken(t)
      PROVE  mem' = t /\ store' \in {store, t} /\ (failed' \/ store' = t)
  <2>1. mem' = t /\ ((failed' = TRUE /\ file' = file) \/ file' = t)
    BY <1>1 DEF SetToken, Save, SaveUpTo, SaveOps
  <2>2. (file' = t => store' = t) /\ (file' = file => store' = store)
    BY DEF store, Load
  <2> QED BY <2>1, <2>2
<1>2. ASSUME ClearToken
      PROVE  mem' = None /\ store' \in {store, None} /\ (failed' \/ store' = None)
  <2>1. mem' = None /\ ((failed' = TRUE /\ file' = file) \/ file' = None)
    BY <1>2 DEF ClearToken, Clear
  <2>2. (file' = None => store' = None) /\ (file' = file => store' = store)
    BY DEF store, Load
  <2> QED BY <2>1, <2>2
<1>3. (file' = file => store' = store) /\ store \in Tokens \cup {None}
  BY DEF store, Load
<1> QED BY <1>1, <1>2, <1>3

\* Every step that writes one copy of the token writes the other.
LEMMA MirrorStep == TypeOK /\ Mirror /\ [Next]_vars => Mirror'
<1> SUFFICES ASSUME TypeOK, Mirror, [Next]_vars PROVE Mirror'
  OBVIOUS
<1>0. Unused \subseteq Tokens /\ cur \in Tokens \cup {None} /\ ans \in Tokens \cup {None}
  BY DEF Unused, TypeOK
<1>a. file' = file => store' = store
  BY DEF store
<1> USE DEF Mirror, storeVars
<1>1. CASE Start BY <1>a, <1>1, StoreFollows DEF Start
<1>2. CASE ReuseOk \/ Acquire
  <2>1. PICK t \in Tokens \cup {None} : SetToken(t)
    BY <1>0, <1>2 DEF ReuseOk, Acquire, Answers
  <2> QED BY <2>1, StoreFollows
<1>3. CASE ReuseRefused \/ ClearOnStop BY <1>3, StoreFollows DEF ReuseRefused, ClearOnStop
<1>4. CASE SessionEnds BY <1>a, <1>4, StoreFollows DEF SessionEnds
<1>5. CASE RefreshSet BY <1>0, <1>5, StoreFollows DEF RefreshSet
<1>6. CASE Exit \/ (\E t \in Tokens : CrashInSave(t)) BY <1>6 DEF Exit, CrashInSave, Off
<1>7. CASE Authenticate \/ KillDisplaced \/ HandshakeFails \/ Stop \/ KillToken
  BY <1>a, <1>7 DEF Authenticate, KillDisplaced, HandshakeFails, Stop, KillToken
<1>8. CASE RefreshAsk \/ RefreshAnswer \/ RefreshFails \/ RefreshReread
  BY <1>a, <1>8 DEF RefreshAsk, RefreshAnswer, RefreshFails, RefreshReread
<1>9. CASE Age \/ (\E t \in valid : Forget(t)) \/ UNCHANGED vars
  BY <1>a, <1>9 DEF Age, Forget, vars
<1> QED
  BY <1>1, <1>2, <1>3, <1>4, <1>5, <1>6, <1>7, <1>8, <1>9 DEF Next, Refresher

\* Every variable of the token's life keeps its type.
THEOREM TokenTypeCorrect == Spec => []TypeOK
<1>1. Init => TypeOK
  BY DEF Init, TypeOK, Lifetimes
<1> QED
  BY <1>1, TokenTypes, PTL DEF Spec

\* The store always holds what the memory holds while the process runs: set_token
\* and clear_token write both under one lock, whatever the handshake, the
\* refresher and the stopping writer interleave.
THEOREM MirrorHolds == Spec => []Mirror
<1>1. Init => Mirror
  BY DEF Init, Mirror
<1> QED
  BY <1>1, TokenTypeCorrect, MirrorStep, PTL DEF Spec

\* A refresher that waits for an answer asked about a token.  Once a stop has
\* cleared the token outside the refresher's lock sections, nothing brings it back:
\* no refresh begins without a token, and one under way finds the token changed.
ForgottenInv ==
    /\ ref \in {"asked", "answered"} => snap # None
    /\ conn = "bye" /\ killOnStop /\ ~crossed => mem = None /\ ref # "read"

\* Every step keeps a killed token forgotten.
LEMMA ForgottenStep == TypeOK /\ ForgottenInv /\ [Next]_vars => ForgottenInv'
<1> SUFFICES ASSUME TypeOK, ForgottenInv, [Next]_vars PROVE ForgottenInv'
  OBVIOUS
<1> USE DEF ForgottenInv, refVars
<1>1. CASE \/ Start \/ Authenticate \/ ReuseOk \/ ReuseRefused \/ KillDisplaced \/ Acquire
           \/ HandshakeFails
  BY <1>1 DEF Start, Authenticate, ReuseOk, ReuseRefused, KillDisplaced, Acquire, HandshakeFails,
     Up
<1>2. CASE SessionEnds BY <1>2 DEF SessionEnds, AbortRefresher
<1>3. CASE RefreshAsk BY <1>3 DEF RefreshAsk
<1>4. CASE RefreshAnswer \/ RefreshFails BY <1>4 DEF RefreshAnswer, RefreshFails
<1>5. CASE RefreshReread BY <1>5 DEF RefreshReread
<1>6. CASE RefreshSet BY <1>6 DEF RefreshSet
<1>7. CASE Stop \/ KillToken BY <1>7 DEF Stop, KillToken
<1>8. CASE ClearOnStop BY <1>8 DEF ClearOnStop, ClearToken
<1>9. CASE Exit \/ (\E t \in Tokens : CrashInSave(t)) BY <1>9 DEF Exit, CrashInSave, Off
<1>10. CASE Age \/ (\E t \in valid : Forget(t)) \/ UNCHANGED vars
  BY <1>10 DEF Age, Forget, vars
<1> QED
  BY <1>1, <1>2, <1>3, <1>4, <1>5, <1>6, <1>7, <1>8, <1>9, <1>10 DEF Next, Refresher

\* After a stop that kills the token, memory and store stay empty whatever the
\* refresher was waiting for, unless it had already re-read the token or the file
\* could not be removed.
THEOREM KilledForgottenHolds == Spec => []KilledForgotten
<1>1. Init => ForgottenInv
  BY DEF Init, ForgottenInv
<1>2. Mirror /\ ForgottenInv => KilledForgotten
  BY DEF Mirror, ForgottenInv, KilledForgotten
<1> QED
  BY <1>1, <1>2, ForgottenStep, TokenTypeCorrect, MirrorHolds, PTL DEF Spec

-----------------------------------------------------------------------------
(* No token is left behind                                                  *)

\* The refresher outlives its session only between its two locks, and nothing
\* outlives the process.
AliveInv ==
    /\ conn \notin {"up", "kill", "clear", "bye"} => ref \in {"none", "read"}
    /\ conn = "off" => ref = "none" /\ mem = None

\* What the tasks' own copies of the token say about the Miniserver, as long as no
\* refresh has landed outside its session: the one the handshake or the stop works
\* on is still the one in memory; the one about to be overwritten is dead or lost;
\* an answered refresh has left no second token behind, and overwrites the token it
\* extends or, once its session is over, none; and a
\* token file that could not be written holds nothing that is still worth keeping.
CopiesInv ==
    /\ conn \in {"reuse", "displace", "kill"} => cur = mem
    /\ conn \in {"acquire", "clear"} => mem \notin valid \ lost
    /\ ref \in {"answered", "read"} => snap = ans \/ snap \notin valid \ lost
    /\ ref = "read" => mem = snap \/ (mem = None /\ conn # "up")
    /\ conn # "off" /\ store # mem => store \notin valid \ lost

TokenInv == TypeOK /\ Mirror /\ AliveInv /\ NoneLeftBehind /\ (~raced => CopiesInv)

\* The refresher's states belong to the session they were reached in.
LEMMA AliveStep == AliveInv /\ [Next]_vars => AliveInv'
<1> SUFFICES ASSUME AliveInv, [Next]_vars PROVE AliveInv'
  OBVIOUS
<1> USE DEF AliveInv, refVars
<1>1. CASE \/ Start \/ Authenticate \/ ReuseOk \/ ReuseRefused \/ KillDisplaced \/ Acquire
           \/ HandshakeFails
  BY <1>1 DEF Start, Authenticate, ReuseOk, ReuseRefused, KillDisplaced, Acquire, HandshakeFails,
     Up
<1>2. CASE SessionEnds BY <1>2 DEF SessionEnds, AbortRefresher
<1>3. CASE Refresher
  BY <1>3 DEF Refresher, RefreshAsk, RefreshAnswer, RefreshFails, RefreshReread, RefreshSet, Alive
<1>4. CASE Stop \/ KillToken \/ ClearOnStop \/ Exit \/ (\E t \in Tokens : CrashInSave(t))
  BY <1>4 DEF Stop, KillToken, ClearOnStop, ClearToken, Exit, CrashInSave, Off
<1>5. CASE Age \/ (\E t \in valid : Forget(t)) \/ UNCHANGED vars
  BY <1>5 DEF Age, Forget, vars
<1> QED
  BY <1>1, <1>2, <1>3, <1>4, <1>5 DEF Next

\* No step that is not itself a loss leaves a token behind, nor disturbs the copies.
LEMMA LeftBehindStep ==
    TokenInv /\ [Next]_vars => NoneLeftBehind' /\ (~raced => CopiesInv)'
<1> SUFFICES ASSUME TokenInv, [Next]_vars, ~raced'
             PROVE  (valid \subseteq Known \cup lost)' /\ CopiesInv'
  BY DEF NoneLeftBehind
<1>0. ~raced
  BY DEF TokenInv, TypeOK, Next, Start, Authenticate, ReuseOk, ReuseRefused, KillDisplaced, Acquire,
     HandshakeFails, SessionEnds, Refresher, RefreshAsk, RefreshAnswer, RefreshFails,
     RefreshReread, RefreshSet, Stop, KillToken, ClearOnStop, Exit, CrashInSave, Off, Age, Forget,
     vars
<1>a. /\ valid \subseteq {mem, store} \cup Answered \cup lost
      /\ CopiesInv /\ TypeOK /\ AliveInv /\ None \notin valid
  BY <1>0, TokensAssumption DEF TokenInv, NoneLeftBehind, Known, TypeOK
<1>b. \A t \in Unused : t \in Tokens /\ t \notin valid /\ t \notin {mem, store, cur, snap, ans}
  BY DEF Unused, Known
<1>c. cur \in Tokens \cup {None} /\ ans \in Tokens \cup {None}
  BY <1>a DEF TypeOK
<1>d. file' = file => store' = store
  BY StoreFollows
<1> USE DEF Known, CopiesInv, refVars, storeVars, Loses, Extend, Dropped, Answered
<1>1. CASE Start BY <1>a, <1>d, <1>1, StoreFollows DEF Start, AliveInv
<1>2. CASE Authenticate BY <1>a, <1>d, <1>2 DEF Authenticate
<1>3. CASE ReuseOk
  <2>1. PICK t \in {cur} \cup Unused : Extend(cur, t) /\ SetToken(t)
    BY <1>3 DEF ReuseOk, Answers
  <2>2. mem' = t /\ store' \in {store, t}
    BY <1>b, <1>c, <2>1, StoreFollows
  <2> QED BY <1>a, <1>b, <1>3, <2>1, <2>2 DEF ReuseOk, Up, AliveInv
<1>4. CASE ReuseRefused BY <1>a, <1>4, StoreFollows DEF ReuseRefused
<1>5. CASE KillDisplaced BY <1>a, <1>d, <1>5 DEF KillDisplaced
<1>6. CASE Acquire
  <2>1. PICK t \in Unused : valid' = valid \cup {t} /\ SetToken(t)
    BY <1>6 DEF Acquire
  <2>2. mem' = t /\ store' \in {store, t}
    BY <1>b, <2>1, StoreFollows
  <2> QED BY <1>a, <1>b, <1>6, <2>1, <2>2 DEF Acquire, Up, AliveInv
<1>7. CASE HandshakeFails BY <1>a, <1>b, <1>d, <1>7 DEF HandshakeFails
<1>8. CASE SessionEnds BY <1>a, <1>d, <1>8, StoreFollows DEF SessionEnds, AbortRefresher
<1>9. CASE RefreshAsk BY <1>a, <1>d, <1>9 DEF RefreshAsk
<1>10. CASE RefreshAnswer
  <2>1. PICK t \in {snap} \cup Unused : ans' = t /\ Extend(snap, t)
    BY <1>10 DEF RefreshAnswer, Answers
  <2> QED BY <1>a, <1>b, <1>d, <1>10, <2>1 DEF RefreshAnswer
<1>11. CASE RefreshFails BY <1>a, <1>b, <1>d, <1>11 DEF RefreshFails
<1>12. CASE RefreshReread BY <1>a, <1>d, <1>12 DEF RefreshReread
<1>13. CASE RefreshSet
  <2>1. mem' = ans /\ store' \in {store, ans}
    BY <1>c, <1>13, StoreFollows DEF RefreshSet
  <2> QED BY <1>a, <1>13, <2>1 DEF RefreshSet
<1>14. CASE Stop BY <1>a, <1>d, <1>14 DEF Stop
<1>15. CASE KillToken BY <1>a, <1>d, <1>15 DEF KillToken
<1>16. CASE ClearOnStop BY <1>a, <1>16, StoreFollows DEF ClearOnStop
<1>17. CASE Exit BY <1>a, <1>d, <1>17 DEF Exit, Off
<1>18. CASE Age BY <1>a, <1>d, <1>18 DEF Age
<1>19. CASE \E t \in valid : Forget(t) BY <1>a, <1>d, <1>19 DEF Forget
<1>20. CASE UNCHANGED vars BY <1>a, <1>d, <1>20 DEF vars
<1>21. CASE \E t \in Tokens : CrashInSave(t)
  <2>1. PICK t \in Tokens : CrashInSave(t)
    BY <1>21
  <2>2. store' \in {store, t}
    BY <1>d, <2>1 DEF CrashInSave, SaveUpTo, store, Load
  <2>3. CASE conn = "reuse" /\ cur \in valid /\ t \in Answers(cur) /\ Extend(cur, t)
    BY <1>a, <1>b, <2>1, <2>2, <2>3 DEF CrashInSave, Off, Answers
  <2>4. CASE conn = "acquire" /\ t \in Unused /\ valid' = valid \cup {t}
    BY <1>a, <1>b, <2>1, <2>2, <2>4 DEF CrashInSave, Off
  <2>5. CASE ref = "read" /\ t = ans /\ UNCHANGED valid
    BY <1>a, <2>1, <2>2, <2>5 DEF CrashInSave, Off, AliveInv
  <2> QED BY <2>1, <2>3, <2>4, <2>5 DEF CrashInSave, Setting
<1> QED
  BY <1>1, <1>2, <1>3, <1>4, <1>5, <1>6, <1>7, <1>8, <1>9, <1>10, <1>11, <1>12, <1>13, <1>14,
     <1>15, <1>16, <1>17, <1>18, <1>19, <1>20, <1>21
     DEF Next, Refresher

\* The Miniserver holds no token of this client that the client does not hold, but
\* for those a lost message, a death before the save or a refresh outside its session
\* cost it.
THEOREM NoneLeftBehindHolds == Spec => []NoneLeftBehind
<1>1. Init => TokenInv
  BY DEF Init, TokenInv, TypeOK, Lifetimes, Mirror, AliveInv, NoneLeftBehind, CopiesInv
<1>2. TokenInv /\ [Next]_vars => TokenInv'
  BY TokenTypes, MirrorStep, AliveStep, LeftBehindStep DEF TokenInv
<1>3. TokenInv => NoneLeftBehind
  BY DEF TokenInv
<1> QED
  BY <1>1, <1>2, <1>3, PTL DEF Spec

=============================================================================
