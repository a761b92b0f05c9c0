------------------------- MODULE Connection_proofs --------------------------
(***************************************************************************)
(* The Miniserver never refuses a salt, for every limit.  Connection       *)
(* implements its two components: every step of it is a step of Connect or *)
(* leaves Connect's variables alone, and likewise for Salt.  What is       *)
(* proved of the components then holds of the whole.  The handshake hands  *)
(* a clean stream to the session.                                          *)
(***************************************************************************)
EXTENDS Connection, SequenceTheorems, TLAPS

-----------------------------------------------------------------------------
(* The command salt                                                        *)

Commands == [salt : Nat, next : Nat]

\* The salt the Miniserver expects when it comes to the i-th command under way.
Expected(i) == IF i = 1 THEN server ELSE wire[i - 1].salt

\* Each command under way continues the one before it, and the client's salt is the
\* one the Miniserver will expect after the last.
SaltInv ==
    /\ ~refused
    /\ wire \in Seq(Commands) /\ server \in Nat /\ salt \in Nat /\ drawn \in Nat
    /\ \A i \in 1..Len(wire) :
        IF wire[i].next = 0 THEN Expected(i) \in {0, wire[i].salt} ELSE Expected(i) = wire[i].next
    /\ salt = IF wire = <<>> THEN server ELSE wire[Len(wire)].salt

\* Encrypting a command that continues from the current salt extends the chain.
LEMMA ChainAppend ==
    ASSUME SaltInv, NEW c \in Commands, wire' = Append(wire, c), salt' = c.salt,
           UNCHANGED <<server, refused>>, drawn' \in Nat,
           IF c.next = 0 THEN salt \in {0, c.salt} ELSE salt = c.next
    PROVE  SaltInv'
<1>1. /\ wire \in Seq(Commands) /\ wire' \in Seq(Commands) /\ Len(wire') = Len(wire) + 1
      /\ Len(wire) \in Nat /\ wire'[Len(wire) + 1] = c /\ wire' # <<>>
      /\ \A i \in 1..Len(wire) : wire'[i] = wire[i]
  BY DEF SaltInv
<1>2. \A i \in 1..Len(wire) : Expected(i)' = Expected(i)
  BY <1>1 DEF Expected
<1>3. ASSUME NEW n \in Nat, n = Len(wire) + 1 PROVE Expected(n)' = salt
  <2>1. CASE wire = <<>>
    BY <1>1, <1>3, <2>1 DEF SaltInv, Expected
  <2>2. CASE wire # <<>>
    BY <1>1, <1>3, <2>2 DEF SaltInv, Expected
  <2> QED BY <2>1, <2>2
<1>4. ASSUME NEW i \in 1..Len(wire')
      PROVE  IF wire'[i].next = 0 THEN Expected(i)' \in {0, wire'[i].salt}
             ELSE Expected(i)' = wire'[i].next
  <2>1. CASE i = Len(wire) + 1
    BY <1>1, <1>3, <2>1
  <2>2. CASE i # Len(wire) + 1
    BY <1>1, <1>2, <2>2 DEF SaltInv
  <2> QED BY <2>1, <2>2
<1>5. salt' \in Nat /\ server' \in Nat /\ ~refused'
  BY DEF SaltInv, Commands
<1> QED BY <1>1, <1>4, <1>5 DEF SaltInv

\* Every step keeps the chain of salts.
LEMMA SaltStep == SaltInv /\ [Next]_vars => SaltInv'
<1> SUFFICES ASSUME SaltInv, [Next]_vars PROVE SaltInv'
  OBVIOUS
<1>1. CASE Encrypt
  <2>1. CASE salt = 0 \/ NewSaltNeeded
    <3> DEFINE c == [salt |-> drawn + 1, next |-> salt]
    <3>1. c \in Commands /\ drawn' = drawn + 1 /\ drawn' \in Nat
      BY <1>1, <2>1 DEF Encrypt, SaltInv, Commands
    <3>2. wire' = Append(wire, c) /\ salt' = c.salt /\ c.next = salt
      BY <1>1, <2>1 DEF Encrypt
    <3>3. UNCHANGED <<server, refused>>
      BY <1>1 DEF Encrypt
    <3> HIDE DEF c
    <3> QED BY <3>1, <3>2, <3>3, ChainAppend
  <2>2. CASE ~(salt = 0 \/ NewSaltNeeded)
    <3> DEFINE c == [salt |-> salt, next |-> 0]
    <3>1. c \in Commands /\ drawn' \in Nat
      BY <1>1, <2>2 DEF Encrypt, SaltInv, Commands
    <3>2. wire' = Append(wire, c) /\ salt' = salt /\ c.salt = salt /\ c.next = 0
      BY <1>1, <2>2 DEF Encrypt
    <3>3. UNCHANGED <<server, refused>>
      BY <1>1 DEF Encrypt
    <3> HIDE DEF c
    <3> QED BY <3>1, <3>2, <3>3, ChainAppend
  <2> QED BY <2>1, <2>2
<1>2. CASE Serve
  <2>1. /\ wire \in Seq(Commands) /\ wire # <<>> /\ wire' = Tail(wire)
        /\ server' = wire[1].salt /\ UNCHANGED <<salt, drawn>>
    BY <1>2 DEF Serve, SaltInv
  <2>2. /\ wire' \in Seq(Commands) /\ Len(wire') = Len(wire) - 1 /\ Len(wire) \in Nat
        /\ Len(wire) > 0 /\ wire[1] \in Commands
        /\ \A i \in 1..Len(wire') : wire'[i] = wire[i + 1]
    BY <2>1
  <2>3. \A i \in 1..Len(wire') : Expected(i)' = Expected(i + 1)
    BY <2>1, <2>2 DEF Expected
  <2>4. ~refused'
    <3>1. IF wire[1].next = 0 THEN server \in {0, wire[1].salt} ELSE server = wire[1].next
      BY <2>2 DEF SaltInv, Expected
    <3>2. /\ ~refused
          /\ refused' = (refused \/ (IF wire[1].next = 0 THEN server \notin {0, wire[1].salt}
                                     ELSE server # wire[1].next))
      BY <1>2, <2>1 DEF Serve, SaltInv
    <3>3. CASE wire[1].next = 0
      BY <3>1, <3>2, <3>3, Zenon
    <3>4. CASE wire[1].next # 0
      BY <3>1, <3>2, <3>4, Zenon
    <3> QED BY <3>3, <3>4
  <2>5. \A i \in 1..Len(wire') :
          IF wire'[i].next = 0 THEN Expected(i)' \in {0, wire'[i].salt}
          ELSE Expected(i)' = wire'[i].next
    BY <2>2, <2>3 DEF SaltInv
  <2>6. salt' = IF wire' = <<>> THEN server' ELSE wire'[Len(wire')].salt
    <3>1. salt = wire[Len(wire)].salt
      BY <2>1 DEF SaltInv
    <3>2. CASE Len(wire) = 1
      <4>1. wire' = <<>>
        BY <2>2, <3>2
      <4> QED BY <2>1, <3>1, <3>2, <4>1
    <3>3. CASE Len(wire) # 1
      <4>1. Len(wire') \in 1..Len(wire') /\ Len(wire') + 1 = Len(wire) /\ wire' # <<>>
        BY <2>2, <3>3
      <4>2. wire'[Len(wire')] = wire[Len(wire)]
        BY <2>2, <4>1
      <4> QED BY <2>1, <3>1, <4>1, <4>2
    <3> QED BY <3>2, <3>3
  <2>7. server' \in Nat /\ salt' \in Nat /\ drawn' \in Nat
    BY <2>1, <2>2 DEF SaltInv, Commands
  <2> QED BY <2>2, <2>4, <2>5, <2>6, <2>7 DEF SaltInv
<1>3. CASE Tick \/ UNCHANGED vars
  BY <1>3 DEF Tick, vars, SaltInv, Expected
<1>4. CASE Reconnect
  BY <1>4 DEF Reconnect, SaltInv, Expected
<1> QED BY <1>1, <1>2, <1>3, <1>4 DEF Next

\* No command is ever refused for its salt, whatever the limits on a salt's use and
\* age, the number of commands under way and the number of reconnects.
THEOREM NeverRefusedHolds == Spec => []NeverRefused
<1>1. Init => SaltInv
  BY DEF Init, SaltInv, Expected
<1>2. SaltInv => NeverRefused
  BY DEF SaltInv, NeverRefused
<1> QED BY <1>1, <1>2, SaltStep, PTL DEF Spec

\* The count of uses starts with the command that draws the salt.
UseInv == used \in 0..MaxUse /\ uses \in Nat /\ uses <= used + 1

\* A salt is given up after SALT_MAX_USE_COUNT further commands, whatever the clock
\* says and however often it is set.
THEOREM SaltRetiredHolds == Spec => []SaltRetired
<1> USE SaltAssumption DEF UseInv
<1>1. Init => UseInv
  BY DEF Init
<1>2. UseInv /\ [Next]_vars => UseInv'
  BY DEF Next, Encrypt, NewSaltNeeded, Tick, Serve, Reconnect, vars
<1>3. UseInv => SaltRetired
  BY DEF SaltRetired
<1> QED BY <1>1, <1>2, <1>3, PTL DEF Spec

\* A later draw leaves the commands under way well formed.
LEMMA WireGrows ==
    ASSUME NEW d \in Nat, NEW w \in Seq([salt : 1..d, next : 0..d])
    PROVE  w \in Seq([salt : 1..(d + 1), next : 0..(d + 1)])
<1>1. [salt : 1..d, next : 0..d] \subseteq [salt : 1..(d + 1), next : 0..(d + 1)]
  OBVIOUS
<1> QED BY <1>1, SeqMonotonic

\* Every field of the salt state keeps its type and its bound, through draws, uses,
\* clock changes and reconnects.
THEOREM SaltTypeCorrect == Spec => []TypeOK
<1> USE SaltAssumption
<1>1. Init => TypeOK
  <2> SUFFICES ASSUME Init PROVE TypeOK
    OBVIOUS
  <2>1. wire \in Seq([salt : 1..drawn, next : 0..drawn]) /\ Len(wire) = 0
    BY EmptySeq DEF Init
  <2>2. /\ drawn \in 0..MaxDraws /\ salt \in 0..drawn /\ server \in 0..drawn
        /\ used \in 0..MaxUse /\ uses \in Nat /\ age \in 0..AgeCap /\ 0 <= WireCap
    BY DEF Init
  <2>3. refused \in BOOLEAN
    BY DEF Init
  <2> QED BY <2>1, <2>2, <2>3 DEF TypeOK
<1>2. TypeOK /\ [Next]_vars => TypeOK'
  <2> SUFFICES ASSUME TypeOK, [Next]_vars PROVE TypeOK'
    OBVIOUS
  <2>1. CASE Encrypt
    <3>1. CASE salt = 0 \/ NewSaltNeeded
      <4>1. /\ drawn' = drawn + 1 /\ salt' = drawn + 1 /\ used' = 0 /\ age' = 0 /\ uses' = 1
            /\ wire' = Append(wire, [salt |-> drawn + 1, next |-> salt])
            /\ UNCHANGED <<server, refused>> /\ Len(wire) < WireCap /\ drawn < MaxDraws
        BY <2>1, <3>1 DEF Encrypt
      <4>2. /\ wire \in Seq([salt : 1..(drawn + 1), next : 0..(drawn + 1)])
            /\ [salt |-> drawn + 1, next |-> salt] \in [salt : 1..(drawn + 1), next : 0..(drawn + 1)]
        <5>1. drawn \in Nat /\ salt \in 0..drawn /\ wire \in Seq([salt : 1..drawn, next : 0..drawn])
          BY DEF TypeOK
        <5>2. wire \in Seq([salt : 1..(drawn + 1), next : 0..(drawn + 1)])
          BY <5>1, WireGrows
        <5> QED BY <5>1, <5>2
      <4>3. /\ wire' \in Seq([salt : 1..(drawn + 1), next : 0..(drawn + 1)])
            /\ Len(wire') = Len(wire) + 1 /\ Len(wire) \in Nat
        BY <4>1, <4>2
      <4> QED BY <4>1, <4>3 DEF TypeOK
    <3>2. CASE ~(salt = 0 \/ NewSaltNeeded)
      <4>1. /\ used' = used + 1 /\ uses' = uses + 1 /\ used + 1 <= MaxUse
            /\ wire' = Append(wire, [salt |-> salt, next |-> 0])
            /\ UNCHANGED <<salt, age, drawn, server, refused>> /\ Len(wire) < WireCap
        BY <2>1, <3>2 DEF Encrypt, NewSaltNeeded, TypeOK
      <4>2. [salt |-> salt, next |-> 0] \in [salt : 1..drawn, next : 0..drawn]
        BY <3>2 DEF TypeOK
      <4>3. /\ wire' \in Seq([salt : 1..drawn, next : 0..drawn])
            /\ Len(wire') = Len(wire) + 1 /\ Len(wire) \in Nat
        BY <4>1, <4>2 DEF TypeOK
      <4> QED BY <4>1, <4>3 DEF TypeOK
    <3> QED BY <3>1, <3>2
  <2>2. CASE Serve
    <3>1. /\ wire # <<>> /\ wire' = Tail(wire) /\ server' = wire[1].salt
          /\ UNCHANGED <<salt, used, age, drawn, uses>>
      BY <2>2 DEF Serve, TypeOK
    <3>2. /\ wire[1] \in [salt : 1..drawn, next : 0..drawn]
          /\ wire' \in Seq([salt : 1..drawn, next : 0..drawn])
          /\ Len(wire') = Len(wire) - 1 /\ Len(wire) \in Nat
      <4> DEFINE S == [salt : 1..drawn, next : 0..drawn]
      <4>1. wire \in Seq(S)
        BY DEF TypeOK
      <4> HIDE DEF S
      <4>2. wire[1] \in S /\ wire' \in Seq(S) /\ Len(wire') = Len(wire) - 1 /\ Len(wire) \in Nat
        BY <3>1, <4>1
      <4> QED BY <4>2 DEF S
    <3>3. refused' \in BOOLEAN
      BY <2>2, Zenon DEF Serve, TypeOK
    <3> QED BY <3>1, <3>2, <3>3 DEF TypeOK
  <2>3. CASE Tick \/ UNCHANGED vars
    BY <2>3 DEF Tick, vars, TypeOK
  <2>4. CASE Reconnect
    BY <2>4 DEF Reconnect, TypeOK
  <2> QED BY <2>1, <2>2, <2>3, <2>4 DEF Next
<1> QED BY <1>1, <1>2, PTL DEF Spec

-----------------------------------------------------------------------------
(* The pin                                                                 *)

\* The verifier lets a key pass only as the pin, and the pin stays.
PinInv == pins => accepted \subseteq {pin} \cap Keys

\* Verifying a certificate keeps the invariant.
LEMMA VerifyKeepsPin ==
    ASSUME PinInv, NEW k \in Keys, VerifyServerCert(k), mode' = mode
    PROVE  PinInv'
  BY KeysAssumption DEF PinInv, VerifyServerCert, pins

\* So does a request, whether it succeeds or not.
LEMMA RequestKeepsPin ==
    ASSUME PinInv, mode' = mode, Fails \/ Reaches
    PROVE  PinInv'
  BY VerifyKeepsPin DEF Fails, Reaches, tlsVars, PinInv, pins

\* Every step of Connect keeps the pin.
LEMMA PinStep == PinInv /\ [ConnectNext]_connectVars => PinInv'
<1> SUFFICES ASSUME PinInv, [ConnectNext]_connectVars PROVE PinInv'
  OBVIOUS
<1>1. ASSUME UNCHANGED <<mode, pin, accepted>> PROVE PinInv'
  BY <1>1 DEF PinInv, pins
<1>2. CASE SessionOnce \/ Disconnect \/ UNCHANGED connectVars
  BY <1>1, <1>2 DEF SessionOnce, Disconnect, connectVars, tlsVars
<1>3. CASE ProbeApiKey \/ ProbeApi \/ GetPublicKey \/ WsConnect
  BY <1>3, RequestKeepsPin DEF ProbeApiKey, ProbeApi, GetPublicKey, WsConnect
<1>4. CASE Bootstrap
  <2>0. mode' = mode
    BY <1>4 DEF Bootstrap
  <2>1. CASE UNCHANGED tlsVars
    BY <1>1, <2>0, <2>1 DEF tlsVars
  <2>2. CASE Fails
    BY <2>0, <2>2, RequestKeepsPin
  <2>3. CASE tls /\ ~UNCHANGED tlsVars /\ ~Fails
    BY <1>4, <2>0, <2>3, VerifyKeepsPin DEF Bootstrap
  <2>4. CASE ~tls /\ ~UNCHANGED tlsVars /\ ~Fails
    <3>1. PICK a \in Keys : needs_pin_bootstrap /\ AdoptSpki(pin, a) /\ accepted' = accepted
      BY <1>4, <2>4 DEF Bootstrap
    <3>2. pins => accepted = {}
      BY <3>1, KeysAssumption DEF PinInv, needs_pin_bootstrap
    <3> QED BY <2>0, <3>1, <3>2 DEF PinInv, pins
  <2> QED BY <2>1, <2>2, <2>3, <2>4
<1> QED BY <1>2, <1>3, <1>4 DEF ConnectNext

\* Whatever comes first and however many attempts fail, one key is let through.
THEOREM ConnectPinHeld == ConnectSpec => []PinHeld
<1>1. ConnectInit => PinInv
  BY DEF ConnectInit, PinInv
<1>2. PinInv => PinHeld
  BY DEF PinInv, PinHeld
<1> QED BY <1>1, <1>2, PinStep, PTL DEF ConnectSpec

\* A request of the handshake is an Encrypt, and the end of a connection a Disconnect.
LEMMA HandshakeParts ==
    /\ \A c : Request(c) => Encrypt /\ UNCHANGED connectVars
    /\ Dropped => Disconnect /\ UNCHANGED vars
    /\ Err => \/ Encrypt /\ UNCHANGED connectVars
              \/ Disconnect /\ UNCHANGED vars
  BY DEF Request, Dropped, Err

\* An answer leads to a request, to the session or to the end of the connection.
LEMMA AnswerParts ==
    ASSUME NEW m, OnAnswer(m)
    PROVE  \/ Encrypt /\ UNCHANGED connectVars
           \/ Disconnect /\ UNCHANGED vars
           \/ UNCHANGED <<vars, connectVars>>
<1>1. CASE Parses(m.of) /\ (m.status = "ok" \/ phase = "killtoken")
  <2>1. Proceed
    BY <1>1 DEF OnAnswer
  <2> QED BY <2>1, HandshakeParts DEF Proceed, Authenticate, EnableUpdates
<1>2. CASE ~(Parses(m.of) /\ (m.status = "ok" \/ phase = "killtoken"))
  BY <1>2, HandshakeParts DEF OnAnswer
<1> QED BY <1>1, <1>2

\* Every step of the whole is a step or a stutter of each component.
LEMMA ComponentSteps ==
    [ConnNext]_allVars => [ConnectNext]_connectVars /\ [Next]_vars
<1> SUFFICES ASSUME [ConnNext]_allVars PROVE [ConnectNext]_connectVars /\ [Next]_vars
  OBVIOUS
<1>1. CASE BeforeHandshake
  BY <1>1 DEF BeforeHandshake, ConnectNext
<1>2. CASE Open
  BY <1>2 DEF Open, ConnectNext, Next
<1>3. CASE ReadAnswer
  BY <1>3, AnswerParts DEF ReadAnswer, ConnectNext, Next
<1>4. CASE ReadOther \/ Push
  BY <1>4 DEF ReadOther, Push
<1>5. CASE HandlerPanics \/ ReadFails
  BY <1>5, HandshakeParts DEF HandlerPanics, ReadFails, ConnectNext, Next
<1>6. CASE Answer
  BY <1>6 DEF Answer, Next
<1>7. CASE InSession
  BY <1>7 DEF InSession, Next
<1>8. CASE EndSession
  BY <1>8, HandshakeParts DEF EndSession, ConnectNext, Next
<1>9. CASE UNCHANGED allVars
  BY <1>9 DEF allVars
<1> QED BY <1>1, <1>2, <1>3, <1>4, <1>5, <1>6, <1>7, <1>8, <1>9 DEF ConnNext

\* The connection implements its certificate handling and its salt sequence, whose
\* requests and commands it issues in the order of session_once.
THEOREM ConnectionImplements == ConnSpec => ConnectSpec /\ Spec
<1>1. ConnInit => ConnectInit /\ Init
  BY DEF ConnInit
<1> QED BY <1>1, ComponentSteps, PTL DEF ConnSpec, ConnectSpec, Spec

\* One key is let through for the life of the client, handshakes and sessions included.
THEOREM PinHeldHolds == ConnSpec => []PinHeld
BY ConnectionImplements, ConnectPinHeld, PTL

\* No handshake and no session has a command refused for its salt.
THEOREM ConnNeverRefused == ConnSpec => []NeverRefused
BY ConnectionImplements, NeverRefusedHolds, PTL

\* No salt outlives its uses across the handshake and the session that inherits it.
THEOREM ConnSaltRetired == ConnSpec => []SaltRetired
BY ConnectionImplements, SaltRetiredHolds, PTL

-----------------------------------------------------------------------------
(* Types                                                                   *)

\* A request leaves the pin a key or none, and accepts nothing but keys.
LEMMA RequestTypes ==
    ASSUME pin \in Keys \cup {NoKey}, accepted \subseteq Keys, Fails \/ Reaches
    PROVE  pin' \in Keys \cup {NoKey} /\ accepted' \subseteq Keys
  BY DEF Fails, Reaches, VerifyServerCert, tlsVars

\* Every request and every refusal keeps the types of the attempt.
LEMMA ConnectTypeStep == ConnectTypeOK /\ [ConnectNext]_connectVars => ConnectTypeOK'
<1> SUFFICES ASSUME ConnectTypeOK, [ConnectNext]_connectVars PROVE ConnectTypeOK'
  OBVIOUS
<1> USE DEF ConnectTypeOK, Steps
<1>n. Nothing \in [known : BOOLEAN, local : Said, slots : Said]
  BY DEF Nothing, Said
<1>1. CASE SessionOnce \/ Disconnect \/ UNCHANGED connectVars
  BY <1>n, <1>1 DEF SessionOnce, Disconnect, connectVars, tlsVars, bail
<1>2. CASE ProbeApiKey
  <2>1. pin' \in Keys \cup {NoKey} /\ accepted' \subseteq Keys
    BY <1>2, RequestTypes DEF ProbeApiKey
  <2>2. info' \in [known : BOOLEAN, local : Said, slots : Said]
    BY <1>2 DEF ProbeApiKey
  <2> QED BY <1>2, <2>1, <2>2 DEF ProbeApiKey
<1>3. CASE ProbeApi
  <2>1. pin' \in Keys \cup {NoKey} /\ accepted' \subseteq Keys
    BY <1>3, RequestTypes DEF ProbeApi
  <2> QED BY <1>n, <1>3, <2>1 DEF ProbeApi
<1>4. CASE GetPublicKey \/ WsConnect
  <2>1. pin' \in Keys \cup {NoKey} /\ accepted' \subseteq Keys
    BY <1>4, RequestTypes DEF GetPublicKey, WsConnect
  <2> QED BY <1>n, <1>4, <2>1 DEF GetPublicKey, WsConnect, bail
<1>5. CASE Bootstrap
  <2>1. step' \in Steps /\ info' \in [known : BOOLEAN, local : Said, slots : Said]
    BY <1>n, <1>5 DEF Bootstrap, AdoptSpki, bail
  <2>2. pin' \in Keys \cup {NoKey} /\ accepted' \subseteq Keys
    <3>1. CASE UNCHANGED tlsVars \/ Fails
      BY <3>1, RequestTypes DEF tlsVars
    <3>2. CASE ~(UNCHANGED tlsVars \/ Fails)
      BY <1>5, <3>2 DEF Bootstrap, AdoptSpki, VerifyServerCert
    <3> QED BY <3>1, <3>2
  <2> QED BY <1>5, <2>1, <2>2 DEF Bootstrap
<1> QED BY <1>1, <1>2, <1>3, <1>4, <1>5 DEF ConnectNext

\* What an error comes to: the fresh token in kill_token, the end anywhere else.
LEMMA ErrOutcome ==
    ASSUME Err
    PROVE  \/ phase \in {"killkey", "killtoken"} /\ Send("getkey2") /\ UNCHANGED step
           \/ /\ phase \notin {"killkey", "killtoken"} /\ step = "up"
              /\ phase' = "none" /\ asked' = <<>> /\ budget' = 0 /\ step' = "off"
  BY DEF Err, Request, Dropped, Disconnect, bail, connectVars

\* What an answer comes to: the next command, the session or the end.
LEMMA AnswerOutcome ==
    ASSUME NEW m, OnAnswer(m)
    PROVE  \/ \E c \in Answers : Send(c) /\ UNCHANGED step
           \/ phase' = "session" /\ UNCHANGED <<asked, budget, step>>
           \/ phase' = "none" /\ asked' = <<>> /\ budget' = 0 /\ step' = "off"
<1>0. \A c : Request(c) => Send(c) /\ UNCHANGED step
  BY DEF Request, connectVars
<1>1. CASE Parses(m.of) /\ (m.status = "ok" \/ phase = "killtoken")
  <2>1. Proceed
    BY <1>1 DEF OnAnswer
  <2>2. CASE phase' = "session" /\ UNCHANGED <<asked, budget, connectVars>>
    BY <2>2 DEF connectVars
  <2>3. CASE ~(phase' = "session" /\ UNCHANGED <<asked, budget, connectVars>>)
    <3>1. \E c \in Answers : Request(c)
      BY <2>1, <2>3 DEF Proceed, Authenticate, EnableUpdates, Answers
    <3> QED BY <1>0, <3>1
  <2> QED BY <2>2, <2>3
<1>2. CASE ~(Parses(m.of) /\ (m.status = "ok" \/ phase = "killtoken"))
  <2>1. (Request("getkey2")) \/ Err
    BY <1>2 DEF OnAnswer
  <2>2. CASE Request("getkey2")
    BY <1>0, <2>2 DEF Answers
  <2>3. CASE Err
    BY <2>3, ErrOutcome DEF Answers
  <2> QED BY <2>1, <2>2, <2>3
<1> QED BY <1>1, <1>2

\* An answer leaves a token or none.
LEMMA AnswerToken ==
    ASSUME NEW m, OnAnswer(m), token \in Tokens
    PROVE  token' \in Tokens
<1>1. CASE Parses(m.of) /\ (m.status = "ok" \/ phase = "killtoken")
  <2>1. Proceed
    BY <1>1 DEF OnAnswer
  <2> QED BY <2>1 DEF Proceed, Tokens
<1>2. CASE ~(Parses(m.of) /\ (m.status = "ok" \/ phase = "killtoken"))
  BY <1>2 DEF OnAnswer, Tokens
<1> QED BY <1>1, <1>2

Messages == [of : Answers \cup Pushes, status : Statuses]

\* The handshake's part of ConnTypeOK.
HandTypeOK ==
    /\ phase \in Answers \cup {"none", "session"} /\ (phase # "none") = (step = "up")
    /\ asked \in Seq(Answers) /\ stream \in Seq(Messages)
    /\ budget \in 0..MaxInterleaved /\ torn \in BOOLEAN /\ token \in Tokens
    /\ panicked \in BOOLEAN /\ crossed \in BOOLEAN

\* The handshake waits exactly while the WebSocket is up, within its budget.
LEMMA HandTypeStep == HandTypeOK /\ [ConnNext]_allVars => HandTypeOK'
<1> SUFFICES ASSUME HandTypeOK, [ConnNext]_allVars PROVE HandTypeOK'
  OBVIOUS
<1> USE ConnectionAssumption
<1>t. /\ asked \in Seq(Answers) /\ stream \in Seq(Messages) /\ budget \in 0..MaxInterleaved
      /\ phase \in Answers \cup {"none", "session"} /\ ((phase # "none") = (step = "up"))
      /\ torn \in BOOLEAN /\ token \in Tokens /\ panicked \in BOOLEAN /\ crossed \in BOOLEAN
  BY DEF HandTypeOK
<1>a. "none" \notin Answers /\ "session" \notin Answers
  BY DEF Answers
<1>s. ASSUME NEW c \in Answers, Send(c), UNCHANGED step, step = "up"
      PROVE  /\ phase' \in Answers /\ asked' \in Seq(Answers) /\ budget' \in 0..MaxInterleaved
             /\ (phase' # "none") = (step' = "up")
  BY <1>t, <1>a, <1>s DEF Send
<1>u. stream # <<>> => Tail(stream) \in Seq(Messages)
  BY <1>t
<1>1. CASE BeforeHandshake
  <2>1. UNCHANGED handVars
    BY <1>1 DEF BeforeHandshake
  <2>2. step # "up" /\ step' # "up"
    BY <1>1 DEF BeforeHandshake, SessionOnce, ProbeApiKey, ProbeApi, Bootstrap, AdoptSpki,
       GetPublicKey, bail
  <2> QED BY <1>t, <2>1, <2>2 DEF HandTypeOK, handVars, streamVars
<1>2. CASE Open
  <2>0. step = "ws" /\ phase = "none"
    BY <1>2, <1>t DEF Open, WsConnect
  <2>1. CASE step' = "off" /\ UNCHANGED handVars
    BY <1>t, <2>0, <2>1 DEF HandTypeOK, handVars, streamVars
  <2>2. CASE ~(step' = "off" /\ UNCHANGED handVars)
    <3>1. /\ step' = "up" /\ Send("keyexchange") /\ crossed' = FALSE
          /\ UNCHANGED <<stream, torn, token, panicked>>
      BY <1>2, <2>2 DEF Open
    <3>2. phase' = "keyexchange" /\ asked' \in Seq(Answers) /\ budget' = MaxInterleaved
      BY <1>t, <3>1 DEF Send, Answers
    <3>3. phase' \in Answers /\ (phase' # "none") = (step' = "up") /\ budget' \in 0..MaxInterleaved
      BY <3>1, <3>2 DEF Answers
    <3> QED BY <1>t, <3>1, <3>2, <3>3 DEF HandTypeOK
  <2> QED BY <2>1, <2>2
<1>3. CASE ReadAnswer
  <2>0. phase \in Answers /\ step = "up" /\ stream # <<>>
    BY <1>3, <1>t, <1>a DEF ReadAnswer, Reading
  <2>1. OnAnswer(Head(stream)) /\ Taken /\ UNCHANGED <<torn, panicked>>
    BY <1>3 DEF ReadAnswer
  <2>2. /\ phase' \in Answers \cup {"none", "session"} /\ (phase' # "none") = (step' = "up")
        /\ asked' \in Seq(Answers) /\ budget' \in 0..MaxInterleaved
    <3>1. CASE \E c \in Answers : Send(c) /\ UNCHANGED step
      BY <1>s, <2>0, <3>1
    <3>2. CASE phase' = "session" /\ UNCHANGED <<asked, budget, step>>
      BY <1>t, <2>0, <3>2
    <3>3. CASE phase' = "none" /\ asked' = <<>> /\ budget' = 0 /\ step' = "off"
      BY <3>3
    <3> QED BY <2>1, <3>1, <3>2, <3>3, AnswerOutcome
  <2>3. stream' \in Seq(Messages)
    BY <1>u, <2>0, <2>1 DEF Taken
  <2>4. token' \in Tokens
    BY <1>t, <2>1, AnswerToken
  <2>5. crossed' \in BOOLEAN
    BY <1>t, <2>1, Zenon DEF OnAnswer
  <2> QED BY <1>t, <2>1, <2>2, <2>3, <2>4, <2>5 DEF HandTypeOK
<1>4. CASE ReadOther
  <2>1. /\ budget' = budget - 1 /\ budget > 0 /\ stream' = Tail(stream) /\ stream # <<>>
        /\ UNCHANGED <<connectVars, phase, asked, torn, token, panicked, crossed>>
    BY <1>4 DEF ReadOther, Reading
  <2>2. budget' \in 0..MaxInterleaved
    BY <1>t, <2>1
  <2> QED BY <1>t, <1>u, <2>1, <2>2 DEF HandTypeOK, connectVars
<1>5. CASE HandlerPanics \/ ReadFails
  <2>0. phase \in Answers /\ step = "up"
    BY <1>5, <1>t, <1>a DEF HandlerPanics, ReadFails, Reading
  <2>1. Err /\ UNCHANGED <<token, crossed>>
    BY <1>5 DEF HandlerPanics, ReadFails
  <2>2. /\ phase' \in Answers \cup {"none", "session"} /\ (phase' # "none") = (step' = "up")
        /\ asked' \in Seq(Answers) /\ budget' \in 0..MaxInterleaved
    <3>1. CASE Send("getkey2") /\ UNCHANGED step
      BY <1>s, <2>0, <3>1 DEF Answers
    <3>2. CASE phase' = "none" /\ asked' = <<>> /\ budget' = 0 /\ step' = "off"
      BY <3>2
    <3> QED BY <2>1, <3>1, <3>2, ErrOutcome
  <2>3. stream' \in Seq(Messages)
    BY <1>5, <1>t, <1>u, EmptySeq DEF HandlerPanics, ReadFails, Reading, Taken
  <2>4. torn' \in BOOLEAN /\ panicked' \in BOOLEAN
    <3>1. CASE HandlerPanics
      BY <1>t, <3>1 DEF HandlerPanics
    <3>2. CASE ReadFails
      <4>1. torn' \in {FALSE, torn, stream # <<>>} /\ UNCHANGED panicked
        BY <3>2 DEF ReadFails
      <4> QED BY <1>t, <4>1, Zenon
    <3> QED BY <1>5, <3>1, <3>2
  <2> QED BY <1>t, <2>1, <2>2, <2>3, <2>4 DEF HandTypeOK
<1>6. CASE Answer
  <2>1. PICK s \in Statuses : stream' = Append(stream, [of |-> Head(asked), status |-> s])
    BY <1>6 DEF Answer
  <2>2. asked # <<>> /\ asked' = Tail(asked) /\ Head(asked) \in Answers
    BY <1>6, <1>t DEF Answer
  <2>3. asked' \in Seq(Answers)
    BY <1>t, <2>2
  <2>4. [of |-> Head(asked), status |-> s] \in Messages
    BY <2>2 DEF Messages
  <2>5. stream' \in Seq(Messages)
    BY <1>t, <2>1, <2>4
  <2> QED BY <1>6, <1>t, <2>3, <2>5 DEF Answer, HandTypeOK, connectVars
<1>7. CASE Push
  <2>1. PICK p \in Pushes : stream' = Append(stream, [of |-> p, status |-> "ok"])
    BY <1>7 DEF Push
  <2>2. [of |-> p, status |-> "ok"] \in Messages
    BY DEF Messages, Statuses
  <2>3. stream' \in Seq(Messages)
    BY <1>t, <2>1, <2>2
  <2> QED BY <1>7, <1>t, <2>3 DEF Push, HandTypeOK, connectVars
<1>8. CASE InSession \/ UNCHANGED allVars
  BY <1>8, <1>t DEF InSession, allVars, connectVars, handVars, streamVars, HandTypeOK
<1>9. CASE EndSession
  <2>1. /\ phase' = "none" /\ asked' = <<>> /\ budget' = 0 /\ step' = "off" /\ stream' = <<>>
        /\ torn' = FALSE /\ token' \in Tokens /\ UNCHANGED <<panicked, crossed>>
    BY <1>9 DEF EndSession, Dropped, Disconnect, bail
  <2>2. asked' \in Seq(Answers) /\ stream' \in Seq(Messages) /\ budget' \in 0..MaxInterleaved
    BY <2>1, EmptySeq
  <2>3. (phase' # "none") = (step' = "up")
    BY <2>1
  <2> QED BY <1>t, <2>1, <2>2, <2>3 DEF HandTypeOK
<1> QED BY <1>1, <1>2, <1>3, <1>4, <1>5, <1>6, <1>7, <1>8, <1>9 DEF ConnNext

\* A client starts with no handshake under way.
LEMMA HandTypeInit == ConnInit => HandTypeOK
<1> SUFFICES ASSUME ConnInit PROVE HandTypeOK
  OBVIOUS
<1>1. asked \in Seq(Answers) /\ stream \in Seq(Messages) /\ budget \in 0..MaxInterleaved
  BY ConnectionAssumption, EmptySeq DEF ConnInit
<1>2. /\ phase \in Answers \cup {"none", "session"} /\ (phase # "none") = (step = "up")
      /\ torn \in BOOLEAN /\ token \in Tokens /\ panicked \in BOOLEAN /\ crossed \in BOOLEAN
  BY DEF ConnInit, ConnectInit
<1> QED BY <1>1, <1>2 DEF HandTypeOK

\* Every part of a connection keeps its type, the handshake runs exactly while the
\* WebSocket is up, and its budget stays within MAX_INTERLEAVED_FRAMES.
THEOREM ConnTypeCorrect == ConnSpec => []ConnTypeOK
<1>1. ConnInit => ConnectTypeOK /\ HandTypeOK
  BY HandTypeInit DEF ConnInit, ConnectInit, ConnectTypeOK, Steps, Nothing, Said
<1>2. ConnectTypeOK /\ TypeOK /\ HandTypeOK => ConnTypeOK
  BY DEF HandTypeOK, ConnTypeOK, Messages
<1> QED BY <1>1, <1>2, ConnectionImplements, SaltTypeCorrect, ComponentSteps,
           ConnectTypeStep, HandTypeStep, PTL DEF ConnSpec

-----------------------------------------------------------------------------
(* The handshake and its answers                                           *)

\* One more message at the end.
LEMMA Appended ==
    ASSUME NEW S, NEW s \in Seq(S), NEW m
    PROVE  /\ Len(Append(s, m)) = Len(s) + 1 /\ Append(s, m)[Len(s) + 1] = m
           /\ \A i \in 1..Len(s) : Append(s, m)[i] = s[i]
OBVIOUS

\* Answers the handshake may have given up on before the one it waits for.
Late == IF phase = "getkey2" THEN {"killkey", "killtoken"} ELSE {}

\* The command waited for is with the Miniserver, behind nothing but late ones.
StillAsked ==
    /\ asked # <<>> /\ asked[Len(asked)] = phase
    /\ \A i \in 1..(Len(asked) - 1) : asked[i] \in Late
    /\ \A i \in 1..Len(stream) : stream[i].of \in Late \cup Pushes

\* Its answer is on its way, behind late answers and tables, and only tables follow it.
OnItsWay ==
    /\ asked = <<>>
    /\ \E k \in 1..Len(stream) :
         /\ stream[k].of = phase
         /\ \A i \in 1..(k - 1) : stream[i].of \in Late \cup Pushes
         /\ \A i \in (k + 1)..Len(stream) : stream[i].of \in Pushes

\* Where the answer waited for is at each stage.  Only getkey2, whose parser takes no
\* other answer, has late ones ahead of it, and only getkey2 can follow a torn read.
CleanInv ==
    /\ ~crossed
    /\ phase = "none" => asked = <<>> /\ stream = <<>>
    /\ torn => phase = "getkey2"
    /\ panicked => phase \in {"none", "keyexchange", "getkey2"}
    /\ phase = "session" => asked = <<>> /\ \A i \in 1..Len(stream) : stream[i].of \in Pushes
    /\ phase \in Answers => StillAsked \/ OnItsWay

\* The next text message is a late answer, or the answer waited for with only tables
\* behind it.
LEMMA NextAnswer ==
    ASSUME HandTypeOK, CleanInv, phase \in Answers, stream # <<>>, Head(stream).of \in Answers
    PROVE  \/ phase = "getkey2" /\ Head(stream).of \in {"killkey", "killtoken"}
           \/ /\ Head(stream).of = phase /\ asked = <<>>
              /\ \A i \in 1..Len(Tail(stream)) : Tail(stream)[i].of \in Pushes
<1>t. /\ stream \in Seq(Messages) /\ Len(stream) \in Nat /\ Len(stream) >= 1
      /\ Head(stream) = stream[1] /\ Len(Tail(stream)) = Len(stream) - 1
      /\ \A i \in 1..Len(Tail(stream)) : Tail(stream)[i] = stream[i + 1]
  BY DEF HandTypeOK
<1>p. stream[1].of \notin Pushes
  BY <1>t DEF Answers, Pushes
<1>1. CASE StillAsked
  <2>1. stream[1].of \in Late
    BY <1>t, <1>p, <1>1 DEF StillAsked
  <2> QED BY <1>t, <2>1 DEF Late
<1>2. CASE OnItsWay
  <2>1. PICK k \in 1..Len(stream) :
          /\ stream[k].of = phase
          /\ \A i \in 1..(k - 1) : stream[i].of \in Late \cup Pushes
          /\ \A i \in (k + 1)..Len(stream) : stream[i].of \in Pushes
    BY <1>2 DEF OnItsWay
  <2>2. CASE k = 1
    <3>1. \A i \in 1..Len(Tail(stream)) : Tail(stream)[i].of \in Pushes
      BY <1>t, <2>1, <2>2
    <3> QED BY <1>t, <1>2, <2>1, <2>2, <3>1 DEF OnItsWay
  <2>3. CASE k # 1
    <3>1. stream[1].of \in Late
      BY <1>t, <1>p, <2>1, <2>3
    <3> QED BY <1>t, <3>1 DEF Late
  <2> QED BY <2>2, <2>3
<1> QED BY <1>1, <1>2 DEF CleanInv

\* A command sent with only tables on the way is the one outstanding.
LEMMA FirstAsked ==
    ASSUME NEW c \in Answers, Send(c), asked = <<>>,
           \A i \in 1..Len(stream') : stream'[i].of \in Pushes
    PROVE  StillAsked'
<1>1. asked' = <<c>> /\ phase' = c
  BY DEF Send
<1>2. Len(asked') = 1 /\ asked'[1] = c /\ asked' # <<>>
  BY <1>1
<1> QED BY <1>1, <1>2 DEF StillAsked

\* The fresh token asked for after an error in kill_token: what was outstanding is late.
LEMMA AskedBehindLate ==
    ASSUME HandTypeOK, CleanInv, phase \in {"killkey", "killtoken"}, Send("getkey2"),
           \/ stream' = stream
           \/ stream # <<>> /\ stream' = Tail(stream)
    PROVE  StillAsked'
<1>t. /\ asked \in Seq(Answers) /\ stream \in Seq(Messages)
      /\ Len(asked) \in Nat /\ Len(stream) \in Nat
  BY DEF HandTypeOK
<1>1. phase' = "getkey2" /\ Late' = {"killkey", "killtoken"} /\ Late = {}
  BY DEF Send, Late
<1>2. /\ asked' = Append(asked, "getkey2") /\ Len(asked') = Len(asked) + 1 /\ asked' # <<>>
      /\ asked'[Len(asked')] = "getkey2"
      /\ \A i \in 1..Len(asked) : asked'[i] = asked[i]
  BY <1>t DEF Send
<1>3. \A i \in 1..Len(asked) : asked[i] = phase
  <2>1. CASE StillAsked
    <3> SUFFICES ASSUME NEW i \in 1..Len(asked) PROVE asked[i] = phase
      OBVIOUS
    <3>1. asked[Len(asked)] = phase /\ ~(i \in 1..(Len(asked) - 1))
      BY <1>1, <2>1 DEF StillAsked
    <3> QED BY <1>t, <3>1
  <2>2. CASE OnItsWay
    BY <1>t, <2>2 DEF OnItsWay
  <2> QED BY <2>1, <2>2 DEF CleanInv, Answers
<1>4. \A i \in 1..Len(stream) : stream[i].of \in {phase} \cup Pushes
  <2>1. CASE StillAsked
    BY <1>1, <2>1 DEF StillAsked
  <2>2. CASE OnItsWay
    <3>1. PICK k \in 1..Len(stream) :
            /\ stream[k].of = phase
            /\ \A i \in 1..(k - 1) : stream[i].of \in Late \cup Pushes
            /\ \A i \in (k + 1)..Len(stream) : stream[i].of \in Pushes
      BY <2>2 DEF OnItsWay
    <3> SUFFICES ASSUME NEW i \in 1..Len(stream) PROVE stream[i].of \in {phase} \cup Pushes
      OBVIOUS
    <3>2. i \in 1..(k - 1) \/ i = k \/ i \in (k + 1)..Len(stream)
      BY <1>t
    <3> QED BY <1>1, <3>1, <3>2
  <2> QED BY <2>1, <2>2 DEF CleanInv, Answers
<1>5. \A i \in 1..Len(stream') : stream'[i].of \in {phase} \cup Pushes
  <2>1. CASE stream' = stream
    BY <1>4, <2>1
  <2>2. CASE stream # <<>> /\ stream' = Tail(stream)
    <3> SUFFICES ASSUME NEW i \in 1..Len(stream') PROVE stream'[i].of \in {phase} \cup Pushes
      OBVIOUS
    <3>1. i + 1 \in 1..Len(stream) /\ stream'[i] = stream[i + 1]
      BY <1>t, <2>2
    <3> QED BY <1>4, <3>1
  <2> QED BY <2>1, <2>2
<1>6. \A i \in 1..Len(stream') : stream'[i].of \in Late' \cup Pushes
  BY <1>1, <1>5
<1>7. \A i \in 1..(Len(asked') - 1) : asked'[i] \in Late'
  BY <1>1, <1>2, <1>3, <1>t
<1> QED BY <1>1, <1>2, <1>6, <1>7 DEF StillAsked

\* Every step keeps track of the answer waited for.
LEMMA CleanStep == HandTypeOK /\ CleanInv /\ [ConnNext]_allVars => CleanInv'
<1> SUFFICES ASSUME HandTypeOK, CleanInv, [ConnNext]_allVars PROVE CleanInv'
  OBVIOUS
<1>t. /\ asked \in Seq(Answers) /\ stream \in Seq(Messages)
      /\ Len(asked) \in Nat /\ Len(stream) \in Nat /\ ((phase # "none") = (step = "up"))
  BY DEF HandTypeOK
<1>a. "none" \notin Answers /\ "session" \notin Answers /\ "keyexchange" \in Answers
      /\ "getkey2" \in Answers
  BY DEF Answers
<1>c. ~crossed
  BY DEF CleanInv
<1>n. ASSUME phase' = "none", asked' = <<>>, stream' = <<>>, ~torn', ~crossed'
      PROVE  CleanInv'
  BY <1>a, <1>n DEF CleanInv
<1>1. CASE BeforeHandshake \/ InSession \/ UNCHANGED allVars
  <2>1. UNCHANGED handVars
    BY <1>1 DEF BeforeHandshake, InSession, allVars
  <2> QED BY <2>1 DEF handVars, streamVars, CleanInv, StillAsked, OnItsWay, Late
<1>2. CASE Open
  <2>0. step = "ws" /\ phase = "none" /\ asked = <<>> /\ stream = <<>> /\ ~torn
    BY <1>2, <1>t DEF Open, WsConnect, CleanInv
  <2>1. CASE UNCHANGED handVars
    BY <2>1 DEF handVars, streamVars, CleanInv, StillAsked, OnItsWay, Late
  <2>2. CASE ~UNCHANGED handVars
    <3>1. Send("keyexchange") /\ crossed' = FALSE /\ UNCHANGED <<stream, torn, panicked>>
      BY <1>2, <2>2 DEF Open
    <3>2. \A i \in 1..Len(stream') : stream'[i].of \in Pushes
      BY <2>0, <3>1
    <3>3. StillAsked' /\ phase' = "keyexchange"
      BY <1>a, <2>0, <3>1, <3>2, FirstAsked DEF Send
    <3> QED BY <2>0, <3>1, <3>3 DEF CleanInv
  <2> QED BY <2>1, <2>2
<1>3. CASE ReadAnswer
  <2>0. /\ phase \in Answers /\ stream # <<>> /\ ~torn /\ ~panicked
        /\ Head(stream).of \in Answers /\ OnAnswer(Head(stream)) /\ Taken
        /\ ~torn' /\ ~panicked'
    BY <1>3 DEF ReadAnswer, Reading
  <2>1. CASE phase = "getkey2" /\ Head(stream).of \in {"killkey", "killtoken"}
    <3>1. ~Parses(Head(stream).of)
      BY <2>1 DEF Parses
    <3>2. Err /\ crossed' = crossed
      BY <2>0, <2>1, <3>1 DEF OnAnswer
    <3>3. phase' = "none" /\ asked' = <<>>
      BY <2>1, <3>2, ErrOutcome
    <3> QED BY <1>c, <1>n, <2>0, <3>2, <3>3 DEF Taken
  <2>2. CASE /\ Head(stream).of = phase /\ asked = <<>>
             /\ \A i \in 1..Len(Tail(stream)) : Tail(stream)[i].of \in Pushes
    <3>1. ~crossed'
      <4>1. crossed' = crossed \/ crossed' = (crossed \/ Head(stream).of # phase)
        BY <2>0 DEF OnAnswer
      <4> QED BY <1>c, <2>2, <4>1, Zenon
    <3>2. CASE \E c \in Answers : Send(c)
      <4>1. PICK c \in Answers : Send(c)
        BY <3>2
      <4>2. phase' = c /\ phase' # "none" /\ phase' # "session"
        BY <1>a, <4>1 DEF Send
      <4>3. stream' = Tail(stream)
        BY <2>0, <4>2 DEF Taken
      <4>4. StillAsked'
        BY <2>2, <4>1, <4>3, FirstAsked
      <4> QED BY <2>0, <3>1, <4>2, <4>4 DEF CleanInv
    <3>3. CASE phase' = "session" /\ UNCHANGED <<asked, budget>>
      <4>1. stream' = Tail(stream) /\ asked' = <<>>
        BY <2>0, <2>2, <3>3 DEF Taken
      <4> QED BY <1>a, <2>0, <2>2, <3>1, <3>3, <4>1 DEF CleanInv
    <3>4. CASE phase' = "none" /\ asked' = <<>>
      BY <1>n, <2>0, <3>1, <3>4 DEF Taken
    <3> QED BY <2>0, <3>2, <3>3, <3>4, AnswerOutcome
  <2> QED BY <2>0, <2>1, <2>2, NextAnswer
<1>4. CASE ReadOther
  <2>0. /\ phase \in Answers /\ stream # <<>> /\ Head(stream).of \in Pushes
        /\ stream' = Tail(stream) /\ UNCHANGED <<phase, asked, torn, panicked, crossed>>
    BY <1>4 DEF ReadOther, Reading
  <2>1. /\ Len(stream') = Len(stream) - 1 /\ Len(stream) >= 1 /\ stream[1].of \in Pushes
        /\ \A i \in 1..Len(stream') : stream'[i] = stream[i + 1]
    BY <1>t, <2>0
  <2>2. Late' = Late
    BY <2>0 DEF Late
  <2>3. CASE StillAsked
    <3>1. \A i \in 1..Len(stream') : stream'[i].of \in Late \cup Pushes
      <4> SUFFICES ASSUME NEW i \in 1..Len(stream') PROVE stream'[i].of \in Late \cup Pushes
        OBVIOUS
      <4>1. i + 1 \in 1..Len(stream) /\ stream'[i] = stream[i + 1]
        BY <1>t, <2>1
      <4>2. stream[i + 1].of \in Late \cup Pushes
        BY <2>3, <4>1 DEF StillAsked
      <4> QED BY <4>1, <4>2
    <3>2. StillAsked'
      BY <2>0, <2>2, <2>3, <3>1 DEF StillAsked
    <3> QED BY <1>a, <2>0, <3>2 DEF CleanInv
  <2>4. CASE OnItsWay
    <3>1. PICK k \in 1..Len(stream) :
            /\ stream[k].of = phase
            /\ \A i \in 1..(k - 1) : stream[i].of \in Late \cup Pushes
            /\ \A i \in (k + 1)..Len(stream) : stream[i].of \in Pushes
      BY <2>4 DEF OnItsWay
    <3>2. phase \notin Pushes
      BY <2>0 DEF Answers, Pushes
    <3>3. k # 1
      BY <2>1, <3>1, <3>2
    <3>4. k - 1 \in 1..Len(stream')
      BY <1>t, <2>1, <3>3
    <3>5. stream'[k - 1].of = phase
      BY <1>t, <2>1, <3>1, <3>4
    <3>6. \A i \in 1..((k - 1) - 1) : stream'[i].of \in Late \cup Pushes
      BY <1>t, <2>1, <3>1
    <3>7. \A i \in ((k - 1) + 1)..Len(stream') : stream'[i].of \in Pushes
      BY <1>t, <2>1, <3>1
    <3>8. OnItsWay'
      BY <2>0, <2>2, <2>4, <3>4, <3>5, <3>6, <3>7 DEF OnItsWay
    <3> QED BY <1>a, <2>0, <3>8 DEF CleanInv
  <2> QED BY <2>0, <2>3, <2>4 DEF CleanInv
<1>5. CASE HandlerPanics \/ ReadFails
  <2>0. /\ phase \in Answers /\ Err /\ UNCHANGED crossed
        /\ IF phase' = "none" THEN stream' = <<>>
           ELSE stream' = stream \/ (stream # <<>> /\ stream' = Tail(stream))
    BY <1>5 DEF HandlerPanics, ReadFails, Reading, Taken
  <2>1. CASE phase \in {"killkey", "killtoken"} /\ Send("getkey2")
    <3>1. phase' = "getkey2"
      BY <2>1 DEF Send
    <3>2. StillAsked'
      BY <2>0, <2>1, <3>1, AskedBehindLate
    <3> QED BY <1>a, <1>c, <2>0, <3>1, <3>2 DEF CleanInv
  <2>2. CASE phase' = "none" /\ asked' = <<>>
    <3>1. ~torn'
      BY <1>5, <2>2 DEF HandlerPanics, ReadFails, Reading
    <3> QED BY <1>c, <1>n, <2>0, <2>2, <3>1
  <2> QED BY <2>0, <2>1, <2>2, ErrOutcome
<1>6. CASE Answer
  <2>0. /\ asked # <<>> /\ asked' = Tail(asked)
        /\ UNCHANGED <<phase, torn, panicked, crossed>>
    BY <1>6 DEF Answer
  <2>1. PICK s \in Statuses : stream' = Append(stream, [of |-> Head(asked), status |-> s])
    BY <1>6 DEF Answer
  <2>2. /\ Len(stream') = Len(stream) + 1 /\ stream'[Len(stream) + 1].of = asked[1]
        /\ \A i \in 1..Len(stream) : stream'[i] = stream[i]
    <3> DEFINE m == [of |-> Head(asked), status |-> s]
    <3>1. m.of = asked[1]
      BY <1>t, <2>0
    <3> HIDE DEF m
    <3>2. stream' = Append(stream, m)
      BY <2>1 DEF m
    <3>3. /\ Len(stream') = Len(stream) + 1 /\ stream'[Len(stream) + 1] = m
          /\ \A i \in 1..Len(stream) : stream'[i] = stream[i]
      BY <1>t, <3>2, Appended
    <3> QED BY <3>1, <3>3
  <2>3. Late' = Late /\ phase \in Answers /\ StillAsked
    BY <2>0, <1>t DEF Late, CleanInv, HandTypeOK, OnItsWay
  <2>4. /\ Len(asked') = Len(asked) - 1 /\ Len(asked) >= 1 /\ asked' \in Seq(Answers)
        /\ \A i \in 1..Len(asked') : asked'[i] = asked[i + 1]
    BY <1>t, <2>0
  <2>5. CASE Len(asked) = 1
    <3>1. asked' = <<>> /\ asked[1] = phase
      BY <1>t, <2>3, <2>4, <2>5 DEF StillAsked
    <3>2. /\ Len(stream) + 1 \in 1..Len(stream')
          /\ stream'[Len(stream) + 1].of = phase
          /\ \A i \in 1..((Len(stream) + 1) - 1) : stream'[i].of \in Late \cup Pushes
          /\ \A i \in ((Len(stream) + 1) + 1)..Len(stream') : stream'[i].of \in Pushes
      <4>1. Len(stream) + 1 \in 1..Len(stream') /\ stream'[Len(stream) + 1].of = phase
        BY <1>t, <2>2, <3>1
      <4>2. \A i \in 1..Len(stream) : stream'[i].of \in Late \cup Pushes
        BY <2>2, <2>3 DEF StillAsked
      <4>3. (Len(stream) + 1) - 1 = Len(stream) /\ ((Len(stream) + 1) + 1)..Len(stream') = {}
        BY <1>t, <2>2
      <4> QED BY <4>1, <4>2, <4>3
    <3>3. OnItsWay'
      BY <2>0, <2>3, <3>1, <3>2 DEF OnItsWay
    <3> QED BY <1>a, <1>c, <2>0, <2>3, <3>3 DEF CleanInv
  <2>6. CASE Len(asked) # 1
    <3>1. asked[1] \in Late /\ asked' # <<>> /\ asked'[Len(asked')] = phase
      BY <1>t, <2>3, <2>4, <2>6 DEF StillAsked
    <3>2. \A i \in 1..(Len(asked') - 1) : asked'[i] \in Late
      BY <1>t, <2>3, <2>4 DEF StillAsked
    <3>3. \A i \in 1..Len(stream') : stream'[i].of \in Late \cup Pushes
      BY <1>t, <2>2, <2>3, <3>1 DEF StillAsked
    <3>4. StillAsked'
      BY <2>0, <2>3, <3>1, <3>2, <3>3 DEF StillAsked
    <3> QED BY <1>a, <1>c, <2>0, <2>3, <3>4 DEF CleanInv
  <2> QED BY <2>5, <2>6
<1>7. CASE Push
  <2>0. phase \in Answers /\ UNCHANGED <<phase, asked, torn, panicked, crossed>>
    BY <1>7 DEF Push
  <2>1. PICK p \in Pushes : stream' = Append(stream, [of |-> p, status |-> "ok"])
    BY <1>7 DEF Push
  <2>2. /\ Len(stream') = Len(stream) + 1 /\ stream'[Len(stream) + 1].of \in Pushes
        /\ \A i \in 1..Len(stream) : stream'[i] = stream[i]
    <3> DEFINE m == [of |-> p, status |-> "ok"]
    <3>1. m.of \in Pushes
      OBVIOUS
    <3> HIDE DEF m
    <3>2. stream' = Append(stream, m)
      BY <2>1 DEF m
    <3>3. /\ Len(stream') = Len(stream) + 1 /\ stream'[Len(stream) + 1] = m
          /\ \A i \in 1..Len(stream) : stream'[i] = stream[i]
      BY <1>t, <3>2, Appended
    <3> QED BY <3>1, <3>3
  <2>3. Late' = Late
    BY <2>0 DEF Late
  <2>4. CASE StillAsked
    <3>1. \A i \in 1..Len(stream') : stream'[i].of \in Late \cup Pushes
      BY <1>t, <2>2, <2>4 DEF StillAsked
    <3>2. StillAsked'
      BY <2>0, <2>3, <2>4, <3>1 DEF StillAsked
    <3> QED BY <1>a, <2>0, <3>2 DEF CleanInv
  <2>5. CASE OnItsWay
    <3>1. PICK k \in 1..Len(stream) :
            /\ stream[k].of = phase
            /\ \A i \in 1..(k - 1) : stream[i].of \in Late \cup Pushes
            /\ \A i \in (k + 1)..Len(stream) : stream[i].of \in Pushes
      BY <2>5 DEF OnItsWay
    <3>2. k \in 1..Len(stream') /\ stream'[k].of = phase
      BY <1>t, <2>2, <3>1
    <3>3. \A i \in 1..(k - 1) : stream'[i].of \in Late \cup Pushes
      BY <1>t, <2>2, <3>1
    <3>4. \A i \in (k + 1)..Len(stream') : stream'[i].of \in Pushes
      BY <1>t, <2>2, <3>1
    <3>5. OnItsWay'
      BY <2>0, <2>3, <2>5, <3>2, <3>3, <3>4 DEF OnItsWay
    <3> QED BY <1>a, <2>0, <3>5 DEF CleanInv
  <2> QED BY <2>0, <2>4, <2>5 DEF CleanInv
<1>8. CASE EndSession
  <2>1. phase' = "none" /\ asked' = <<>> /\ stream' = <<>> /\ ~torn' /\ UNCHANGED crossed
    BY <1>8 DEF EndSession, Dropped
  <2> QED BY <1>c, <1>n, <2>1
<1> QED BY <1>1, <1>2, <1>3, <1>4, <1>5, <1>6, <1>7, <1>8 DEF ConnNext

\* A step of the handshake acts only on the answer to its own command, and the session
\* it leads to inherits no answer, no torn message and no panicked handler, however
\* often the kill of an old token was given up and its answers came late.
THEOREM SessionCleanHolds == ConnSpec => []SessionClean
<1>1. ConnInit => CleanInv /\ HandTypeOK
  <2> SUFFICES ASSUME ConnInit PROVE CleanInv /\ HandTypeOK
    OBVIOUS
  <2>1. CleanInv
    BY DEF ConnInit, CleanInv, Answers
  <2>2. HandTypeOK
    BY HandTypeInit
  <2> QED BY <2>1, <2>2
<1>2. CleanInv => SessionClean
  BY DEF CleanInv, SessionClean
<1> QED BY <1>1, <1>2, HandTypeStep, CleanStep, PTL DEF ConnSpec

=============================================================================
