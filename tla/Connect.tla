------------------------------- MODULE Connect ------------------------------
(***************************************************************************)
(* What session_once does before the Loxone handshake: the reachability    *)
(* probe, the certificate pin, the public key and the WebSocket itself.    *)
(*                                                                         *)
(* Every request opens a connection of its own, and with https each one    *)
(* has its certificate verified: TlsContext and its pin outlive the        *)
(* attempts.  A certificate is the fingerprint of its key, and whoever     *)
(* answers the client's address may present any of them.                   *)
(***************************************************************************)
EXTENDS Naturals

CONSTANTS
    Keys,     \* the fingerprints a peer may present
    NoKey,    \* no pin
    Trusted   \* fingerprints of certificates that WebPKI accepts

ASSUME KeysAssumption == NoKey \notin Keys /\ Trusted \subseteq Keys

VARIABLES
    mode,      \* TlsMode
    tls,       \* Endpoints::use_tls
    options,   \* ConnectConfig: local_only and receive_updates
    pin,       \* TlsContext::pin, NoKey for None
    step,      \* where session_once is, "off" between two attempts
    info,      \* the ApiInfo of the probe so far
    accepted   \* history: the fingerprints the verifier has let pass

tlsVars == <<pin, accepted>>
connectVars == <<mode, tls, options, pin, step, info, accepted>>

Modes == {"WebPki", "PinOnFirstUse", "Pinned", "Insecure"}
Steps == {"off", "apiKey", "api", "bootstrap", "pubkey", "ws", "up"}

\* An Option<bool>: the Miniserver has said yes, has said no, or has not said.
Said == {"yes", "no", "unknown"}
Nothing == [known |-> FALSE, local |-> "unknown", slots |-> "unknown"]

\* TlsContext::new: only Pinned starts with a pin.
ConnectInit ==
    /\ mode \in Modes /\ tls \in BOOLEAN
    /\ options \in [local : BOOLEAN, updates : BOOLEAN]
    /\ pin \in IF mode = "Pinned" THEN Keys ELSE {NoKey}
    /\ step = "off" /\ info = Nothing /\ accepted = {}

pins == mode \in {"PinOnFirstUse", "Pinned"}

needs_pin_bootstrap == pins /\ pin = NoKey

-----------------------------------------------------------------------------
(* Certificates                                                            *)

\* Mutant: a certificate that does not match replaces the pin.
VerifyRepins(k) ==
    /\ \/ mode = "Insecure" /\ pin' = pin
       \/ mode = "WebPki" /\ k \in Trusted /\ pin' = pin
       \/ mode = "Pinned" /\ pin = k /\ pin' = pin
       \/ mode = "PinOnFirstUse" /\ pin' = k
    /\ accepted' = accepted \cup {k}

\* verify_server_cert lets k pass: of WebPKI, of NoCertVerifier, and of SpkiPinVerifier,
\* which learns the first key it sees in PinOnFirstUse.
VerifyServerCert(k) ==
    /\ \/ mode = "Insecure" /\ pin' = pin
       \/ mode = "WebPki" /\ k \in Trusted /\ pin' = pin
       \/ pins /\ pin = k /\ pin' = pin
       \/ mode = "PinOnFirstUse" /\ pin = NoKey /\ pin' = k
    /\ accepted' = accepted \cup {k}

\* The request reaches a peer: over plain http, or past the verification.
Reaches == IF tls THEN \E k \in Keys : VerifyServerCert(k) ELSE UNCHANGED tlsVars

\* No connection, or a certificate refused, or, with the pin learned all the same, no
\* usable answer in time.
Fails == UNCHANGED tlsVars \/ Reaches

\* The attempt is given up; SessionOutcome::Failed.
bail == step' = "off" /\ info' = Nothing

-----------------------------------------------------------------------------
(* session_once, one action per request                                    *)

\* preflight asks nothing when neither option needs the answer.
SessionOnce ==
    /\ step = "off"
    /\ step' = IF options.local \/ options.updates THEN "apiKey" ELSE "bootstrap"
    /\ UNCHANGED <<mode, tls, options, info, tlsVars>>

\* api_info, its first request.
ProbeApiKey ==
    /\ step = "apiKey" /\ step' = "api"
    /\ \/ Fails /\ UNCHANGED info
       \/ Reaches /\ info' \in [known : {TRUE}, local : Said, slots : Said]
    /\ UNCHANGED <<mode, tls, options>>

\* ApiInfo::fill_from: what the first answer has said stands.
FillFrom(a, b) ==
    [known |-> TRUE, local |-> IF a.local = "unknown" THEN b.local ELSE a.local,
                     slots |-> IF a.slots = "unknown" THEN b.slots ELSE a.slots]

\* The refusals of preflight; a probe that failed altogether decides nothing.
Refused(i) ==
    \/ options.local /\ i.local = "no"
    \/ options.updates /\ i.slots = "no"

\* api_info, its second request, and what preflight makes of the two.
ProbeApi ==
    /\ step = "api"
    /\ \E i \in {info} \cup {FillFrom(info, b) : b \in [local : Said, slots : Said]} :
         /\ IF i = info THEN Fails ELSE Reaches
         /\ step' = IF Refused(i) THEN "off" ELSE "bootstrap"
    /\ info' = Nothing
    /\ UNCHANGED <<mode, tls, options>>

\* adopt_spki: the pin is set once, and an announced key that differs is an error.
AdoptSpki(held, announced) ==
    IF held \in {NoKey, announced}
    THEN pin' = announced /\ step' = "pubkey" /\ info' = info
    ELSE pin' = held /\ bail

\* bootstrap_pin where the pin is still to be learned: with https its own request has
\* taught it by the time the announced key arrives.  Any other failure is passed over.
Bootstrap ==
    /\ step = "bootstrap"
    /\ \/ ~needs_pin_bootstrap /\ UNCHANGED tlsVars /\ step' = "pubkey" /\ info' = info
       \/ needs_pin_bootstrap /\ Fails /\ step' = "pubkey" /\ info' = info
       \/ /\ needs_pin_bootstrap
          /\ \E a \in Keys :
               IF tls THEN \E k \in Keys : VerifyServerCert(k) /\ AdoptSpki(k, a)
               ELSE AdoptSpki(pin, a) /\ UNCHANGED accepted
    /\ UNCHANGED <<mode, tls, options>>

\* get_public_key and wrap_session_key.
GetPublicKey ==
    /\ step = "pubkey"
    /\ (Fails /\ bail) \/ (Reaches /\ step' = "ws" /\ info' = info)
    /\ UNCHANGED <<mode, tls, options>>

\* ws_connect.
WsConnect ==
    /\ step = "ws"
    /\ (Fails /\ bail) \/ (Reaches /\ step' = "up" /\ info' = info)
    /\ UNCHANGED <<mode, tls, options>>

\* The handshake fails, or the session it led to ends.
Disconnect ==
    /\ step = "up" /\ bail
    /\ UNCHANGED <<mode, tls, options, tlsVars>>

ConnectNext ==
    \/ SessionOnce \/ ProbeApiKey \/ ProbeApi \/ Bootstrap \/ GetPublicKey \/ WsConnect
    \/ Disconnect

ConnectSpec == ConnectInit /\ [][ConnectNext]_connectVars

-----------------------------------------------------------------------------
(* Properties                                                              *)

ConnectTypeOK ==
    /\ mode \in Modes /\ tls \in BOOLEAN /\ options \in [local : BOOLEAN, updates : BOOLEAN]
    /\ pin \in Keys \cup {NoKey} /\ step \in Steps
    /\ info \in [known : BOOLEAN, local : Said, slots : Said] /\ accepted \subseteq Keys

\* Whichever request comes first, the probe, getcertificate, the public key or the
\* WebSocket, and however many attempts fail in between, the pinning modes let one key
\* pass for the life of the client: the one they hold.
PinHeld == pins => accepted \subseteq {pin}

=============================================================================
