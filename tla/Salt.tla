-------------------------------- MODULE Salt --------------------------------
(***************************************************************************)
(* The command salt of one connection: SaltState on the sending side, and  *)
(* what the Miniserver expects of the encrypted commands it receives.      *)
(*                                                                         *)
(* The handshake and then the writer own the state one after the other;    *)
(* every command they encrypt is written in that order or the connection   *)
(* is given up.  A salt is the number of its draw: random salts of this    *)
(* length do not repeat.                                                   *)
(***************************************************************************)
EXTENDS Naturals, Sequences

CONSTANTS
    MaxUse,     \* SALT_MAX_USE_COUNT
    MaxAge,     \* SALT_MAX_AGE_SECONDS, in ticks
    AgeCap,     \* ages above this are not told apart
    MaxDraws,   \* bound: salts drawn
    WireCap     \* bound: commands under way

ASSUME SaltAssumption ==
    /\ MaxUse \in Nat /\ MaxAge \in Nat /\ AgeCap \in Nat /\ MaxAge < AgeCap
    /\ MaxDraws \in Nat /\ WireCap \in Nat

VARIABLES
    salt,    \* SaltState::salt, 0 when empty
    used,    \* SaltState::salt_used_count
    age,     \* seconds since salt_time_stamp
    drawn,   \* salts drawn so far
    wire,    \* encrypted commands under way: the salt, and the one it replaces or 0
    server,  \* the salt the Miniserver expects, 0 before the first command
    refused, \* the Miniserver has answered 401
    uses     \* history: commands encrypted under the current salt

vars == <<salt, used, age, drawn, wire, server, refused, uses>>

Init ==
    /\ salt = 0 /\ used = 0 /\ age = 0 /\ drawn = 0
    /\ wire = <<>> /\ server = 0 /\ refused = FALSE /\ uses = 0

\* Mutant: the clock is read, the uses are not.
AgedOnly == age > MaxAge

\* new_salt_needed, its increment included.
NewSaltNeeded == used + 1 > MaxUse \/ age > MaxAge

\* encrypt: salt/{salt}/{cmd}, or nextSalt/{previous}/{salt}/{cmd}.
Encrypt ==
    /\ Len(wire) < WireCap /\ drawn < MaxDraws
    /\ IF salt = 0 \/ NewSaltNeeded
       THEN /\ drawn' = drawn + 1 /\ salt' = drawn' /\ used' = 0 /\ age' = 0 /\ uses' = 1
            /\ wire' = Append(wire, [salt |-> salt', next |-> salt])
       ELSE /\ used' = used + 1 /\ uses' = uses + 1
            /\ wire' = Append(wire, [salt |-> salt, next |-> 0])
            /\ UNCHANGED <<salt, age, drawn>>
    /\ UNCHANGED <<server, refused>>

\* The wall clock moves on, or is set; before the time stamp the age is 0.
Tick ==
    /\ salt # 0
    /\ age' \in 0..AgeCap
    /\ UNCHANGED <<salt, used, drawn, wire, server, refused, uses>>

\* The Miniserver takes the first salt of a connection as it comes, and expects the
\* same one until a command replaces it.
Serve ==
    /\ wire # <<>>
    /\ wire' = Tail(wire)
    /\ LET cmd == Head(wire) IN
       /\ refused' = (refused \/ (IF cmd.next = 0 THEN server \notin {0, cmd.salt}
                                 ELSE server # cmd.next))
       /\ server' = cmd.salt
    /\ UNCHANGED <<salt, used, age, drawn, uses>>

\* Mutant: the salt is carried over to the next connection.
ReconnectKeepsSalt ==
    /\ wire' = <<>> /\ server' = 0
    /\ UNCHANGED <<salt, used, age, drawn, refused, uses>>

\* A session ends with whatever was under way, and session_once starts the next with
\* a SaltState of its own.
Reconnect ==
    /\ salt' = 0 /\ used' = 0 /\ age' = 0 /\ uses' = 0
    /\ wire' = <<>> /\ server' = 0
    /\ UNCHANGED <<drawn, refused>>

Next == Encrypt \/ Tick \/ Serve \/ Reconnect

Spec == Init /\ [][Next]_vars

-----------------------------------------------------------------------------
(* Properties                                                              *)

TypeOK ==
    /\ drawn \in 0..MaxDraws /\ salt \in 0..drawn /\ server \in 0..drawn
    /\ used \in 0..MaxUse /\ uses \in Nat /\ age \in 0..AgeCap
    /\ wire \in Seq([salt : 1..drawn, next : 0..drawn]) /\ Len(wire) <= WireCap
    /\ refused \in BOOLEAN

\* The Miniserver never finds another salt than the one it expects, however many
\* commands are pipelined across a rotation and however often the connection is
\* replaced in between: no "spurious 401".
NeverRefused == ~refused

\* A salt protects at most SALT_MAX_USE_COUNT commands after the one that
\* introduced it, however the clock is set.
SaltRetired == uses <= MaxUse + 1

=============================================================================
