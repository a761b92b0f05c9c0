-------------------------------- MODULE Echo --------------------------------
(***************************************************************************)
(* The comparison of an answer's LL.control with the command its waiter    *)
(* stands for.                                                             *)
(*                                                                         *)
(* A command is the sequence of what stands between its slashes; an        *)
(* encrypted one is jdev/sys/enc and a blob, which is its key and its      *)
(* salted plaintext.                                                       *)
(***************************************************************************)
EXTENDS Naturals, Sequences

CONSTANT Commands  \* the commands a waiter or an answer may be of

\* What stands in front of a leading slash.
Root == ""

\* A command starts with jdev, and then its verb has three segments, or with a verb of
\* its own; jdev/sys/enc is what encrypted ones are sent as.
ASSUME CommandsAssumption ==
    \A cmd \in Commands :
        /\ cmd \in Seq(STRING) /\ cmd # <<>> /\ Head(cmd) \notin {Root, "dev"}
        /\ Head(cmd) = "jdev" => Len(cmd) >= 3 /\ ~(cmd[2] = "sys" /\ cmd[3] = "enc")

VARIABLES
    waiter,        \* the PendingEntry last resolved: plaintext_cmd and wire_cmd
    answer,        \* the answer it took: the command, and its echo
    matched        \* Resolved::matched

echoVars == <<waiter, answer, matched>>

-----------------------------------------------------------------------------
(* Commands                                                                *)

Sealed(path, key, plain) == [path |-> path, blob |-> <<key, plain>>]
Open(path) == [path |-> path, blob |-> <<>>]

\* fill_salted_plaintext and encrypt, within a salt's life and where it is replaced.
encrypt(cmd, rotates) ==
    Sealed(<<"jdev", "sys", "enc">>, "ours",
           (IF rotates THEN <<"nextSalt", "s1", "s2">> ELSE <<"salt", "s1">>) \o cmd)

\* Mutant: the slash in front stays.
canonical_keeps_slash(path) ==
    IF Len(path) > 1 /\ Head(path) = "jdev" THEN <<"dev">> \o Tail(path) ELSE path

\* A leading slash and the j of jdev are dropped; white space and trailing NULs, which
\* are no part of the path, as well.
canonical(path) ==
    LET s == IF Len(path) > 1 /\ Head(path) = Root THEN Tail(path) ELSE path
    IN  IF Len(s) > 1 /\ Head(s) = "jdev" THEN <<"dev">> \o Tail(s) ELSE s

take_segments(path, n) == SubSeq(path, 1, IF Len(path) < n THEN Len(path) ELSE n)

verb(path) ==
    LET s == canonical(path)
    IN  take_segments(s, IF Len(s) > 1 /\ Head(s) = "dev" THEN 3 ELSE 1)

control_matches(plain, cmd) == verb(plain) = verb(cmd)

strip_salt_prefix(plain) ==
    CASE Head(plain) = "nextSalt" /\ Len(plain) > 3 -> SubSeq(plain, 4, Len(plain))
      [] Head(plain) = "salt" /\ Len(plain) > 2 -> SubSeq(plain, 3, Len(plain))
      [] OTHER -> plain

\* A control that contains jdev/sys/enc/ is decrypted, any other stands for itself; one
\* that another key encrypted cannot be read.
decode_control(ctrl) ==
    IF \/ ctrl.blob = <<>>
       \/ ctrl.path \notin {<<"jdev", "sys", "enc">>, <<Root, "jdev", "sys", "enc">>}
    THEN ctrl.path
    ELSE IF ctrl.blob[1] = "ours" THEN strip_salt_prefix(ctrl.blob[2]) ELSE <<>>

\* PendingQueue::resolve, of a control that the text does have.
Resolves(entry, ctrl) ==
    \/ /\ canonical(ctrl.path) = canonical(entry.wire.path)
       /\ ctrl.blob = entry.wire.blob
    \/ LET plain == decode_control(ctrl) IN plain # <<>> /\ control_matches(plain, entry.plain)

-----------------------------------------------------------------------------
(* Answers as they come                                                    *)

Quirk(path, slash, j) ==
    LET p == IF ~j /\ Head(path) = "jdev" THEN <<"dev">> \o Tail(path) ELSE path
    IN  IF slash THEN <<Root>> \o p ELSE p

\* The echo of a command that went out as wire: as it was sent, or re-encrypted, or by
\* its plain form, from which arguments may be missing.
Spelling(cmd, wire, how, slash, j) ==
    CASE how = "wire" -> [wire EXCEPT !.path = Quirk(@, slash, j)]
      [] how = "again" -> [encrypt(cmd, TRUE) EXCEPT !.path = Quirk(@, slash, j)]
      [] how = "plain" -> Open(Quirk(cmd, slash, j))
      [] how = "elided" -> Open(Quirk(take_segments(cmd, 3), slash, j))
      [] how = "foreign" -> Sealed(<<"jdev", "sys", "enc">>, "other", cmd)

Echoes(cmd, wire) ==
    {[cmd |-> cmd, how |-> how, j |-> j, ctrl |-> Spelling(cmd, wire, how, slash, j)] :
       how \in {"wire", "again", "plain", "elided", "foreign"},
       slash \in BOOLEAN, j \in BOOLEAN}

EchoInit ==
    /\ waiter = [plain |-> <<>>, wire |-> Open(<<>>)]
    /\ answer = [cmd |-> <<>>, how |-> "none", j |-> TRUE, ctrl |-> Open(<<>>)]
    /\ matched = TRUE

\* An answer reaches the head of the queue, which is a command sent in the clear or
\* encrypted; the answer is to that one, or to another.
ResolveHead ==
    /\ waiter.plain = <<>>
    /\ \E cmd \in Commands, other \in Commands, sealed \in BOOLEAN, rotates \in BOOLEAN :
         LET wire(c) == IF sealed THEN encrypt(c, rotates) ELSE Open(c) IN
         /\ waiter' = [plain |-> cmd, wire |-> wire(cmd)]
         /\ answer' \in Echoes(other, wire(other))
    /\ matched' = Resolves(waiter', answer'.ctrl)

EchoSpec == EchoInit /\ [][ResolveHead]_echoVars

-----------------------------------------------------------------------------
(* Properties                                                              *)

\* The kind of a command, as Session tells its answers apart.
Kind(cmd) == IF Head(cmd) = "jdev" THEN SubSeq(cmd, 1, 3) ELSE <<Head(cmd)>>

\* An answer passes for the waiter's exactly if it is of the waiter's kind, however the
\* Miniserver spells its echo.  The blob that was sent is recognised without being read;
\* any other has to be read, which takes the session's key and the j of jdev.
EchoMatches ==
    LET blob == answer.ctrl.blob
        readable == \/ blob \in {<<>>, waiter.wire.blob}
                    \/ blob[1] = "ours" /\ answer.j
        same == Kind(answer.cmd) = Kind(waiter.plain)
    IN  waiter.plain # <<>> => (matched <=> same /\ readable)

=============================================================================
