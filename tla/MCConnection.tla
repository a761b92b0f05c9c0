---------------------------- MODULE MCConnection ----------------------------
\* Connection with short-lived salts, so that rotations fall into the handshake and
\* the session, and a small budget of interleaved messages.
EXTENDS Connection

=============================================================================
