------------------------------- MODULE MCToken -------------------------------
\* Token with three tokens: one held, one in a refresher's answer or lost, and one to
\* be issued.
EXTENDS Token

=============================================================================
