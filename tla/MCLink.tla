------------------------------- MODULE MCLink -------------------------------
\* Link with a tick of 30 seconds: a keepalive every 2, an idle timeout of 5, and
\* length units of 960 KiB, so that 9 of them are the 8 MiB table of read_timeout's
\* own tests.
EXTENDS Link

=============================================================================
