---------------------------- MODULE MCSupervisor ----------------------------
\* Supervisor with small reconnect budgets, the unlimited one among them.
EXTENDS Supervisor

=============================================================================
