-------------------------- MODULE MCDurableStream --------------------------
(* Values of the constants of DurableStream for TLC. *)
EXTENDS DurableStream, TLC

SameConsumers == Permutations(Consumers)

\* Consumers crash and overrun min_idle_ms; Redis is healthy.
ConsumerFaults == [crash |-> 1, slow |-> 1, error |-> 0, wipe |-> 0]

\* And Redis loses a reply, and restarts without the group.
AllFaults == [crash |-> 1, slow |-> 1, error |-> 1, wipe |-> 1]

\* Redis restarts once from a snapshot taken before the group was created.
OneWipe == [crash |-> 0, slow |-> 0, error |-> 0, wipe |-> 1]
=============================================================================
