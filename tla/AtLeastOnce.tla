----------------------------- MODULE AtLeastOnce -----------------------------
(***************************************************************************)
(* What a durable event stream promises for each message, with nothing of  *)
(* entries, pending lists, consumers or retries: a message stays open      *)
(* until it was handled, was dead-lettered or was waived (dropped by the   *)
(* length bound, or older than the consumer group).  Handling twice is     *)
(* allowed; forgetting is not.                                             *)
(***************************************************************************)
CONSTANT Messages
VARIABLES open, done, dead, waived

vars    == <<open, done, dead, waived>>
Known   == open \cup done \cup dead \cup waived
Settled == done \cup dead \cup waived

Init == open = {} /\ done = {} /\ dead = {} /\ waived = {}

\* A producer publishes m or a consumer queues m again; the length bound may
\* waive other messages at the same time.
Enqueue(m, W) ==
  /\ W \subseteq Known
  /\ open \ W \subseteq open' /\ open' \subseteq open \cup {m}
  /\ waived' = waived \cup W
  /\ UNCHANGED <<done, dead>>

Handle(m) == m \in Known /\ done' = done \cup {m} /\ UNCHANGED <<open, dead, waived>>

GiveUp(m) == m \in Known /\ dead' = dead \cup {m} /\ UNCHANGED <<open, done, waived>>

\* Messages leave once settled.
Close(S) ==
  /\ S \subseteq open \cap Settled
  /\ open' = open \ S
  /\ UNCHANGED <<done, dead, waived>>

\* History is skipped, or the stream is lost with its dead letters.
Waive(W) ==
  /\ W \subseteq Known
  /\ waived' = waived \cup W
  /\ open \ W \subseteq open' /\ open' \subseteq open
  /\ dead \ W \subseteq dead' /\ dead' \subseteq dead
  /\ UNCHANGED done

Next ==
  \/ \E m \in Messages, W \in SUBSET Messages : Enqueue(m, W)
  \/ \E m \in Messages : Handle(m) \/ GiveUp(m)
  \/ \E S \in SUBSET Messages : Close(S) \/ Waive(S)

Spec == Init /\ [][Next]_vars

=============================================================================
