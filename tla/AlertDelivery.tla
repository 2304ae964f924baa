---------------------------- MODULE AlertDelivery ----------------------------
(***************************************************************************)
(* The delivery of one alert: the loop over the rule's channels in         *)
(* evaluate_tick_event, the WebSocket, webhook and email adapters          *)
(* (domains/notifications/infrastructure/channels) and the status that     *)
(* goes to NotificationLogs.  Redis, the receiver of the webhook and the   *)
(* SMTP server are external: they may take a message and fail to say so.   *)
(***************************************************************************)
EXTENDS Naturals, Sequences, FiniteSets

CONSTANTS ChannelLists,  \* the channel lists rules have: lists with repetitions
          MaxAttempts    \* WebhookMaxAttempts

ChannelTypes == {"WEBSOCKET", "WEBHOOK", "EMAIL"}

ConstantsAssumption ==
  /\ ChannelLists \subseteq Seq(ChannelTypes) \ {<<>>}
  /\ MaxAttempts \in Nat

VARIABLES
  channels,  \* the channels of the rule
  usable,    \* those whose destination is set, safe and configured
  next,      \* the position of the channel being dispatched
  attempt,   \* webhook requests sent by this dispatch
  errors,    \* error_details: the positions that did not report success
  status,    \* status of the NotificationEvent
  reached,   \* history: the positions whose alert reached the other side
  copies     \* history: how many times it did

vars == <<channels, usable, next, attempt, errors, status, reached, copies>>

Positions == 1 .. Len(channels)
Attempts  == IF MaxAttempts = 0 THEN 1 ELSE MaxAttempts

TypeOK ==
  /\ channels \in ChannelLists
  /\ usable \subseteq ChannelTypes
  /\ next \in 1 .. Len(channels) + 1
  /\ attempt \in 0 .. Attempts - 1
  /\ errors \subseteq Positions
  /\ status \in {"PENDING", "DELIVERED", "FAILED"}
  /\ reached \subseteq Positions
  /\ copies \in [Positions -> Nat]

\* The WebSocket channel needs no destination.
Init ==
  /\ channels \in ChannelLists
  /\ usable \in {u \cup {"WEBSOCKET"} : u \in SUBSET {"WEBHOOK", "EMAIL"}}
  /\ next = 1 /\ attempt = 0 /\ errors = {} /\ status = "PENDING"
  /\ reached = {} /\ copies = [p \in Positions |-> 0]

On(channel) == next \in Positions /\ channels[next] = channel /\ status = "PENDING"

\* The other side takes the alert.
Arrives == /\ reached' = reached \cup {next}
           /\ copies' = [copies EXCEPT ![next] = @ + 1]
Lost    == UNCHANGED <<reached, copies>>

\* Mutant of Return: the first failure ends the loop.
ReturnAtFirstError(ok) ==
  /\ errors' = IF ok THEN errors ELSE errors \cup {next}
  /\ next' = IF ok THEN next + 1 ELSE Len(channels) + 1
  /\ attempt' = 0
  /\ UNCHANGED <<channels, usable, status>>

\* dispatch returns ok, or raises, which counts as not ok.
Return(ok) ==
  /\ errors' = IF ok THEN errors ELSE errors \cup {next}
  /\ next' = next + 1 /\ attempt' = 0
  /\ UNCHANGED <<channels, usable, status>>

-----------------------------------------------------------------------------
(* WebSocketNotificationChannelAdapter: EventBus.publish logs an error and *)
(* returns 0, so dispatch reports success either way.                      *)
WebSocket == On("WEBSOCKET") /\ (Arrives \/ Lost) /\ Return(TRUE)

(* WebhookNotificationChannelAdapter and EmailNotificationChannelAdapter   *)
(* without a usable destination.                                           *)
Refuse ==
  /\ On("WEBHOOK") \/ On("EMAIL")
  /\ channels[next] \notin usable
  /\ Lost /\ Return(FALSE)

Post == On("WEBHOOK") /\ "WEBHOOK" \in usable

(* A 2xx answer. *)
PostAccepted == Post /\ Arrives /\ Return(TRUE)

\* Mutant of PostRejected: a rejection taken for an answer.
PostRejectedAsSuccess == Post /\ Lost /\ Return(TRUE)

(* Any other 4xx: a retry would not help. *)
PostRejected == Post /\ Lost /\ Return(FALSE)

\* Mutant of PostFails: one request too many.
PostFailsOnceMore ==
  /\ Post
  /\ Arrives \/ Lost
  /\ IF attempt < Attempts
     THEN attempt' = attempt + 1 /\ UNCHANGED <<channels, usable, next, errors, status>>
     ELSE Return(FALSE)

(* A 5xx, a 429 or a transport error; the receiver may have taken it. *)
PostFails ==
  /\ Post
  /\ Arrives \/ Lost
  /\ IF attempt + 1 < Attempts
     THEN attempt' = attempt + 1 /\ UNCHANGED <<channels, usable, next, errors, status>>
     ELSE Return(FALSE)

(* SMTP in a worker thread; the server may fail after taking the message. *)
Send == On("EMAIL") /\ "EMAIL" \in usable

SendAccepted == Send /\ Arrives /\ Return(TRUE)
SendFails    == Send /\ (Arrives \/ Lost) /\ Return(FALSE)

(* All channels were tried: the status of the log entry. *)
Conclude ==
  /\ next > Len(channels) /\ status = "PENDING"
  /\ status' = IF errors = {} THEN "DELIVERED" ELSE "FAILED"
  /\ UNCHANGED <<channels, usable, next, attempt, errors, reached, copies>>

Next ==
  \/ WebSocket \/ Refuse \/ PostAccepted \/ PostRejected \/ PostFails
  \/ SendAccepted \/ SendFails \/ Conclude

Spec == Init /\ [][Next]_vars

-----------------------------------------------------------------------------
Acknowledging == {p \in Positions : channels[p] # "WEBSOCKET"}

(* A webhook or an email that is not reported as failed did reach its      *)
(* receiver, at every point of the loop and whatever its other channels    *)
(* did.                                                                    *)
SuccessIsReal ==
  \A p \in Acknowledging : p < next /\ p \notin errors => p \in reached

(* An alert reaches a receiver at most once per attempt, and once only if  *)
(* the channel does not retry.                                             *)
CopiesAreBounded ==
  \A p \in Positions :
    copies[p] <= IF channels[p] = "WEBHOOK" THEN Attempts ELSE 1

(* One channel's failure keeps no other from being tried: when the log     *)
(* entry is made, every webhook and email of the rule either reached its   *)
(* receiver or is accounted for, and the status FAILED has a cause.        *)
EveryChannelTried ==
  /\ status # "PENDING" => Acknowledging \subseteq reached \cup errors
  /\ status = "FAILED" => errors # {}

(* A delivery reports what it did, does no more, and leaves nobody out.    *)
DeliveryIsHonest == SuccessIsReal /\ CopiesAreBounded /\ EveryChannelTried
=============================================================================
