----------------------------- MODULE MCServices -----------------------------
(***************************************************************************)
(* Components that do not interact, explored by TLC one at a time in one   *)
(* run: `part' says which, the others keep their initial state.  The read  *)
(* model is extended, the rest are instances.                              *)
(***************************************************************************)
EXTENDS ReadModel, SequencesExt

CONSTANTS
  Workers, Interval, Ttl, Period, Delay, MaxBurnt,                       \* PollSlot
  ChannelLists, MaxAttempts,                                             \* AlertDelivery
  Symbols, NoSymbol, MaxTime, MaxLoads, MaxInFlight,                     \* Dashboard
  MaxSwitches, MaxDrops,                                                 \* TabSocket
  Adapters, Calls, AdapterOf, TokenLife, Margin, LoginDelay, LastSecond  \* GrowwToken

VARIABLES
  part,
  watched, loop, since, sleep, slot, unserved, recent, slotFailures,     \* PollSlot
  burnt,
  channels, usable, next, attempt, errors, status, reached, copies,      \* AlertDelivery
  symbol, spot, clock, chain, expiry, seq, loads, refreshes, lookups,    \* Dashboard
  panel, connected, wanted, failed,
  shown, socket, created, greeting, heartbeat, timers, switches, drops,  \* TabSocket
  now, own, cached, end, call, waiting, token, ttl, last, tokenFailures  \* GrowwToken

Slot     == INSTANCE PollSlot WITH failures <- slotFailures
Delivery == INSTANCE AlertDelivery
Tab      == INSTANCE Dashboard
Socket   == INSTANCE TabSocket
Login    == INSTANCE GrowwToken WITH stage <- call, since <- waiting, failures <- tokenFailures,
                                     Delay <- LoginDelay, MaxTime <- LastSecond

ASSUME ServicesAssumption ==
  /\ Slot!ConstantsAssumption /\ Delivery!ConstantsAssumption
  /\ Tab!ConstantsAssumption /\ Socket!ConstantsAssumption
  /\ Login!ConstantsAssumption

Interchangeable == Permutations(Tasks) \cup Permutations(Workers)

\* Every list of up to three channels.
ListsOfThree == BoundedSeq({"WEBSOCKET", "WEBHOOK", "EMAIL"}, 3) \ {<<>>}

\* Every call has an adapter of its own.
OwnAdapter == [c \in Calls |-> c]

slotVars     == <<watched, loop, since, sleep, slot, unserved, recent, slotFailures, burnt>>
deliveryVars == <<channels, usable, next, attempt, errors, status, reached, copies>>
tabVars      == <<symbol, spot, clock, chain, expiry, seq, loads, refreshes, lookups, panel,
                  connected, wanted, failed>>
socketVars   == <<shown, socket, created, greeting, heartbeat, timers, switches, drops>>
loginVars    == <<now, own, cached, end, call, waiting, token, ttl, last, tokenFailures>>
allVars      == <<part, vars, slotVars, deliveryVars, tabVars, socketVars, loginVars>>

ServicesInit ==
  /\ part \in {"read model", "slot", "delivery", "tab", "socket", "login"}
  /\ Init /\ Slot!Init /\ Delivery!Init /\ Tab!Init /\ Socket!Init /\ Login!Init
  /\ part # "delivery" => channels = <<"EMAIL">> /\ usable = {"WEBSOCKET"}

ServicesNext ==
  \/ /\ part = "read model" /\ Next
     /\ UNCHANGED <<part, slotVars, deliveryVars, tabVars, socketVars, loginVars>>
  \/ /\ part = "slot" /\ Slot!Next
     /\ UNCHANGED <<part, vars, deliveryVars, tabVars, socketVars, loginVars>>
  \/ /\ part = "delivery" /\ Delivery!Next
     /\ UNCHANGED <<part, vars, slotVars, tabVars, socketVars, loginVars>>
  \/ /\ part = "tab" /\ Tab!Next
     /\ UNCHANGED <<part, vars, slotVars, deliveryVars, socketVars, loginVars>>
  \/ /\ part = "socket" /\ Socket!Next
     /\ UNCHANGED <<part, vars, slotVars, deliveryVars, tabVars, loginVars>>
  \/ /\ part = "login" /\ Login!Next
     /\ UNCHANGED <<part, vars, slotVars, deliveryVars, tabVars, socketVars>>

ServicesSpec == ServicesInit /\ [][ServicesNext]_allVars

(* The type invariants of the components.                                  *)
ServicesTypeOK ==
  TypeOK /\ Slot!TypeOK /\ Delivery!TypeOK /\ Tab!TypeOK /\ Socket!TypeOK /\ Login!TypeOK

(* The properties of the instances, under their own names.                 *)
OneDispatchPerSlot    == Slot!OneDispatchPerSlot
ViewersAreServed      == Slot!ViewersAreServed
DeliveryIsHonest      == Delivery!DeliveryIsHonest
ScreenFollowsChoice   == Tab!OneSymbolOnScreen /\ Socket!ReconnectsWhatIsShown
PriceMovesForward     == Tab!PriceMovesForward
CachedTokenIsLive     == Login!CachedTokenIsLive
LoginsAreSpaced       == Login!LoginsAreSpaced
=============================================================================
