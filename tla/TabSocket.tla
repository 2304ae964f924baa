------------------------------ MODULE TabSocket ------------------------------
(***************************************************************************)
(* The WebSocket of a browser tab (setupWebSocket in frontend/app.js): it  *)
(* follows the symbol shown, is opened again by a timer when it is lost,   *)
(* and has an interval that sends pings.  A callback runs to its end or to *)
(* its await.                                                              *)
(*                                                                         *)
(* A symbol is shown after its load, when fetchTickerData switches the     *)
(* socket: no await lies between the two.  The growing delay of the timers *)
(* is left out: they may fire at any time.                                 *)
(***************************************************************************)
EXTENDS Naturals

CONSTANTS Symbols,
          NoSymbol,      \* nothing loaded yet
          MaxSwitches,   \* bound on the loads shown
          MaxDrops       \* bound on the connections lost

ConstantsAssumption ==
  NoSymbol \notin Symbols /\ MaxSwitches \in Nat /\ MaxDrops \in Nat

VARIABLES
  shown,      \* appState.symbol
  socket,     \* currentSocket and activeSocketSymbol; id 0 for null
  created,    \* sockets created so far
  greeting,   \* the sockets whose onopen awaits authHeaders
  heartbeat,  \* the socket whose wsHeartbeatTimer is set, 0 for none
  timers,     \* how many reconnection timers are set, by symbol
  switches,   \* history: loads shown so far
  drops       \* history: connections lost so far

vars == <<shown, socket, created, greeting, heartbeat, timers, switches, drops>>

NoSocket == [id |-> 0, symbol |-> NoSymbol, open |-> FALSE]

TypeOK ==
  /\ shown \in Symbols \cup {NoSymbol}
  /\ created \in 0 .. MaxSwitches + MaxDrops
  /\ socket = NoSocket \/ socket \in [id: 1 .. created, symbol: Symbols, open: BOOLEAN]
  /\ greeting \subseteq 1 .. created /\ heartbeat \in 0 .. created
  /\ timers \in [Symbols -> 0 .. MaxDrops]
  /\ switches \in 0 .. MaxSwitches /\ drops \in 0 .. MaxDrops

Init ==
  /\ shown = NoSymbol /\ socket = NoSocket /\ created = 0
  /\ greeting = {} /\ heartbeat = 0
  /\ timers = [s \in Symbols |-> 0] /\ switches = 0 /\ drops = 0

\* The previous socket is no longer current before it is closed, so its onclose
\* does nothing; closed before it opened, it never runs onopen.
SetupWebSocket(s) ==
  /\ created' = created + 1
  /\ socket' = [id |-> created', symbol |-> s, open |-> FALSE]
  /\ heartbeat' = 0

Keep == UNCHANGED <<socket, created, heartbeat>>

\* The end of fetchTickerData.
Show(s) ==
  /\ switches < MaxSwitches /\ switches' = switches + 1
  /\ shown' = s
  /\ IF socket = NoSocket \/ socket.symbol # s THEN SetupWebSocket(s) ELSE Keep
  /\ UNCHANGED <<greeting, timers, drops>>

Open ==
  /\ socket # NoSocket /\ ~socket.open
  /\ socket' = [socket EXCEPT !.open = TRUE]
  /\ greeting' = greeting \cup {socket.id}
  /\ UNCHANGED <<shown, created, heartbeat, timers, switches, drops>>

\* The rest of onopen, whether its socket is still current or not.
Greeted(id) ==
  /\ id \in greeting
  /\ greeting' = greeting \ {id} /\ heartbeat' = id
  /\ UNCHANGED <<shown, socket, created, timers, switches, drops>>

\* onclose of the current socket, which may never have opened.
Close ==
  /\ socket # NoSocket /\ drops < MaxDrops
  /\ drops' = drops + 1
  /\ socket' = NoSocket /\ heartbeat' = 0
  /\ timers' = IF shown = socket.symbol THEN [timers EXCEPT ![shown] = @ + 1] ELSE timers
  /\ UNCHANGED <<shown, created, greeting, switches>>

\* Mutant of Reconnect: the symbol shown is not compared.
ReconnectWhateverShown(s) ==
  /\ timers[s] > 0
  /\ timers' = [timers EXCEPT ![s] = @ - 1]
  /\ IF socket = NoSocket THEN SetupWebSocket(s) ELSE Keep
  /\ UNCHANGED <<shown, greeting, switches, drops>>

\* A reconnection timer of s fires.
Reconnect(s) ==
  /\ timers[s] > 0
  /\ timers' = [timers EXCEPT ![s] = @ - 1]
  /\ IF shown = s /\ socket = NoSocket THEN SetupWebSocket(s) ELSE Keep
  /\ UNCHANGED <<shown, greeting, switches, drops>>

Next ==
  \/ \E s \in Symbols : Show(s) \/ Reconnect(s)
  \/ \E id \in greeting : Greeted(id)
  \/ Open \/ Close

Spec == Init /\ [][Next]_vars

-----------------------------------------------------------------------------
(* A tab that shows a symbol has a socket of that symbol, or else a timer  *)
(* is set that will open one, whatever was shown and lost in between.      *)
ReconnectsWhatIsShown ==
  shown # NoSymbol =>
    IF socket = NoSocket THEN timers[shown] > 0 ELSE socket.symbol = shown
=============================================================================
