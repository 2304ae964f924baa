----------------------------- MODULE MCRequests -----------------------------
(***************************************************************************)
(* The two endpoints that ask the exchange while a client waits: the       *)
(* single-flight fetch and the proxy of the option chain.  They share      *)
(* nothing and are explored by TLC one at a time in one run: the requests  *)
(* of the other one have all been answered.                                *)
(***************************************************************************)
EXTENDS SingleFlight

CONSTANTS Clients, Nobody, MaxProxyFaults

VARIABLES cookies, locked, recent, lapsed, at, attempt, back, sent, excused, troubles

Proxy == INSTANCE NseProxy

ASSUME ProxyAssumption == Proxy!ConstantsAssumption

proxyVars == <<cookies, locked, recent, lapsed, at, attempt, back, sent, excused, troubles>>

FlightOver ==
  /\ cached = FALSE /\ lock = NoRequest
  /\ pc = [r \in Requests |-> "ok"] /\ late = [r \in Requests |-> FALSE]
  /\ holds = [r \in Requests |-> FALSE] /\ found = [r \in Requests |-> TRUE]
  /\ faults = [k \in FaultKinds |-> 0]

ProxyOver ==
  /\ cookies = "none" /\ locked = Nobody /\ recent = FALSE /\ lapsed = FALSE
  /\ at = [c \in Clients |-> "ok"] /\ attempt = [c \in Clients |-> 0]
  /\ back = [c \in Clients |-> "get"] /\ sent = [c \in Clients |-> "nothing"]
  /\ excused = {} /\ troubles = 0

RequestsInit == (Init /\ ProxyOver) \/ (FlightOver /\ Proxy!Init)

RequestsNext ==
  \/ Next /\ UNCHANGED proxyVars
  \/ Proxy!Next /\ UNCHANGED vars

RequestsSpec ==
  RequestsInit /\ [][RequestsNext]_<<vars, proxyVars>> /\ Fairness /\ Proxy!Fairness

RequestsTypeOK == TypeOK /\ Proxy!TypeOK

(* The properties of the instance, under their own names.                  *)
FailuresHaveReasons == Proxy!FailuresHaveReasons

(* Every request for a price or a chain is answered, whoever dies with the *)
(* lock it waits for and whatever a refresh of the cookies meets.          *)
EveryoneIsAnswered == EveryRequestAnswered /\ Proxy!EveryClientServed
=============================================================================
