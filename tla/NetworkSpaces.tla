---------------------------- MODULE NetworkSpaces ----------------------------
(***************************************************************************)
(* The algebra of network spaces and transfers (NetworkSpace.cpp) that the *)
(* dependency graph and the path trees compute with.  A space is an input  *)
(* port and a set of headers; ports have names of their own across the     *)
(* switches.  A transfer is the port it moves a packet to: rewriting of    *)
(* headers is left out, every header changer is the identity.              *)
(***************************************************************************)
CONSTANTS
  Ports,    (* the ports of all switches                                   *)
  Headers,  (* the headers the rules can tell apart                        *)
  AnyPort,  (* SpecialPort::ANY                                            *)
  NoPort    (* SpecialPort::NONE                                           *)

ASSUME SpecialPorts == AnyPort # NoPort /\ {AnyPort, NoPort} \cap Ports = {}

Space == [port : Ports \cup {AnyPort, NoPort}, headers : SUBSET Headers]

EmptySpace == [port |-> NoPort, headers |-> {}]
SpaceAt(p) == [port |-> p, headers |-> Headers]

IsEmpty(s) == s.port = NoPort \/ s.headers = {}

(* The port of an intersection: ANY gives way to the port of the other     *)
(* side, and two different ports have nothing in common.                   *)
CommonPort(p, q) ==
  CASE p = AnyPort           -> q
    [] q \in {AnyPort, p}    -> p
    [] OTHER                 -> NoPort

Meet(s, t) ==
  LET p == CommonPort(s.port, t.port)
  IN  IF p = NoPort THEN EmptySpace
      ELSE [port |-> p, headers |-> s.headers \cap t.headers]

(* operator-= takes the headers away and does not look at the ports.       *)
Minus(s, t) == [s EXCEPT !.headers = @ \ t.headers]

(* Where a transfer to port t takes a space; NONE leaves it at its port.   *)
Apply(t, s) == IF t = NoPort THEN s ELSE [s EXCEPT !.port = t]

(* Every transfer of the graph has ANY as its source port.                 *)
InverseSpace(s) == [s EXCEPT !.port = AnyPort]
====
