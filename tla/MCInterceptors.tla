--------------------------- MODULE MCInterceptors ---------------------------
(***************************************************************************)
(* A switch with two ports and headers of five bits, of which two are the  *)
(* address.  Three rules are nested in one another; the fourth is for a    *)
(* single port, has two outputs and overlaps with two of them in part.     *)
(***************************************************************************)
EXTENDS Interceptors

Address(bits) == bits @@ AnyAddress

Flow(priority, port, proto, bits, out) ==
  [priority |-> priority, out |-> out,
   match |-> [port |-> port, type |-> "ipv4", proto |-> proto, address |-> Address(bits)]]

MCAttr ==
  "ip" :> Flow(1, AnyPort, AnyValue, <<>>, <<"port">>) @@
  "door" :> Flow(2, 1, AnyValue, 5 :> One, <<"port", "controller">>) @@
  "net" :> Flow(3, AnyPort, AnyValue, 4 :> One, <<"port">>) @@
  "web" :> Flow(4, AnyPort, "tcp", 4 :> One, <<"controller">>)
====
