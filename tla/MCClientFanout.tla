--------------------------- MODULE MCClientFanout ---------------------------
(* ClientFanout with a number as an id and the string that reads like it.  *)
EXTENDS ClientFanout

MCIds == {[kind |-> k, text |-> "1"] : k \in {"num", "str"}}
=============================================================================
