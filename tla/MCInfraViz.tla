----------------------------- MODULE MCInfraViz -----------------------------
(* Values of the constants of InfraViz for TLC. *)
EXTENDS InfraViz

CONSTANTS n1, n2, d1, d2, bad, info, debug, i1

\* Another address, another log level and another image, with and without the
\* fields that have defaults; and an address that is refused.
MCSpecs ==
  {[address |-> d1, viz |-> Unset, log |-> info, image |-> NoImage,
    netviz |-> 0, ssl |-> FALSE],
   [address |-> d2, viz |-> "true", log |-> debug, image |-> i1,
    netviz |-> 1, ssl |-> TRUE],
   [address |-> bad, viz |-> "true", log |-> info, image |-> i1,
    netviz |-> 0, ssl |-> FALSE]}

\* The address changes, alone or with the log level, or the log level alone;
\* one spec leaves enableServerViz to its default.
MCMixed ==
  {[address |-> d1, viz |-> Unset, log |-> info, image |-> i1,
    netviz |-> 0, ssl |-> FALSE],
   [address |-> d2, viz |-> "true", log |-> info, image |-> i1,
    netviz |-> 0, ssl |-> FALSE],
   [address |-> d2, viz |-> "true", log |-> debug, image |-> i1,
    netviz |-> 0, ssl |-> FALSE]}

\* An SSL store and a log level.
MCSsl ==
  {[address |-> d1, viz |-> "true", log |-> l, image |-> i1,
    netviz |-> 0, ssl |-> s] :
     l \in {info, debug}, s \in BOOLEAN}
MCAlwaysSsl == {s \in MCSsl : s.ssl /\ s.log = info}
=============================================================================
