------------------------------- MODULE MCAdam -------------------------------
(* Values of the constants of Adam for TLC. *)
EXTENDS Adam

CONSTANTS c1, c2, v1, i1

\* A breaking field and a benign one.
MCFields == {"ControllerUrl", "ProxyUrl"}
Conf(url, proxy) ==
  [f \in MCFields |-> IF f = "ControllerUrl" THEN url ELSE proxy]

\* An address, another one together with an image, and a benign change.
MCSpecs == {[conf |-> Conf(c1, Unset), image |-> NoImage],
            [conf |-> Conf(c2, Unset), image |-> i1],
            [conf |-> Conf(c1, v1), image |-> NoImage]}
=============================================================================
