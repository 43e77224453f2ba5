--------------------------- MODULE MCClusterAgent ---------------------------
(* Values of the constants of ClusterAgent for TLC. *)
EXTENDS ClusterAgent

CONSTANTS a1, a2, p1, p2, p3, u1, u2, bad, i1, i2, c1

\* Two addresses, an image or none, a configuration field or none.
MCSpecs == {[url |-> u1, image |-> NoImage, conf |-> Unset],
            [url |-> u2, image |-> i1, conf |-> c1]}
\* One of the addresses is refused by validateControllerUrl.
MCSpecsWithInvalid == MCSpecs \cup
           {[url |-> bad, image |-> i1, conf |-> Unset]}
\* Only the address changes.
MCAddresses == {[url |-> u1, image |-> i1, conf |-> c1],
                [url |-> u2, image |-> i1, conf |-> c1]}
=============================================================================
