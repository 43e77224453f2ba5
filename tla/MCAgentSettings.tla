-------------------------- MODULE MCAgentSettings --------------------------
(* Values of the constants of AgentSettings, for TLC. *)
EXTENDS AgentSettings

CONSTANTS c1, c2, v1

\* A breaking field without a default, two with one, and a benign field.
MCFields == {"ControllerUrl", "Account", "SystemSSLCert", "AgentSSLCert",
             "ProxyUrl"}

\* Two addresses; at most one optional field, with its default or another
\* value.
MCSpecs ==
  UNION {{[f \in MCFields |-> IF f = "ControllerUrl" THEN c
                              ELSE IF f = g THEN x ELSE Unset] :
            g \in MCFields, x \in {Default, v1}} : c \in {c1, c2}}
=============================================================================
