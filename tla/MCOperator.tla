----------------------------- MODULE MCOperator -----------------------------
(***************************************************************************)
(* The operator around the reconcile loops, for TLC: who becomes the       *)
(* leader, what a leader makes of the settings of an Adam, and how the     *)
(* address of a controller is read.                                        *)
(*                                                                         *)
(* Only a leader reconciles.  The settings change while one pod leads that *)
(* has never met a failure, an address is written while they are as they   *)
(* were created, and the pods change while there is no address: what the   *)
(* three do at once says no more than each alone.                          *)
(***************************************************************************)
EXTENDS MCAgentSettings, ControllerUrl, LeaderForLife

\* Hosts with and without an s, with http; ports of 16 bits, and not.
MCPieces ==
  {Http, Https, Piece(FALSE, FALSE, NoNumber, "controller"),
   Piece(FALSE, TRUE, NoNumber, "saas"), Piece(TRUE, TRUE, NoNumber, "httpserver"),
   Piece(FALSE, FALSE, NoNumber, "8090/path")}
    \cup {Piece(FALSE, FALSE, n, "port") :
            n \in {-1, 0, 1, 80, 443, 8090, 32768, 65535, 65536}}

\* One of the pods has become the leader, without a failure or a stop.
FirstLeader ==
  LET leader == CHOOSE p \in Pods : TRUE IN
  /\ lock = leader /\ faults = 0 /\ stops = 0
  /\ state = [p \in Pods |-> IF p = leader THEN "leading" ELSE "absent"]

Created == SettingsInit /\ spec = CHOOSE s \in Specs : TRUE

MCInit == Init /\ SettingsInit /\ UrlInit
MCElect == /\ Created /\ UrlInit
           /\ Next /\ UNCHANGED <<settingsVars, url>>
MCSettings == /\ FirstLeader /\ UrlInit
              /\ SettingsNext /\ UNCHANGED <<vars, url>>
MCWritePiece == /\ FirstLeader /\ Created
                /\ WritePiece /\ UNCHANGED <<vars, settingsVars>>
MCNext == MCElect \/ MCSettings \/ MCWritePiece
MCSpec == MCInit /\ [][MCNext]_<<vars, settingsVars, url>> /\ Fairness
=============================================================================
