--------------------------- MODULE ControllerUrl ---------------------------
(***************************************************************************)
(* validateControllerUrl: from the address in a Clusteragent or InfraViz   *)
(* to the host, the port and the ssl flag the agents are given.            *)
(*                                                                         *)
(* An address is the sequence of the pieces between its colons.  Of a      *)
(* piece the code asks: does it contain "http", does it contain "s", which *)
(* number is it, and what is left of it without leading slashes.           *)
(***************************************************************************)
EXTENDS Integers, Sequences

CONSTANTS Refused,    \* the function returns an error
          NoNumber,   \* strconv.Atoi returns an error
          Pieces,     \* what users write between the colons
          MaxPieces   \* bound: the pieces of an address

VARIABLE url          \* controllerUrl of a resource

PortRange == 65536    \* of a uint16

Piece(http, s, number, rest) ==
  [http |-> http, s |-> s, number |-> number, rest |-> rest]
Http  == Piece(TRUE, FALSE, NoNumber, "http")
Https == Piece(TRUE, TRUE, NoNumber, "https")

ASSUME PiecesAssumption ==
  /\ \A p \in Pieces : /\ p.http \in BOOLEAN /\ p.s \in BOOLEAN
                       /\ p.number \in Int \cup {NoNumber}
  /\ NoNumber \notin Int

-----------------------------------------------------------------------------
(* A user writes an address. *)
UrlInit == url = << >>
WritePiece == /\ Len(url) < MaxPieces
              /\ \E p \in Pieces : url' = Append(url, p)
UrlSpec == UrlInit /\ [][WritePiece]_url

-----------------------------------------------------------------------------
(* The function.                                                           *)

Contains(arr, what) == \E i \in DOMAIN arr : arr[i][what]

\* Faulty variant: the s is looked for in the whole address.
SecureAnywhere(arr) == Contains(arr, "s")

(* The protocol is what precedes the first colon. *)
Secure(arr) == arr[1].s

(* The port that is written, or the one of the protocol. *)
WrittenPort(arr) ==
  IF Len(arr) = 3 THEN arr[3].number ELSE IF Secure(arr) THEN 443 ELSE 80

Accepted(arr) ==
  /\ Contains(arr, "http")
  /\ Len(arr) \in 2..3
  /\ Len(arr) = 3 => arr[3].number # NoNumber

(* The conversion uint16(port). *)
Convert(n) == n % PortRange

validateControllerUrl(arr) ==
  IF Accepted(arr)
  THEN [dns |-> arr[2].rest, port |-> Convert(WrittenPort(arr)),
        ssl |-> Secure(arr)]
  ELSE Refused

-----------------------------------------------------------------------------
(* protocol://dns:port, as the error message of the function puts it; the  *)
(* port may be left out.                                                   *)
WellFormed ==
  /\ Len(url) \in 2..3
  /\ url[1] \in {Http, Https}
  /\ Len(url) = 3 => url[3].number \in 1..PortRange - 1

Meaning ==
  LET https == url[1] = Https IN
  [dns |-> url[2].rest, ssl |-> https,
   port |-> IF Len(url) = 3 THEN url[3].number ELSE IF https THEN 443 ELSE 80]

(* An address in the documented format means to the agents what it says,   *)
(* with every port a uint16 can hold.                                      *)
UrlsAgree == WellFormed => validateControllerUrl(url) = Meaning
=============================================================================
