--------------------------- MODULE MCAgentBroker ---------------------------
(***************************************************************************)
(* A broker with a few runs, plans and inputs; a risky selection in one    *)
(* domain, and one in another that is not risky.                           *)
(***************************************************************************)
EXTENDS AgentBroker

CONSTANTS risky, far, north, south, none

AllModes == {"full", "assisted", "request"}
RequestOnly == {"request"}
OneSelection == {risky}
RiskySelections == {risky}
FarToo == {risky, far}
BothDomains == {north, south}
DomainOfOne == [s \in OneSelection |-> north]
DomainOfFar == [s \in FarToo |-> IF s = far THEN south ELSE north]
=============================================================================
