------------------------------ MODULE VirtualPorts ------------------------------
(***************************************************************************)
(* The ports of the guests: virtual_net with --proxy (VirtualNet), the      *)
(* ports it publishes with -p (VnpHelper), and the port_switch extension,   *)
(* which -p uses without --proxy (PortSwitch).  The three share the options *)
(* of the command line and no state: a behaviour is one of them.            *)
(***************************************************************************)
EXTENDS VirtualNet, VnpHelper, PortSwitch

VARIABLE part

vars == <<part, vnetVars, pubVars, portVars>>

Some(S) == CHOOSE x \in S : TRUE

Init ==
    /\ part \in {"virtual_net", "publication", "port_switch"}
    /\ VnetInit /\ PubInit /\ PortInit
    /\ part # "virtual_net" => net_guest = Some(NetGuests)
    /\ part # "publication" => pub_left = Some(PubOptions)
    /\ part # "port_switch" => port_guest = Some(PortGuests) /\ poptions = Some(PortOptions)

VnetMoves == part = "virtual_net" /\ VnetNext /\ UNCHANGED <<part, pubVars, portVars>>
PortMoves == part = "port_switch" /\ PortNext /\ UNCHANGED <<part, vnetVars, pubVars>>

\* A step of the publication.
Publishing(step) == part = "publication" /\ step /\ UNCHANGED <<part, vnetVars, portVars>>
PubMoves == Publishing(PubNext)

Next == VnetMoves \/ PubMoves \/ PortMoves

\* That of PubSpec: PRoot, the helper, its bridges and the server that accepts.
Fairness ==
    /\ WF_vars(Publishing(ProotSteps)) /\ WF_vars(Publishing(HelperSteps))
    /\ \A c \in Clients : WF_vars(Publishing(bridge_fds(c))) /\ WF_vars(Publishing(ServerAccepts(c)))

Spec == Init /\ [][Next]_vars /\ Fairness

================================================================================
