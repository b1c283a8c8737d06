------------------------------- MODULE NetPolicy -------------------------------
(***************************************************************************)
(* The net_policy extension: its static rules, ports and DNS (NetSockets), *)
(* and the control channel (NetControl).  They are fields of one           *)
(* NetPolicyConfig, of which neither changes the other's.                  *)
(***************************************************************************)
EXTENDS NetControl, NetSockets

vars == <<controlVars, socketVars>>

\* No habits: there is no --control-fd, and nobody is asked.
Controlled == habits # {}

Init ==
    /\ ControlInit /\ SocketsInit
    /\ Controlled => guest = {} /\ options.left = <<>>

Next ==
    \/ Controlled /\ ControlNext /\ UNCHANGED socketVars
    \/ SocketsNext /\ UNCHANGED controlVars

Spec == Init /\ [][Next]_vars /\ ControlFairness

================================================================================
