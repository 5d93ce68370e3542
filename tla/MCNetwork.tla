----------------------------- MODULE MCNetwork -----------------------------
(***************************************************************************)
(* NetLoop runs one protocol at a time: the exchanges of the commands and, *)
(* below all of them, the driver and its rings, one of which is chosen at  *)
(* the start and goes on for ever.                                         *)
(***************************************************************************)
EXTENDS EthRing, UipArp, Dhcp, Bootp, NfsClient, Probes, TLC

CONSTANTS s1, s2

VARIABLE command

ServersPool == (s1 :> {"a"}) @@ (s2 :> {"b"})

(* Relative links whose names are as long as the link's own, and shorter:  *)
(* of the latter one then names another file and one itself.               *)
Directory(l, m, lk, mk) == (<<"l">> :> l) @@ (<<"m">> :> m) @@ (<<"l", "k">> :> lk) @@ (<<"m", "k">> :> mk)
FileNames == {<<"l">>, <<"m">>, <<"l", "k">>, <<"m", "k">>}
Nothing(kind) == [kind |-> kind]
File(blocks) == [kind |-> "file", blocks |-> blocks]
Link(relative, file) == [kind |-> "link", relative |-> relative, dir |-> "e", file |-> file]
ServerContent ==
    ("d" :> Directory(Link(TRUE, <<"m">>), Link(FALSE, <<"m">>), Link(TRUE, <<"m">>), File(2))) @@
    ("e" :> Directory(Nothing("dir"), File(1), Nothing("none"), Link(TRUE, <<"m">>)))
AskedFiles == [dir : {"d"}, file : {<<"l">>, <<"l", "k">>}] \cup {[dir |-> "e", file |-> <<"m", "k">>]}

Tlv(type, size, vlan) == [type |-> type, size |-> size, vlan |-> vlan]
SwitchPackets ==
    {<<Tlv("native", "whole", "v1"), Tlv("appliance", "whole", "v2")>>, <<Tlv("appliance", "whole", "v3")>>,
     <<Tlv("native", "whole", "v3"), Tlv("other", "over", "none")>>, <<Tlv("other", "whole", "none")>>,
     <<Tlv("native", "whole", "v1"), Tlv("native", "under", "none")>>, <<Tlv("other", "zero", "none")>>}

MCReplyOptions ==
    {<<0>>, <<1, 1, 255>>, <<1, 1, 3>>, <<12, 3, 1, 53, 6>>, <<13, 2, 1, 1>>, <<53, 1, 5>>, <<54, 1, 9>>, <<99, 2, 1, 1>>}
MCStrays == {<<>>, <<[code |-> 3, data |-> <<9>>], [code |-> 54, data |-> <<2>>]>>}
MCReplyHeads ==
    {[yiaddr |-> 7, siaddr |-> 0, file |-> <<>>], [yiaddr |-> 8, siaddr |-> 9, file |-> <<1>>]}

networkVars == <<command, ethVars, arpVars, dhcpVars, optionVars, nfsVars, probeVars>>

NetworkInit ==
    /\ command \in {"driver", "httpd", "dhcp", "bootp", "nfs", "probe"}
    /\ EthInit /\ ArpInit /\ DhcpInit /\ BootpInit /\ NfsInit /\ ProbesInit

Driver == command = "driver" /\ UNCHANGED <<command, arpVars, dhcpVars, optionVars, nfsVars, probeVars>>
Httpd == command = "httpd" /\ UNCHANGED <<command, ethVars, dhcpVars, optionVars, nfsVars, probeVars>>
DhcpCommand == command = "dhcp" /\ UNCHANGED <<command, ethVars, arpVars, optionVars, nfsVars, probeVars>>
BootpCommand == command = "bootp" /\ UNCHANGED <<command, ethVars, arpVars, dhcpVars, nfsVars, probeVars>>
NfsCommand == command = "nfs" /\ UNCHANGED <<command, ethVars, arpVars, dhcpVars, optionVars, probeVars>>
ProbeCommand == command = "probe" /\ UNCHANGED <<command, ethVars, arpVars, dhcpVars, optionVars, nfsVars>>

NetworkNext ==
    \/ Driver /\ EthNext
    \/ Httpd /\ ArpNext
    \/ DhcpCommand /\ DhcpNext
    \/ BootpCommand /\ BootpNext
    \/ NfsCommand /\ NfsNext
    \/ ProbeCommand /\ ProbesNext

(* The fairness of whichever runs.                                         *)
NetworkProgress ==
    \/ Driver /\ EthProgress
    \/ DhcpCommand /\ DhcpProgress
    \/ NfsCommand /\ NfsProgress
    \/ ProbeCommand /\ ProbesProgress

NetworkSpec == NetworkInit /\ [][NetworkNext]_networkVars /\ WF_networkVars(NetworkProgress)

(* What the commands of the network report is so: the lease and its        *)
(* options, the file, the VLANs and the host that does not answer          *)
(* (bootp.c, nfs.c, net.c), each with the exceptions its part names.       *)
CommandsAreExact == LeaseIsExact /\ OptionsAreRead /\ LoadIsExact /\ ProbeIsExact

(* Every command ends, and the driver below them receives again.           *)
CommandsEnd == ReceptionResumes /\ DhcpEnds /\ LoadEnds /\ ProbeEnds
=============================================================================
