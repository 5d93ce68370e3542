------------------------------- MODULE Probes -------------------------------
(***************************************************************************)
(* The short exchanges of net/net.c and net/sntp.c on NetLoop: PING (with  *)
(* CFG_CMD_PING), CDP (CFG_CMD_CDP) and SNTP (CFG_CMD_SNTP).  Each has a   *)
(* timer of its own, next to the one of the address request that carries   *)
(* the first packet.  Time is counted in ticks of TickLength milliseconds. *)
(* CDP is that of a processor that loads a half word from any address:     *)
(* this board's does not, and CFG_CMD_CDP is not set for it.               *)
(***************************************************************************)
EXTENDS Integers, Sequences, FiniteSets

CONSTANTS
    Protocols,          \* commands given: some of "PING", "CDP", "SNTP"
    ArpTicks,           \* ARP_TIMEOUT
    ArpTries,           \* ARP_TIMEOUT_COUNT
    PingTicks,          \* 10 seconds
    SntpTicks,          \* SNTP_TIMEOUT
    CdpTicks,           \* CDP_TIMEOUT
    Announcements,      \* CDP packets of the switch: sequences of TLVs
    Vlans, NoVlan,      \* what the bytes of a VLAN can be, and htons(-1)
    RetryAgain,         \* NetStartAgain restarts (netretry "yes")
    MaxProbes           \* bound on the commands

ASSUME ProbesAssumption ==
    /\ {ArpTicks, ArpTries, PingTicks, SntpTicks, CdpTicks, MaxProbes} \subseteq Nat \ {0}
    /\ Protocols \subseteq {"PING", "CDP", "SNTP"}
    /\ \A tlvs \in Announcements : tlvs \in Seq({tlvs[i] : i \in DOMAIN tlvs})

(* 10 seconds pass before an address request is given up, after 20.        *)
ASSUME TimersAssumption == \A t \in {PingTicks, SntpTicks} : t + 1 < (ArpTries - 1) * (ArpTicks + 1)

VARIABLES
    probe,              \* NetLoop: protocol, NetState, timers, CDPSeq, CDPOK, ...
    vlans,              \* CDPApplianceVLAN and CDPNativeVLAN
    announced,          \* what the last complete CDP packet said
    vlanEnv,            \* "vlan" and "nvlan"
    outOfStep,          \* a packet was read to its end out of step with its TLVs
    probes              \* commands so far

probeVars == <<probe, vlans, announced, vlanEnv, outOfStep, probes>>

Probing == probe.net = "continue"
NoVlans == [appliance |-> NoVlan, native |-> NoVlan]

(* NetSetTimeout; a tick finds the timer over once more than iv passed.    *)
SetTimeout(p, iv) == [p EXCEPT !.left = iv + 1]

StartAgain(p) == IF RetryAgain THEN [p EXCEPT !.net = "restart", !.left = 0, !.arpLeft = 0]
                 ELSE [p EXCEPT !.net = "fail", !.left = 0, !.arpLeft = 0]

(* PingStart and SntpStart send through an address request; CDPStart sends *)
(* at once, to a group address.                                            *)
AskAddress(p) == [p EXCEPT !.arpTry = 1, !.arpLeft = ArpTicks + 1]
PingStart(p) == SetTimeout(AskAddress(p), PingTicks)
SntpSend(p) == AskAddress(p)
SntpStart(p) == SntpSend(SetTimeout(p, SntpTicks))
CDPStart(p) == SetTimeout([p EXCEPT !.arpTry = 0, !.arpLeft = 0], CdpTicks)

StartProbe(protocol) ==
    LET p == [protocol |-> protocol, net |-> "continue", left |-> 0, seq |-> 0, ok |-> FALSE,
              arpTry |-> 0, arpLeft |-> 0]
    IN  CASE protocol = "PING" -> PingStart(p) [] protocol = "SNTP" -> SntpStart(p) [] OTHER -> CDPStart(p)

Start(protocol) ==
    /\ probe.net = "idle" /\ probes < MaxProbes
    /\ probe' = StartProbe(protocol) /\ probes' = probes + 1
    /\ vlans' = IF protocol = "CDP" THEN NoVlans ELSE vlans
    /\ announced' = IF protocol = "CDP" THEN NoVlans ELSE announced
    /\ UNCHANGED <<vlanEnv, outOfStep>>

RestartProbe ==
    /\ probe.net = "restart"
    /\ probe' = StartProbe(probe.protocol)
    /\ vlans' = IF probe.protocol = "CDP" THEN NoVlans ELSE vlans
    /\ announced' = IF probe.protocol = "CDP" THEN NoVlans ELSE announced
    /\ UNCHANGED <<vlanEnv, outOfStep, probes>>

(* cdp_update_env: a VLAN that was not announced stays as it is.           *)
cdp_update_env ==
    [appliance |-> IF vlans.appliance # NoVlan THEN vlans.appliance ELSE vlanEnv.appliance,
     native |-> IF vlans.native # NoVlan THEN vlans.native ELSE vlanEnv.native]

(* NetLoop returned to do_ping, do_sntp, which report only, or to do_cdp.  *)
Report ==
    /\ probe.net \in {"success", "fail"} /\ probe.protocol # "CDP"
    /\ probe' = [probe EXCEPT !.net = "idle"]
    /\ UNCHANGED <<vlans, announced, vlanEnv, outOfStep, probes>>

do_cdp ==
    /\ probe.net \in {"success", "fail"} /\ probe.protocol = "CDP"
    /\ vlanEnv' = IF probe.net = "fail" THEN vlanEnv ELSE cdp_update_env
    /\ probe' = [probe EXCEPT !.net = "idle"]
    /\ UNCHANGED <<vlans, announced, outOfStep, probes>>

-----------------------------------------------------------------------------
(* What arrives.                                                           *)

(* The address: the packet that waits is sent.                             *)
ArpAnswer ==
    /\ Probing /\ probe.arpLeft > 0
    /\ probe' = [probe EXCEPT !.arpLeft = 0]
    /\ UNCHANGED <<vlans, announced, vlanEnv, outOfStep, probes>>

(* What comes from the host.                                               *)
PingHandler ==
    /\ Probing /\ probe.protocol = "PING"
    /\ probe' = [probe EXCEPT !.net = "success"]
    /\ UNCHANGED <<vlans, announced, vlanEnv, outOfStep, probes>>

(* What comes to the port: an earlier request may be what is answered.     *)
SntpHandler ==
    /\ Probing /\ probe.protocol = "SNTP"
    /\ probe' = [probe EXCEPT !.net = "success"]
    /\ UNCHANGED <<vlans, announced, vlanEnv, outOfStep, probes>>

(* CDPHandler: the TLVs one after the other into local variables.  A       *)
(* packet that ends before one of them, or before a VLAN in its list, is   *)
(* too short and changes nothing.  NetReceive calls it for what comes to   *)
(* the CDP group, whatever command runs.                                   *)
Tlvs(tlvs) ==
    LET upto[i \in 0 .. Len(tlvs)] ==
            IF i = 0 THEN NoVlans
            ELSE CASE tlvs[i].type = "native" -> [upto[i - 1] EXCEPT !.native = tlvs[i].vlan]
                   [] tlvs[i].type = "appliance" -> [upto[i - 1] EXCEPT !.appliance = tlvs[i].vlan]
                   [] OTHER -> upto[i - 1]
    IN  upto[Len(tlvs)]

Complete(tlvs) == \A i \in DOMAIN tlvs : tlvs[i].size = "whole"

(* The size of the first TLV that is not whole.                            *)
FirstFault(tlvs) ==
    tlvs[CHOOSE i \in DOMAIN tlvs : tlvs[i].size # "whole" /\ \A j \in 1 .. i - 1 : tlvs[j].size = "whole"].size

(* A size of 0 leaves pkt where it is, and the loop reads that TLV for     *)
(* ever; one of 1 to 3 leaves pkt inside the header of the TLV and takes   *)
(* tlen below 0, so that what follows is read as what it is not (whatever  *)
(* the packet and the memory behind it hold).                              *)
Read(found) == [end |-> "read", vlans |-> found]
Stopped(end) == [end |-> end, vlans |-> NoVlans]
Walks(tlvs) ==
    IF Complete(tlvs) THEN {Read(Tlvs(tlvs))}
    ELSE CASE FirstFault(tlvs) = "zero" -> {Stopped("endless")}
           [] FirstFault(tlvs) = "under" ->
                {Stopped("short"), Stopped("endless")}
                \cup {Read(found) : found \in [appliance : Vlans, native : Vlans]}
           [] OTHER -> {Stopped("short")}

VlansFrom(walk) == IF walk.end = "read" THEN walk.vlans ELSE vlans

CdpPacket(tlvs) ==
    /\ Probing
    /\ \E walk \in Walks(tlvs) :
        /\ vlans' = VlansFrom(walk)
        /\ announced' = IF walk.end = "read" THEN walk.vlans ELSE announced
        /\ outOfStep' = (outOfStep \/ (walk.end = "read" /\ ~Complete(tlvs)))
        /\ probe' = [probe EXCEPT !.ok = @ \/ walk.end = "read", !.net = IF walk.end = "endless" THEN "hung" ELSE @]
    /\ UNCHANGED <<vlanEnv, probes>>

-----------------------------------------------------------------------------
(* The polling loop: ArpTimeoutCheck, then the timer.                      *)

ArpGivesUp(p) == p.arpTry >= ArpTries

ArpTimeoutCheck(p) ==
    CASE p.arpLeft # 1 -> [p EXCEPT !.arpLeft = IF @ > 0 THEN @ - 1 ELSE 0]
      [] ArpGivesUp([p EXCEPT !.arpTry = @ + 1]) /\ p.arpLeft = 1 -> StartAgain([p EXCEPT !.arpTry = @ + 1])
      [] OTHER -> [p EXCEPT !.arpTry = @ + 1, !.arpLeft = ArpTicks + 1]

CdpNextTrigger(p) == SetTimeout([p EXCEPT !.seq = @ + 1], CdpTicks)

CDPTimeout(p) ==
    IF p.seq + 1 < 3 THEN CdpNextTrigger(p)
    ELSE IF p.ok THEN [p EXCEPT !.seq = @ + 1, !.net = "success", !.left = 0]
    ELSE StartAgain([p EXCEPT !.seq = @ + 1])

(* We did not get the reply.                                               *)
PingTimeout(p) == [p EXCEPT !.net = "fail", !.left = 0]
SntpTimeout(p) == [p EXCEPT !.net = "fail", !.left = 0]

TimeHandler(p) ==
    CASE p.left # 1 -> [p EXCEPT !.left = IF @ > 0 THEN @ - 1 ELSE 0]
      [] p.left = 1 /\ p.protocol = "CDP" -> CDPTimeout(p)
      [] p.left = 1 /\ p.protocol = "PING" -> PingTimeout(p)
      [] OTHER -> SntpTimeout(p)

ProbeTick ==
    /\ Probing
    /\ probe' = TimeHandler(ArpTimeoutCheck(probe))
    /\ UNCHANGED <<vlans, announced, vlanEnv, outOfStep, probes>>

ProbesInit ==
    /\ probe = [protocol |-> "none", net |-> "idle", left |-> 0, seq |-> 0, ok |-> FALSE, arpTry |-> 0, arpLeft |-> 0]
    /\ vlans = NoVlans /\ announced = NoVlans /\ vlanEnv = NoVlans /\ outOfStep = FALSE /\ probes = 0

ProbesNext ==
    \/ \E protocol \in Protocols : Start(protocol)
    \/ RestartProbe \/ Report \/ do_cdp \/ ArpAnswer \/ PingHandler \/ SntpHandler \/ ProbeTick
    \/ \E tlvs \in Announcements : CdpPacket(tlvs)

ProbesProgress == ProbeTick \/ RestartProbe
ProbesFairness == WF_probeVars(ProbesProgress)
ProbesSpec == ProbesInit /\ [][ProbesNext]_probeVars
ProbesFairSpec == ProbesSpec /\ ProbesFairness

-----------------------------------------------------------------------------
ProbesTypeOK ==
    /\ probe.net \in {"idle", "continue", "restart", "hung", "success", "fail"}
    /\ probe.seq \in 0 .. 3 /\ probe.arpTry \in 0 .. ArpTries
    /\ probes \in 0 .. MaxProbes

(* The two VLANs come from one CDP packet that was read to its end, never  *)
(* from two packets or a part of one (net.c:1131).                         *)
VlansTogether == vlans = announced

(* PING and SNTP report a host that does not answer: their timer is over   *)
(* before the address request gives up, which would start them again for   *)
(* ever.                                                                   *)
ProbeNeverRestarts == probe.protocol \in {"PING", "SNTP"} => probe.net # "restart"

(* VLANs of that type in packets that are complete.                        *)
Announced(type) ==
    UNION {{t[i].vlan : i \in {j \in DOMAIN t : t[j].type = type}} : t \in {u \in Announcements : Complete(u)}}

(* What "vlan" and "nvlan" were set to was announced as such, in a packet  *)
(* that was complete (cmd_net.c:216), unless a TLV shorter than its header *)
(* had one read out of step (net.c:1080-1089).                             *)
SettingsWereAnnounced ==
    vlanEnv # NoVlans /\ ~outOfStep =>
        /\ vlanEnv.appliance \in Announced("appliance") \cup {NoVlan}
        /\ vlanEnv.native \in Announced("native") \cup {NoVlan}

(* What a probe reports.                                                   *)
ProbeIsExact == ProbesTypeOK /\ VlansTogether /\ SettingsWereAnnounced /\ ProbeNeverRestarts

(* Without any answer the command ends, with two exceptions: a CDP packet  *)
(* with a TLV shorter than its header may hold the board for ever, and CDP *)
(* that hears of no switch starts again for ever if "netretry" says so.    *)
ProbeEnds ==
    \/ (probe.net \in {"continue", "restart"}) ~> (probe.net \notin {"continue", "restart"})
    \/ []<>(probe.net = "restart")
=============================================================================
