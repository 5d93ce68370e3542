------------------------------- MODULE UipArp -------------------------------
(***************************************************************************)
(* The address table of the web failsafe (net/uip-0.9/uip_arp.c) and       *)
(* NetReceiveHttpd (net/net.c), which puts it around uip_input: a frame is *)
(* learnt from, answered, and the answer is addressed, all in one call.    *)
(* uip_arp_timer never runs and the default router is never set, so every  *)
(* age is 0 and the router's address is the one of an unused entry.        *)
(***************************************************************************)
EXTENDS Integers, FiniteSets

CONSTANTS
    LocalHosts,         \* addresses on the board's network
    RemoteHosts,        \* addresses behind the router
    EthAddrs,           \* ethernet addresses of the PCs
    ArpSlots,           \* UIP_ARPTAB_SIZE
    NoIp                \* 0.0.0.0: an unused entry, and uip_arp_draddr

ASSUME UipArpAssumption ==
    ArpSlots \in Nat \ {0} /\ EthAddrs # {} /\ NoIp \notin LocalHosts \cup RemoteHosts

VARIABLES
    arpTable,           \* arp_table
    pcOf,               \* the PC that has each local address now
    arpSent             \* the last frame received and what was sent for it

arpVars == <<arpTable, pcOf, arpSent>>

NullEther == "00:00:00:00:00:00"
Entries == 1 .. ArpSlots
FirstOf(S) == CHOOSE s \in S : \A t \in S : s <= t
Using(tab, ip) == {s \in Entries : tab[s].ip = ip}

(* Mutant: the walk for a known address stops at the last entry but one.   *)
uip_arp_update_short(tab, ip, ether) ==
    LET known == Using(tab, ip) \ {ArpSlots}
        s == IF known # {} THEN FirstOf(known)
             ELSE IF Using(tab, NoIp) # {} THEN FirstOf(Using(tab, NoIp)) ELSE 1
    IN  [tab EXCEPT ![s] = [ip |-> ip, ether |-> ether]]

(* With no unused entry the last one looked at is filled: the oldest one   *)
(* is computed into i, and tabptr stays where the walk left it.            *)
uip_arp_update(tab, ip, ether) ==
    LET s == IF Using(tab, ip) # {} THEN FirstOf(Using(tab, ip))
             ELSE IF Using(tab, NoIp) # {} THEN FirstOf(Using(tab, NoIp))
             ELSE ArpSlots
    IN  [tab EXCEPT ![s] = [ip |-> ip, ether |-> ether]]

(* Addresses of the local network only.                                    *)
uip_arp_ipin(tab, ip, ether) ==
    IF ip \in LocalHosts THEN uip_arp_update(tab, ip, ether) ELSE tab

(* The address asked for on the wire, and the frame that leaves: the IP    *)
(* packet, or a request in its place.                                      *)
NextHop(ip) == IF ip \in LocalHosts THEN ip ELSE NoIp

uip_arp_out(tab, ip) ==
    LET s == Using(tab, NextHop(ip))
    IN  IF s = {} THEN [kind |-> "request", to |-> "all"]
        ELSE [kind |-> "ip", to |-> tab[FirstOf(s)].ether]

-----------------------------------------------------------------------------
(* An IP packet, which uip_input answers or not.                           *)
NetReceiveIp(ip, ether) ==
    /\ ip \in LocalHosts => ether = pcOf[ip]
    /\ arpTable' = uip_arp_ipin(arpTable, ip, ether)
    /\ arpSent' \in {[ip |-> ip, from |-> ether, sent |-> uip_arp_out(arpTable', ip)],
                     [ip |-> ip, from |-> ether, sent |-> [kind |-> "nothing", to |-> "all"]]}
    /\ UNCHANGED pcOf

(* A request for the board's address is answered to its sender and nothing *)
(* is learnt; one for another address is dropped.                          *)
NetReceiveArpRequest(ip, forUs) ==
    /\ arpSent' = [ip |-> ip, from |-> pcOf[ip],
                   sent |-> IF forUs THEN [kind |-> "reply", to |-> pcOf[ip]]
                            ELSE [kind |-> "nothing", to |-> "all"]]
    /\ UNCHANGED <<arpTable, pcOf>>

NetReceiveArpReply(ip) ==
    /\ arpTable' = uip_arp_update(arpTable, ip, pcOf[ip])
    /\ arpSent' = [ip |-> ip, from |-> pcOf[ip], sent |-> [kind |-> "nothing", to |-> "all"]]
    /\ UNCHANGED pcOf

(* Another PC takes a local address.                                       *)
NewPc(ip, ether) ==
    /\ pcOf' = [pcOf EXCEPT ![ip] = ether]
    /\ pcOf' # pcOf
    /\ UNCHANGED <<arpTable, arpSent>>

ArpInit ==
    /\ arpTable = [s \in Entries |-> [ip |-> NoIp, ether |-> NullEther]]
    /\ pcOf = [ip \in LocalHosts |-> CHOOSE e \in EthAddrs : TRUE]
    /\ arpSent = [ip |-> NoIp, from |-> NullEther, sent |-> [kind |-> "nothing", to |-> "all"]]

ArpNext ==
    \/ \E ip \in LocalHosts \cup RemoteHosts, e \in EthAddrs : NetReceiveIp(ip, e)
    \/ \E ip \in LocalHosts :
          (\E b \in BOOLEAN : NetReceiveArpRequest(ip, b)) \/ NetReceiveArpReply(ip)
    \/ \E ip \in LocalHosts, e \in EthAddrs : NewPc(ip, e)

ArpSpec == ArpInit /\ [][ArpNext]_arpVars

-----------------------------------------------------------------------------
ArpTypeOK ==
    /\ arpTable \in [Entries -> [ip : LocalHosts \cup {NoIp}, ether : EthAddrs \cup {NullEther}]]
    /\ pcOf \in [LocalHosts -> EthAddrs]

(* Entries are found by the first match: an address with two of them would *)
(* be answered through the older one (uip_arp.c:162).                      *)
OneEntryPerAddress ==
    \A s, t \in Entries : arpTable[s].ip = arpTable[t].ip /\ arpTable[s].ip # NoIp => s = t

(* The answer to a host of the local network goes to the PC that asked,    *)
(* and is never given up for an address request: with the table full, with *)
(* more hosts than entries, and after another PC took the address.  The    *)
(* failsafe server relies on it, as it never sends anything again.         *)
AnswerReachesAsker ==
    /\ ArpTypeOK /\ OneEntryPerAddress
    /\ arpSent.ip \in LocalHosts /\ arpSent.sent.kind \in {"ip", "request", "reply"}
           => arpSent.sent.kind # "request" /\ arpSent.sent.to = arpSent.from
=============================================================================
