-------------------------------- MODULE Dhcp --------------------------------
(***************************************************************************)
(* The DHCP client of net/bootp.c on NetLoop, as configured with           *)
(* CFG_CMD_DHCP, and what common/cmd_net.c keeps of its result.  Servers   *)
(* conform: they acknowledge an address only for the client they lease it  *)
(* to, and stay silent when the client asks another server.  The network   *)
(* loses, delays, reorders and repeats: a message stays once sent.         *)
(***************************************************************************)
EXTENDS Integers, FiniteSets

CONSTANTS
    Servers,            \* DHCP servers that hear the broadcast
    PoolOf,             \* the addresses each server may lease
    NoAddr,             \* 0.0.0.0
    TimeoutCount,       \* TIMEOUT_COUNT
    NetRetry,           \* "no", "once" or "yes"
    NetDevices,         \* ethernet devices NetStartAgain goes through
    MaxIds              \* bound on BootpRequest: one identifier each

ASSUME DhcpAssumption ==
    /\ {TimeoutCount, NetDevices, MaxIds} \subseteq Nat \ {0}
    /\ NetRetry \in {"no", "once", "yes"}

VARIABLES
    client,             \* the variables of bootp.c and NetLoop
    messages,           \* every packet sent so far
    leases,             \* per server: addresses leased to this client
    elsewhere           \* addresses the servers gave to other clients

dhcpVars == <<client, messages, leases, elsewhere>>

Addresses == UNION {PoolOf[s] : s \in Servers}
NoServer == "no server"
Msg(type, id, s, addr) == [type |-> type, id |-> id, server |-> s, addr |-> addr]

-----------------------------------------------------------------------------
(* BootpRequest: broadcast with a new identifier, as time went on.         *)
BootpRequest(c) == [c EXCEPT !.state = "SELECTING", !.id = @ + 1, !.try = @ + 1, !.timer = "bootp"]
Discover(c) == Msg("DISCOVER", c.id, NoServer, NoAddr)

(* NetLoop from restart: the addresses are cleared, and so is BootpTry.    *)
StartDhcp(c) == BootpRequest([c EXCEPT !.try = 0, !.ourIP = NoAddr, !.netState = "continue"])

(* NetStartAgain over the devices: on to the next one, or to the end.      *)
DhcpStartAgain(c) ==
    CASE NetRetry = "no" -> [c EXCEPT !.netState = "fail", !.timer = "none"]
      [] NetRetry # "no" /\ c.devicesLeft > 1 ->
            [c EXCEPT !.netState = "restart", !.devicesLeft = @ - 1, !.timer = "none"]
      [] NetRetry = "once" /\ c.devicesLeft = 1 -> [c EXCEPT !.netState = "fail", !.timer = "none"]
      [] OTHER -> [c EXCEPT !.timer = "again", !.devicesLeft = NetDevices]

DhcpRunning == client.netState = "continue"

(* BootpTimeout; the handler was taken out of timeHandler before the call. *)
DhcpTimeout ==
    /\ DhcpRunning /\ client.timer = "bootp"
    /\ IF client.try >= TimeoutCount
       THEN client' = DhcpStartAgain([client EXCEPT !.timer = "none"]) /\ UNCHANGED messages
       ELSE /\ client.id < MaxIds
            /\ client' = BootpRequest(client)
            /\ messages' = messages \cup {Discover(client')}
    /\ UNCHANGED <<leases, elsewhere>>

AgainTimeout ==
    /\ DhcpRunning /\ client.timer = "again"
    /\ client' = [client EXCEPT !.netState = "restart", !.timer = "none"]
    /\ UNCHANGED <<messages, leases, elsewhere>>

(* A command is given only while there are identifiers left for all of it. *)
Restart ==
    /\ \/ client.netState = "restart" /\ client.id < MaxIds
       \/ client.netState = "idle" /\ client.id + NetDevices * TimeoutCount <= MaxIds
    /\ client' = StartDhcp(client)
    /\ messages' = messages \cup {Discover(client')}
    /\ UNCHANGED <<leases, elsewhere>>

-----------------------------------------------------------------------------
(* Mutant: a reply to any request of this client is leased.                *)
BootpCheckPktAnyId(m) == m.type \in {"OFFER", "ACK", "NAK"}

(* BootpCheckPkt: server messages with the identifier of the last request. *)
BootpCheckPkt(m) == m.type \in {"OFFER", "ACK", "NAK"} /\ m.id = client.id

(* DhcpOptionsProcess and BootpCopyNetParams.                              *)
TakeParams(c, m) == [c EXCEPT !.ourIP = m.addr, !.dhcpServer = m.server]

(* SELECTING takes the first reply, whatever its type, and asks for what   *)
(* it says; the request goes out under the identifier of the reply.        *)
DhcpSelecting(m) ==
    /\ client.state = "SELECTING"
    /\ client' = [TakeParams(client, m) EXCEPT !.state = "REQUESTING", !.timer = "bootp"]
    /\ messages' = messages \cup {Msg("REQUEST", m.id, client'.dhcpServer, client'.ourIP)}
    /\ UNCHANGED <<leases, elsewhere>>

(* DhcpMessageType = DHCP_ACK; refusals and late offers are dropped.       *)
IsAck(m) == m.type = "ACK"

(* Bound; autoload says whether the loop ends here or TftpStart goes on,   *)
(* whose result is the loop's (Tftp.tla).                                  *)
DhcpBound(m) ==
    /\ client.state = "REQUESTING" /\ IsAck(m)
    /\ \/ client' = [TakeParams(client, m) EXCEPT !.state = "BOUND", !.netState = "success"]
       \/ client' = [TakeParams(client, m) EXCEPT !.state = "BOUND", !.timer = "tftp"]
    /\ UNCHANGED <<messages, leases, elsewhere>>

DhcpHandler(m) == DhcpRunning /\ client.timer = "bootp" /\ BootpCheckPkt(m) /\ (DhcpSelecting(m) \/ DhcpBound(m))

TftpEnds ==
    /\ DhcpRunning /\ client.timer = "tftp"
    /\ \/ client' = [client EXCEPT !.netState = "success", !.timer = "none"]
       \/ client' = DhcpStartAgain([client EXCEPT !.timer = "none"])
    /\ UNCHANGED <<messages, leases, elsewhere>>

(* netboot_common: only a loop that succeeded.                             *)
netboot_update_env == client.netState = "success"

Return ==
    /\ client.netState \in {"success", "fail"}
    /\ client' = [client EXCEPT !.netState = "idle", !.timer = "none", !.devicesLeft = NetDevices,
                                !.ipaddr = IF netboot_update_env THEN client.ourIP ELSE @]
    /\ UNCHANGED <<messages, leases, elsewhere>>

-----------------------------------------------------------------------------
(* The servers and the other clients.                                      *)

Offer(s, m, a) ==
    /\ m.type = "DISCOVER" /\ a \in PoolOf[s] \ elsewhere
    /\ messages' = messages \cup {Msg("OFFER", m.id, s, a)}
    /\ UNCHANGED <<client, leases, elsewhere>>

Acknowledge(m) ==
    /\ m.type = "REQUEST" /\ m.server \in Servers
    /\ IF m.addr \in elsewhere
       THEN /\ messages' = messages \cup {Msg("NAK", m.id, m.server, NoAddr)}
            /\ UNCHANGED leases
       ELSE /\ messages' = messages \cup {Msg("ACK", m.id, m.server, m.addr)}
            /\ leases' = [leases EXCEPT ![m.server] = @ \cup {m.addr}]
    /\ UNCHANGED <<client, elsewhere>>

(* Another client gets an address this one was only offered.               *)
OtherClient(a) ==
    /\ a \notin elsewhere /\ \A s \in Servers : a \notin leases[s]
    /\ elsewhere' = elsewhere \cup {a}
    /\ UNCHANGED <<client, messages, leases>>

DhcpInit ==
    /\ client = [state |-> "INIT", id |-> 0, try |-> 0, ourIP |-> NoAddr, dhcpServer |-> NoServer,
                 netState |-> "idle", timer |-> "none", devicesLeft |-> NetDevices, ipaddr |-> NoAddr]
    /\ messages = {} /\ leases = [s \in Servers |-> {}] /\ elsewhere = {}

DhcpNext ==
    \/ DhcpTimeout \/ AgainTimeout \/ Restart \/ TftpEnds \/ Return
    \/ \E m \in messages : DhcpHandler(m) \/ Acknowledge(m)
    \/ \E m \in messages, s \in Servers, a \in Addresses : Offer(s, m, a)
    \/ \E a \in Addresses : OtherClient(a)

(* Time goes on and the loop is left; nothing is asked of the network.     *)
DhcpProgress == DhcpTimeout \/ AgainTimeout \/ (client.netState = "restart" /\ Restart) \/ TftpEnds \/ Return
DhcpFairness == WF_dhcpVars(DhcpProgress)

DhcpSpec == DhcpInit /\ [][DhcpNext]_dhcpVars
DhcpFairSpec == DhcpSpec /\ DhcpFairness

-----------------------------------------------------------------------------
DhcpTypeOK ==
    /\ client.state \in {"INIT", "SELECTING", "REQUESTING", "BOUND"}
    /\ client.id \in 0 .. MaxIds /\ client.try \in 0 .. TimeoutCount + 1
    /\ {client.ourIP, client.ipaddr} \subseteq Addresses \cup {NoAddr}
    /\ client.timer \in {"none", "bootp", "again", "tftp"}
    /\ client.devicesLeft \in 1 .. NetDevices

(* The address in use is one its server leased to this board and to no one *)
(* else: an offer is not enough, whatever was delayed, repeated or         *)
(* answered by the other server.                                           *)
BoundIsLeased ==
    client.state = "BOUND" =>
        /\ client.ourIP \in leases[client.dhcpServer]
        /\ client.ourIP \notin elsewhere

(* The environment keeps an address only when it was leased: attempts that *)
(* failed after an offer leave "ipaddr" as it was.                         *)
SavedIsLeased == client.ipaddr # NoAddr => \E s \in Servers : client.ipaddr \in leases[s]

(* The board takes the answer to its last request: what it has is what it  *)
(* asked for under the present identifier.                                 *)
BoundAsRequested ==
    client.state = "BOUND" =>
        Msg("REQUEST", client.id, client.dhcpServer, client.ourIP) \in messages

(* The address of the board is leased, kept and answered for.              *)
LeaseIsExact == DhcpTypeOK /\ BoundIsLeased /\ SavedIsLeased /\ BoundAsRequested

(* Without servers that answer, the loop still ends on every device.       *)
DhcpEnds == (client.netState = "continue") ~> (client.netState \in {"success", "fail"})
=============================================================================
