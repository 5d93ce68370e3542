------------------------------- MODULE Bootp -------------------------------
(***************************************************************************)
(* The BOOTP and RARP clients (net/bootp.c without CFG_CMD_DHCP,           *)
(* net/rarp.c) and the options that BOOTP and DHCP replies carry, byte by  *)
(* byte. Which replies are taken, retries of DHCP and its leases are in    *)
(* Dhcp; here every reply is one that BootpCheckPkt accepts. An address is *)
(* one byte, and 0 is "unset".                                             *)
(***************************************************************************)
EXTENDS Integers, SequencesExt

CONSTANTS
    Clients,            \* some of "bootp", "dhcp", "rarp"
    ReplyOptions,       \* options in replies: <<code, length, data ...>>, <<0>>
    ReplyHeads,         \* yiaddr, siaddr and file of replies
    Strays,             \* what DHCP may read as options out of step with them
    MaxReplyOptions,    \* bound on the options of all replies
    NameMax,            \* sizeof NetOurHostName, NetOurRootPath
    FileMax,            \* sizeof bp_file
    BootpTries          \* TIMEOUT_COUNT

OptEnd == 255

(* An option has a byte of data at least; no server announces address 0.   *)
WellFormed(o) == o \in Seq(Nat) /\ Len(o) > 2 /\ o[2] = Len(o) - 2 /\ o[1] \notin {0, OptEnd}
Announces(o) == o[1] \in {1, 3, 6, 54} => o[3] # 0

ASSUME BootpAssumption ==
    /\ {NameMax, FileMax, BootpTries} \subseteq Nat \ {0} /\ NameMax > 1
    /\ Clients \subseteq {"bootp", "dhcp", "rarp"}
    /\ \A o \in ReplyOptions : o = <<0>> \/ (WellFormed(o) /\ Announces(o))
    /\ \A head \in ReplyHeads : head.yiaddr \in Nat \ {0}
    /\ Strays \subseteq Seq([code : Nat, data : Seq(Nat) \ {<<>>}])

VARIABLES
    bootp,              \* the client: its state, tries and NetState
    params,             \* what it knows
    area,               \* the vendor area of the next reply
    taken,              \* the options of the replies that were taken
    asked,              \* the options of the last request
    misread             \* a reply was taken that was read out of step

optionVars == <<bootp, params, area, taken, asked, misread>>

Unset == [ip |-> 0, server |-> 0, mask |-> 0, gateway |-> 0, dns |-> 0, host |-> <<>>, root |-> <<>>,
          blocks |-> 0, dhcpServer |-> 0, file |-> <<>>]

Bytes_(options) == FlattenSeq(options) \o <<OptEnd>>

-----------------------------------------------------------------------------
(* Reading: where BootpVendorProcess finds options. Zeroes are skipped one *)
(* by one, and the end of the area given is behind the packet, whose whole *)
(* length is passed.                                                       *)

NextOption(b, p) == p + b[p + 1] + 2

OptionAt(b, p) == [code |-> b[p], data |-> SubSeq(b, p + 2, p + 1 + b[p + 1])]

Pad == [code |-> 0, data |-> <<>>]

(* One look at what stands at w.at.                                        *)
LookAt(b, w, pads) ==
    CASE w.at > Len(b) \/ b[w.at] = OptEnd -> w
      [] w.at <= Len(b) /\ pads /\ b[w.at] = 0 -> [at |-> w.at + 1, found |-> Append(w.found, Pad)]
      [] OTHER -> [at |-> NextOption(b, w.at), found |-> Append(w.found, OptionAt(b, w.at))]

OptionsIn(b, pads) ==
    LET look[k \in 0 .. Len(b)] == IF k = 0 THEN [at |-> 1, found |-> <<>>] ELSE LookAt(b, look[k - 1], pads)
    IN  look[Len(b)].found

VendorOptions(b) == OptionsIn(b, TRUE)

(* DhcpOptionsProcess and DhcpMessageType do not know the zero as an       *)
(* option without a length: the byte behind it is taken for one, so that   *)
(* they are out of step from there on, as far as the memory behind.        *)
DhcpOptions(b) == OptionsIn(b, FALSE)

Padded(options) == \E i \in DOMAIN options : options[i] = <<0>>
UpToPad(options) ==
    IF ~Padded(options) THEN options
    ELSE SubSeq(options, 1, Min({i \in DOMAIN options : options[i] = <<0>>}) - 1)

(* Where the options of a code are.                                        *)
OfCode(options, code) == {i \in DOMAIN options : options[i].code = code}

DhcpMessageType(b) ==
    LET types == OfCode(DhcpOptions(b), 53) IN IF types = {} THEN -1 ELSE DhcpOptions(b)[Min(types)].data[1]

(* Mutant: a name as long as its buffer is not cut.                        *)
truncate_szLate(max, len) == IF len > max THEN max - 1 ELSE len

truncate_sz(max, len) == IF len >= max THEN max - 1 ELSE len
Text(data, max) == SubSeq(data, 1, truncate_sz(max, Len(data)))

(* BootpVendorFieldProcess: what is known stays, but every option sets the *)
(* number of blocks to 0 first.                                            *)
BootpVendorFieldProcess(par, o) ==
    LET p == [par EXCEPT !.blocks = 0] IN
    CASE o.code = 1 /\ p.mask = 0 -> [p EXCEPT !.mask = o.data[1]]
      [] o.code = 3 /\ p.gateway = 0 -> [p EXCEPT !.gateway = o.data[1]]
      [] o.code = 6 /\ p.dns = 0 -> [p EXCEPT !.dns = o.data[1]]
      [] o.code = 12 /\ p.host = <<>> -> [p EXCEPT !.host = Text(o.data, NameMax)]
      [] o.code = 13 /\ Len(o.data) \in {2, 4} -> [p EXCEPT !.blocks = Last(o.data)]
      [] o.code = 17 /\ p.root = <<>> -> [p EXCEPT !.root = Text(o.data, NameMax)]
      [] OTHER -> p

(* DhcpOptionsProcess: the last one counts. Option 67 is put into the      *)
(* packet when it names no file.                                           *)
DhcpOptionProcess(par, o) ==
    CASE o.code = 1 -> [par EXCEPT !.mask = o.data[1]]
      [] o.code = 3 -> [par EXCEPT !.gateway = o.data[1]]
      [] o.code = 6 -> [par EXCEPT !.dns = o.data[1]]
      [] o.code = 12 -> [par EXCEPT !.host = Text(o.data, NameMax)]
      [] o.code = 17 -> [par EXCEPT !.root = Text(o.data, NameMax)]
      [] o.code = 54 -> [par EXCEPT !.dhcpServer = o.data[1]]
      [] OTHER -> par

(* The options of a reply one after the other; BootpVendorProcess steps    *)
(* over zeroes.                                                            *)
OptionProcess(par, o, dhcp) ==
    CASE dhcp -> DhcpOptionProcess(par, o)
      [] ~dhcp /\ o.code = 0 -> par
      [] OTHER -> BootpVendorFieldProcess(par, o)

OptionsProcess(par, options, dhcp) ==
    LET after[k \in 0 .. Len(options)] == IF k = 0 THEN par ELSE OptionProcess(after[k - 1], options[k], dhcp)
    IN  after[Len(options)]

BootFileOf(file, options) ==
    FoldLeft(LAMBDA f, o : IF o.code = 67 /\ f = <<>> THEN Text(o.data, FileMax) ELSE f, file, options)

(* BootpCopyNetParams                                                      *)
BootpCopyNetParams(par, head, file) ==
    [par EXCEPT !.ip = head.yiaddr,
                !.server = IF head.siaddr # 0 THEN head.siaddr ELSE @,
                !.file = IF file # <<>> THEN file ELSE @]

-----------------------------------------------------------------------------
(* Writing. BootpExtended: every option of CONFIG_BOOTP_MASK, with room    *)
(* for its value.                                                          *)
Room(code, n) == <<code, n>> \o [i \in 1 .. n |-> 0]
BootpExtended ==
    Bytes_(<<Room(1, 1), Room(3, 1), Room(6, 1), Room(12, 3), Room(13, 2), Room(17, 3)>>)

(* DhcpExtended: type, size, then the server and the address of the offer. *)
Named(code, address) == IF address = 0 THEN <<>> ELSE <<<<code, 1, address>>>>
DhcpExtended(type, server, address) ==
    Bytes_(<<<<53, 1, type>>, <<57, 2, 2, 64>>>> \o Named(54, server) \o Named(50, address)
           \o <<<<55, 6, 1, 3, 6, 12, 13, 17>>>>)

(* Its packet has the two addresses only.                                  *)
RarpRequest == <<>>

Request(c) ==
    CASE c = "bootp" -> BootpExtended [] c = "dhcp" -> DhcpExtended(1, 0, 0) [] OTHER -> RarpRequest

-----------------------------------------------------------------------------
(* BootpRequest or RarpRequest is called first: with address 0 the client  *)
(* accepts any. (NetLoop prepares both and has a case for DHCP only.)      *)
StartClient ==
    /\ bootp.net \in {"idle", "restart"}
    /\ \E c \in IF bootp.net = "idle" THEN Clients ELSE {bootp.client} :
           /\ bootp' = [client |-> c, try |-> 1, net |-> "continue", state |-> "SELECTING"]
           /\ asked' = Request(c)
    /\ params' = [params EXCEPT !.ip = 0, !.server = 0]
    /\ UNCHANGED <<area, taken, misread>>

(* NetStartAgain tries again or gives up.                                  *)
GivesUp ==
    /\ bootp.try >= BootpTries
    /\ \E n \in {"restart", "fail"} : bootp' = [bootp EXCEPT !.net = n]
    /\ UNCHANGED asked

(* For DHCP a request that was lost begins from the start.                 *)
AsksAgain ==
    /\ bootp.try < BootpTries
    /\ bootp' = [bootp EXCEPT !.try = @ + 1, !.state = "SELECTING"]
    /\ asked' = Request(bootp.client)

BootpTimeout ==
    /\ bootp.net = "continue" /\ bootp.client # "rarp"
    /\ GivesUp \/ AsksAgain
    /\ UNCHANGED <<params, area, taken, misread>>

RarpTimeout ==
    /\ bootp.net = "continue" /\ bootp.client = "rarp"
    /\ GivesUp \/ AsksAgain
    /\ UNCHANGED <<params, area, taken, misread>>

(* A server puts one more option into its reply, or a zero between two.    *)
AddOption ==
    /\ bootp.net = "continue" /\ bootp.client # "rarp" /\ Len(area) + Len(taken) < MaxReplyOptions
    /\ \E o \in ReplyOptions : area' = Append(area, o)
    /\ UNCHANGED <<bootp, params, taken, asked, misread>>

(* "autoload": the loop ends here, or NFS or TFTP go on.                   *)
Autoload == {"success", "nfs", "tftp"}

TakeReply == area' = <<>> /\ taken' = taken \o area

BootpHandler ==
    /\ bootp.net = "continue" /\ bootp.client = "bootp"
    /\ \E head \in ReplyHeads, next \in Autoload :
           /\ params' = OptionsProcess(BootpCopyNetParams(params, head, head.file), VendorOptions(Bytes_(area)), FALSE)
           /\ bootp' = [bootp EXCEPT !.net = next]
    /\ TakeReply /\ UNCHANGED <<asked, misread>>

ReadInStep == DhcpOptions(Bytes_(UpToPad(area)))
ReadOutOfStep == IF Padded(area) THEN Strays ELSE {<<>>}

DhcpParams(head, stray) ==
    BootpCopyNetParams(OptionsProcess(OptionsProcess(params, ReadInStep, TRUE), stray, TRUE), head,
                       BootFileOf(head.file, ReadInStep \o stray))

TakeDhcpReply == TakeReply /\ misread' = (misread \/ Padded(area))

DhcpOffer ==
    /\ bootp.net = "continue" /\ bootp.client = "dhcp" /\ bootp.state = "SELECTING"
    /\ \E head \in ReplyHeads, stray \in ReadOutOfStep :
           /\ params' = DhcpParams(head, stray)
           /\ asked' = DhcpExtended(3, params'.dhcpServer, head.yiaddr)
    /\ bootp' = [bootp EXCEPT !.state = "REQUESTING"]
    /\ TakeDhcpReply

(* A type that is not found in step may be found anywhere.                 *)
MayBeAck ==
    LET type == DhcpMessageType(Bytes_(UpToPad(area))) IN type = 5 \/ (type = -1 /\ Padded(area))

DhcpAck ==
    /\ bootp.net = "continue" /\ bootp.client = "dhcp" /\ bootp.state = "REQUESTING"
    /\ MayBeAck
    /\ \E head \in ReplyHeads, next \in Autoload, stray \in ReadOutOfStep :
           /\ params' = DhcpParams(head, stray)
           /\ bootp' = [bootp EXCEPT !.state = "BOUND", !.net = next]
    /\ TakeDhcpReply /\ UNCHANGED asked

(* NetReceive takes the addresses, the server's only if there is none.     *)
RarpHandler ==
    /\ bootp.net = "continue" /\ bootp.client = "rarp"
    /\ \E head \in ReplyHeads, next \in Autoload :
           /\ params' = [params EXCEPT !.ip = head.yiaddr, !.server = IF @ = 0 THEN head.siaddr ELSE @]
           /\ bootp' = [bootp EXCEPT !.net = next]
    /\ UNCHANGED <<area, taken, asked, misread>>

BootpInit ==
    /\ bootp = [client |-> "none", try |-> 0, net |-> "idle", state |-> "INIT"]
    /\ params = Unset /\ area = <<>> /\ taken = <<>> /\ asked = <<>> /\ misread = FALSE

BootpNext ==
    \/ StartClient \/ BootpTimeout \/ RarpTimeout \/ AddOption
    \/ BootpHandler \/ DhcpOffer \/ DhcpAck \/ RarpHandler

BootpSpec == BootpInit /\ [][BootpNext]_optionVars

-----------------------------------------------------------------------------
(* The options of that code that were given; one of them counts.           *)
Given(code) == {i \in DOMAIN taken : taken[i][1] = code}
Counts(code) == taken[IF bootp.client = "dhcp" THEN Max(Given(code)) ELSE Min(Given(code))]
AddressGiven(code) == IF Given(code) = {} THEN 0 ELSE Counts(code)[3]
TextGiven(code) ==
    IF Given(code) = {} THEN <<>>
    ELSE LET all == SubSeq(Counts(code), 3, Len(Counts(code)))
         IN  SubSeq(all, 1, IF Len(all) < NameMax THEN Len(all) ELSE NameMax - 1)

(* What the client knows is what the servers said, whatever other options, *)
(* known or not, stand between them and in several replies, and, except    *)
(* with DHCP, whatever zeroes; a name is cut where its buffer ends         *)
(* (bootp.c:252, :718).                                                    *)
ParamsAreGiven == ~misread =>
    /\ params.mask = AddressGiven(1) /\ params.gateway = AddressGiven(3) /\ params.dns = AddressGiven(6)
    /\ params.host = TextGiven(12) /\ params.root = TextGiven(17)
    /\ bootp.client = "dhcp" => params.dhcpServer = AddressGiven(54)

(* A request can be read by the rules replies are read by: the type is     *)
(* found, and a request for an address names the server that offered it,   *)
(* if the offer could be read.                                             *)
Said(code) == {DhcpOptions(asked)[i].data : i \in OfCode(DhcpOptions(asked), code)}
RequestIsReadable ==
    /\ bootp.client = "dhcp" => DhcpMessageType(asked) = IF bootp.state = "SELECTING" THEN 1 ELSE 3
    /\ bootp.client = "bootp" => \A o \in ToSet(VendorOptions(asked)) : o.code \in {1, 3, 6, 12, 13, 17}
    /\ bootp.client = "dhcp" /\ bootp.state = "REQUESTING" =>
           /\ Said(50) = {<<params.ip>>}
           /\ Given(54) # {} /\ ~misread => Said(54) = {<<Counts(54)[3]>>}

OptionsAreRead == ParamsAreGiven /\ RequestIsReadable
=============================================================================
