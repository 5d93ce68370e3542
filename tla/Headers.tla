------------------------------ MODULE Headers ------------------------------
(***************************************************************************)
(* What net.c and uIP write in front of data and accept: the sums of IP,   *)
(* TCP, ICMP and CDP, on words of 16 bits in network order, the input of   *)
(* uip_process up to TCP with its answer to a ping, the Ethernet header,   *)
(* and addresses, VLANs and file names as texts. A packet is composed word *)
(* by word, sent, perhaps damaged on its way, and received.                *)
(***************************************************************************)
EXTENDS Formats

CONSTANTS
    HeaderWords,        \* words that data and fields take
    OddBytes,           \* last bytes of data of odd length
    MaxWords,           \* bound on the words of the data
    VlanNone            \* VLAN_NONE, which is VLAN_IDMASK as well

ASSUME HeadersAssumption ==
    /\ HeaderWords \subseteq 0 .. 65535 /\ OddBytes \subseteq 0 .. 255
    /\ MaxWords \in Nat /\ VlanNone \in Nat

VARIABLES
    words, odd,         \* the data, and its last byte if odd
    way,                \* "compose", "udp", "echo", "answered" or "dropped"
    packet, spoiled     \* what is on the wire; a word of it was changed

headersVars == <<words, odd, way, packet, spoiled>>

NoByte == -1
Folded(n) == (n % 65536) + (n \div 65536)
Total(ws) == FoldLeft(LAMBDA s, w : s + w, 0, ws)
Complement(w) == 65535 - w

(* NetCksum and NetCksumOk: all words, then the carries, twice.            *)
NetCksum(ws) == Folded(Folded(Total(ws))) % 65536
NetCksumOk(ws) == NetCksum(ws) \in {0, 65535}

-----------------------------------------------------------------------------
(* uip_arch.c: the carry after every word.                                 *)

(* Mutant: the carry is lost.                                              *)
PlusCarryLost(acc, w) == (acc + w) % 65536

PlusCarry(acc, w) ==
    LET sum == (acc + w) % 65536 IN IF sum < w THEN (sum + 1) % 65536 ELSE sum

uip_chksum(ws, last) ==
    LET acc == FoldLeft(PlusCarry, 0, ws)
    IN  IF last = NoByte THEN acc ELSE PlusCarry(acc, last * 256)

(* uip_tcpchksum: header, data and the pseudo header.                      *)
uip_tcpchksum(header, ws, last, addresses, len) ==
    FoldLeft(PlusCarry, uip_chksum(ws, last), <<uip_chksum(header, NoByte)>> \o addresses \o <<6, len>>)

(* uip_add32: four bytes and a word of 16 bits.                            *)
uip_add32(op32, op16) ==
    LET low == op16 % 256
        high == op16 \div 256
        a3 == (op32[4] + low) % 256
        a2 == (op32[3] + high) % 256
        carry1 == IF a2 < high THEN 1 ELSE 0
        a1 == (op32[2] + carry1) % 256
        a0 == (op32[1] + IF carry1 = 1 /\ a1 = 0 THEN 1 ELSE 0) % 256
        carry2 == IF a3 < low THEN 1 ELSE 0
        b2 == (a2 + carry2) % 256
        b1 == (a1 + IF carry2 = 1 /\ b2 = 0 THEN 1 ELSE 0) % 256
        b0 == (a0 + IF carry2 = 1 /\ b2 = 0 /\ b1 = 0 THEN 1 ELSE 0) % 256
    IN  <<b0, b1, b2, a3>>

(* CDP_compute_csum at an even address: the last byte is extended with its *)
(* sign, and the carry of this addition is lost.                           *)
Leftover(byte) == IF byte < 128 THEN byte ELSE 65280 + byte
CDP_compute_csum(ws, last) ==
    LET result == Total(ws)
        with == IF last = NoByte THEN result
                ELSE ((result \div 65536) * 65536) + ((result + Leftover(last)) % 65536)
    IN  Complement(Folded(Folded(Folded(with))) % 65536)

-----------------------------------------------------------------------------
(* NetSetIP: version, length, identification, fragments, TTL and protocol, *)
(* sum, addresses.                                                         *)
IpAddresses == <<2560, 1, 2560, 2>>
HeaderBefore(len, proto, addresses) == <<17664, len, 1, 16384, 65280 + proto>> \o <<0>> \o addresses
Sealed(header) == [header EXCEPT ![6] = Complement(NetCksum(header))]
NetSetIP(len) == Sealed(HeaderBefore(len, 17, IpAddresses))

(* Ping of a PC: type 8, its sum, the data.                                *)
EchoRequest(ws) == <<2048, Complement(NetCksum(<<2048>> \o ws))>> \o ws

HeaderOf(p) == SubSeq(p, 1, 10)
DataOf(p) == SubSeq(p, 11, Len(p))

(* The input of uip_process: version, fragments, address, sum, protocol.   *)
UipAccepts(p) ==
    /\ p[1] \div 256 = 69
    /\ p[4] % 16384 = 0
    /\ p[9] = IpAddresses[3] /\ p[10] = IpAddresses[4]
    /\ uip_chksum(HeaderOf(p), NoByte) = 65535
IsEcho(p) == p[5] % 256 = 1 /\ p[11] \div 256 = 8

(* The type becomes 0, and the sum grows by what was taken from it.        *)
EchoSum(sum) == IF sum >= 65535 - 2048 THEN (sum + 2049) % 65536 ELSE sum + 2048
EchoReply(p) ==
    [p EXCEPT ![11] = @ % 256, ![12] = EchoSum(@), ![9] = p[7], ![10] = p[8], ![7] = p[9], ![8] = p[10]]

-----------------------------------------------------------------------------
(* NetSetEther and NetEthHdrSize; a VLAN of -1 is none.                    *)
VlanId(x) == (IF x = 65535 THEN VlanNone ELSE x) % (VlanNone + 1)
NetEthHdrSize(vlan) == IF VlanId(vlan) = VlanNone THEN 14 ELSE 18
NetSetEther(vlan, prot) ==
    <<"dest", "src">> \o (IF VlanId(vlan) = VlanNone THEN <<>> ELSE <<"vlan", VlanId(vlan)>>) \o <<prot>>
HeaderBytes(h) == 12 + 2 * (Len(h) - 2)

Decimal(n) == DigitsOf(n, 10, SmallDigits)

VLAN_to_string(x) == IF x \in {65535, VlanNone} THEN <<"n", "o", "n", "e">> ELSE Decimal(x % (VlanNone + 1))
string_to_VLAN(s) == IF s = <<>> \/ ~isdigit(s[1]) THEN VlanNone ELSE Strtoul(s, 10).value

ip_to_string(ip) ==
    Decimal(ip[1]) \o <<".">> \o Decimal(ip[2]) \o <<".">> \o Decimal(ip[3]) \o <<".">> \o Decimal(ip[4])

(* string_to_ip: one number, and one character between it and the next.    *)
AfterNumber(s) == SubSeq(s, Strtoul(s, 10).used + 2, Len(s))
string_to_ip(s) ==
    LET s2 == AfterNumber(s)  s3 == AfterNumber(s2)  s4 == AfterNumber(s3)
    IN  <<Strtoul(s, 10).value % 256, Strtoul(s2, 10).value % 256, Strtoul(s3, 10).value % 256, Strtoul(s4, 10).value % 256>>

(* copy_filename: without the quotes, cut where the buffer ends.           *)
copy_filename(src, size) ==
    LET quoted == src # <<>> /\ src[1] = "quote"
        text == IF quoted THEN Tail(src) ELSE src
        room == IF quoted THEN size - 2 ELSE size - 1
        ends == {i \in 1 .. Len(text) : text[i] = "quote" \/ i > room}
    IN  IF ends = {} THEN text ELSE SubSeq(text, 1, (CHOOSE i \in ends : \A j \in ends : i <= j) - 1)

-----------------------------------------------------------------------------
AddWord ==
    /\ way = "compose" /\ odd = NoByte /\ Len(words) < MaxWords
    /\ \E w \in HeaderWords : words' = Append(words, w)
    /\ UNCHANGED <<odd, way, packet, spoiled>>

AddByte ==
    /\ way = "compose" /\ odd = NoByte
    /\ odd' \in OddBytes
    /\ UNCHANGED <<words, way, packet, spoiled>>

SendUdp ==
    /\ way = "compose" /\ way' = "udp"
    /\ packet' = NetSetIP(28 + 2 * Len(words)) \o words
    /\ UNCHANGED <<words, odd, spoiled>>

SendEcho ==
    /\ way = "compose" /\ way' = "echo"
    /\ packet' = Sealed(HeaderBefore(24 + 2 * Len(words), 1, IpAddresses)) \o EchoRequest(words)
    /\ UNCHANGED <<words, odd, spoiled>>

(* Another value of one word: 0 and 65535 are the same to the sums.        *)
Damage ==
    /\ way \in {"udp", "echo"} /\ ~spoiled
    /\ \E i \in 1 .. 10, w \in HeaderWords \ {0, 65535} :
           packet[i] # w /\ packet' = [packet EXCEPT ![i] = w]
    /\ spoiled' = TRUE
    /\ UNCHANGED <<words, odd, way>>

(* uip_process; what goes on to TCP is in UipTcp.                          *)
UipInput ==
    /\ way = "echo"
    /\ IF UipAccepts(packet) /\ IsEcho(packet)
       THEN way' = "answered" /\ packet' = EchoReply(packet)
       ELSE way' = "dropped" /\ UNCHANGED packet
    /\ UNCHANGED <<words, odd, spoiled>>

HeadersInit == words = <<>> /\ odd = NoByte /\ way = "compose" /\ packet = <<>> /\ spoiled = FALSE

HeadersNext == AddWord \/ AddByte \/ SendUdp \/ SendEcho \/ Damage \/ UipInput

HeadersSpec == HeadersInit /\ [][HeadersNext]_headersVars

-----------------------------------------------------------------------------
(* A header is accepted by the rule of net.c and by that of uIP exactly    *)
(* when no word of it changed on the way (net.c:1656, uip.c:658).          *)
HeadersAreJudged ==
    way \in {"udp", "echo"} =>
        /\ NetCksumOk(HeaderOf(packet)) <=> ~spoiled
        /\ uip_chksum(HeaderOf(packet), NoByte) = 65535 <=> ~spoiled

(* A ping that arrives whole is answered to the PC that sent it, with the  *)
(* sums right, and no other. Only the sum of an answer in which everything *)
(* is 0 is wrong: 0 in place of 65535 (uip.c:711).                         *)
PingsAreAnswered ==
    /\ way = "answered" =>
           /\ ~spoiled /\ HeaderOf(packet)[9] = IpAddresses[1] /\ HeaderOf(packet)[10] = IpAddresses[2]
           /\ uip_chksum(HeaderOf(packet), NoByte) = 65535
           /\ uip_chksum(DataOf(packet), NoByte) = 65535 <=> \E i \in DOMAIN words : words[i] # 0
    /\ way = "dropped" => spoiled

(* The sums are one function, however it is computed: in parts, with the   *)
(* carries at once or at the end, or complemented for CDP.                 *)
SumsAgree ==
    /\ odd = NoByte => /\ uip_chksum(words, odd) = NetCksum(words)
                       /\ CDP_compute_csum(words, odd) = Complement(NetCksum(words))
    /\ uip_tcpchksum(HeaderOf(NetSetIP(28)), words, odd, IpAddresses, 20) =
           NetCksum(NetSetIP(28) \o words \o (IF odd = NoByte THEN <<>> ELSE <<odd * 256>>) \o IpAddresses \o <<6, 20>>)

(* Sequence numbers of 32 bits grow by up to 65535 exactly.                *)
Halves(b) == <<b[1] * 256 + b[2], b[3] * 256 + b[4]>>
SequenceNumbersAdd ==
    Len(words) = MaxWords =>
        LET op32 == <<words[1] \div 256, words[1] % 256, words[2] \div 256, words[2] % 256>> IN
        \A w \in HeaderWords :
            Halves(uip_add32(op32, w)) =
                <<(words[1] + (words[2] + w) \div 65536) % 65536, (words[2] + w) % 65536>>

(* What is written can be read again: addresses, VLANs and names; and the  *)
(* header is as long as NetEthHdrSize says.                                *)
QuotedNames == UNION {[1 .. n -> {"x", "quote"}] : n \in 0 .. 3}
Small(n) == n % 128
TextsReturn ==
    way = "compose" =>
        /\ \A w \in ToSet(words) :
               /\ NetEthHdrSize(w) = HeaderBytes(NetSetEther(w, "ip"))
               /\ string_to_VLAN(VLAN_to_string(w)) = VlanId(w)
               /\ LET ip == <<Small(w \div 256), Small(w), 0, Small(w + 1)>> IN string_to_ip(ip_to_string(ip)) = ip
        /\ words = <<>> => \A name \in QuotedNames, size \in 2 .. 4 :
               /\ Len(copy_filename(name, size)) < size
               /\ ~Contains(copy_filename(name, size), "quote")
               /\ ~Contains(name, "quote") /\ Len(name) < size => copy_filename(name, size) = name
               /\ copy_filename(<<"quote">> \o name \o <<"quote">>, size + 1) = copy_filename(name, size) \/ Contains(name, "quote")

HeadersAreExact == HeadersAreJudged /\ PingsAreAnswered /\ SumsAgree /\ SequenceNumbersAdd /\ TextsReturn
=============================================================================
