-------------------------- MODULE NetConsoleProofs --------------------------
(***************************************************************************)
(* TLAPS proofs about NetConsole, for a ring of any size and any packets:  *)
(* its types, that the ring implements a queue, and that a wait for input  *)
(* leaves the input in it.                                                 *)
(***************************************************************************)
EXTENDS NetConsole, SequenceTheorems, TLAPS

USE NetConsoleAssumption

Cell == Char \cup {NoChar}

(* Where nc_input_packet copies a packet to: the length fits the free      *)
(* space, and the part that goes to the start of the ring ends before the  *)
(* oldest character.                                                       *)
LEMMA Geometry ==
    ASSUME TypeOK, NEW pkt \in Packets
    PROVE  /\ Len(pkt) \in Nat
           /\ Stored(pkt) \in 0..Len(pkt) /\ input_size + Stored(pkt) <= N
           /\ End \in 0..N /\ Chunk(Stored(pkt)) \in 0..Stored(pkt)
           /\ End + Chunk(Stored(pkt)) <= N
           /\ Stored(pkt) - Chunk(Stored(pkt)) <= N
  <1>1. Len(pkt) \in Nat
    BY LenProperties
  <1>2. Stored(pkt) \in 0..Len(pkt) /\ input_size + Stored(pkt) <= N
    BY <1>1 DEF TypeOK, Stored
  <1>3. End \in 0..N
    BY DEF TypeOK, End
  <1>4. Chunk(Stored(pkt)) \in 0..Stored(pkt) /\ End + Chunk(Stored(pkt)) <= N
    BY <1>1, <1>2, <1>3 DEF Chunk
  <1>5. Stored(pkt) - Chunk(Stored(pkt)) <= N
    BY <1>1, <1>2, <1>4 DEF TypeOK
  <1> QED
    BY <1>1, <1>2, <1>3, <1>4, <1>5

(* What Copied puts in the ring are characters.                            *)
LEMMA CopiedType ==
    ASSUME TypeOK, NEW pkt \in Packets
    PROVE  Copied(pkt, Stored(pkt)) \in [0..(N - 1) -> Cell]
  <1> DEFINE len == Stored(pkt)
             chunk == Chunk(len)
  <1>1. /\ len \in 0..Len(pkt) /\ Len(pkt) \in Nat /\ End \in 0..N
        /\ chunk \in 0..len
    BY Geometry
  <1>2. \A i \in 1..Len(pkt) : pkt[i] \in Cell
    BY ElementOfSeq DEF Cell
  <1> HIDE DEF len, chunk
  <1>3. SUFFICES ASSUME NEW k \in 0..(N - 1)
                 PROVE  (IF End <= k /\ k < End + chunk THEN pkt[k - End + 1]
                         ELSE IF k < len - chunk THEN pkt[chunk + k + 1]
                         ELSE input_buffer[k]) \in Cell
    BY DEF Copied, len, chunk
  <1>4. CASE End <= k /\ k < End + chunk
    <2>1. k - End + 1 \in 1..Len(pkt)
      BY <1>1, <1>4
    <2> QED
      BY <2>1, <1>2, <1>4
  <1>5. CASE ~(End <= k /\ k < End + chunk) /\ k < len - chunk
    <2>1. chunk + k + 1 \in 1..Len(pkt)
      BY <1>1, <1>5
    <2> QED
      BY <2>1, <1>2, <1>5
  <1>6. CASE ~(End <= k /\ k < End + chunk) /\ ~(k < len - chunk)
    <2>1. input_buffer[k] \in Cell
      BY DEF TypeOK, Cell
    <2> QED
      BY <2>1, <1>6
  <1> QED
    BY <1>4, <1>5, <1>6

(* The characters waiting in the ring stay where they are ...              *)
LEMMA CopiedOld ==
    ASSUME TypeOK, NEW pkt \in Packets, NEW i \in 1..input_size
    PROVE  /\ Wrap(input_offset + i - 1) \in 0..(N - 1)
           /\ Copied(pkt, Stored(pkt))[Wrap(input_offset + i - 1)]
                = input_buffer[Wrap(input_offset + i - 1)]
  <1> DEFINE k == Wrap(input_offset + i - 1)
  <1>1. k \in 0..(N - 1)
    BY DEF TypeOK, Wrap
  <1>2. /\ Stored(pkt) \in Nat /\ input_size + Stored(pkt) <= N
    BY Geometry
  <1>3. ~(End <= k /\ k < End + Chunk(Stored(pkt)))
    BY <1>2 DEF TypeOK, End, Chunk, Wrap
  <1>4. ~(k < Stored(pkt) - Chunk(Stored(pkt)))
    BY <1>2 DEF TypeOK, End, Chunk, Wrap
  <1> QED
    BY <1>1, <1>3, <1>4 DEF Copied

(* ... and the packet follows them.                                        *)
LEMMA CopiedNew ==
    ASSUME TypeOK, NEW pkt \in Packets, NEW j \in 1..Stored(pkt)
    PROVE  Copied(pkt, Stored(pkt))[Wrap(input_offset + (input_size + j) - 1)] = pkt[j]
  <1> DEFINE k == Wrap(input_offset + (input_size + j) - 1)
             len == Stored(pkt)
             chunk == Chunk(len)
  <1>1. len \in Nat /\ input_size + len <= N
    BY Geometry
  <1>2. k \in 0..(N - 1)
    BY <1>1 DEF TypeOK, Wrap
  <1>3. CASE j <= chunk
    <2>1. End <= k /\ k < End + chunk /\ k - End + 1 = j
      BY <1>1, <1>3 DEF TypeOK, End, Chunk, Wrap
    <2> QED
      BY <2>1, <1>2 DEF Copied
  <1>4. CASE ~(j <= chunk)
    <2>1. ~(End <= k /\ k < End + chunk) /\ k < len - chunk /\ chunk + k + 1 = j
      BY <1>1, <1>4 DEF TypeOK, End, Chunk, Wrap
    <2> QED
      BY <2>1, <1>2 DEF Copied
  <1> QED
    BY <1>1, <1>3, <1>4 DEF Chunk, TypeOK, End

-----------------------------------------------------------------------------
(* Types                                                                   *)

LEMMA TypeInit == Init => TypeOK
  BY DEF Init, TypeOK, Callers

LEMMA TakeType ==
    ASSUME TypeOK, input_size # 0, Take
    PROVE  /\ input_buffer' \in [0..(N - 1) -> Char \cup {NoChar}]
           /\ input_size' \in 0..N /\ input_offset' \in 0..(N - 1)
           /\ last' \in Char \cup {NoChar}
  BY DEF TypeOK, Take, Wrap

(* NcStart sets a handler, a timer and the wait for ARP, of their types.   *)
LEMMA NcStartType ==
    ASSUME TypeOK, NEW t, t \in {"none", "nc_timeout", "startAgainTimeout", "command"},
           NcStart(t)
    PROVE  /\ handler' \in {"command", "nc_handler", "nc_wait_arp_handler",
                            "startAgainHandler"}
           /\ timer' \in {"none", "nc_timeout", "startAgainTimeout", "command"}
           /\ arp' \in {"wait", "none"}
  BY DEF NcStart

LEMMA NetLoopType ==
    ASSUME TypeOK, NetLoop, UNCHANGED ether, net_timeout' \in 0..1,
           caller' \in Callers, below' \in {"none", "puts", "command"}
    PROVE  TypeOK'
  <1>1. UNCHANGED ring
    BY DEF NetLoop, NetLoopRuns, NetLoopRefuses
  <1>2. /\ at' \in {"off", "rx", "ctrlc", "timers"} /\ eth' \in {"ACTIVE", "PASSIVE"}
        /\ NetState' \in {"CONTINUE", "SUCCESS", "FAIL"}
    BY DEF NetLoop, NetLoopRuns, NetLoopRefuses, TypeOK
  <1>3. /\ handler' \in {"command", "nc_handler", "nc_wait_arp_handler",
                         "startAgainHandler"}
        /\ timer' \in {"none", "nc_timeout", "startAgainTimeout", "command"}
        /\ arp' \in {"wait", "none"}
    <2>1. CASE NetLoopRuns
      BY <2>1, NcStartType DEF NetLoopRuns, TypeOK
    <2>2. CASE NetLoopRefuses
      BY <2>2 DEF NetLoopRefuses, TypeOK
    <2> QED
      BY <2>1, <2>2 DEF NetLoop
  <1> QED
    BY <1>1, <1>2, <1>3 DEF TypeOK, ring

LEMMA RestartType ==
    ASSUME TypeOK, NEW t, t \in {"none", "nc_timeout", "startAgainTimeout", "command"},
           Restart(t), UNCHANGED <<ring, caller, below, net_timeout, ether>>,
           eth' \in {"ACTIVE", "PASSIVE"}
    PROVE  TypeOK'
  BY NcStartType DEF TypeOK, Restart, ring

LEMMA TypeNext == TypeOK /\ [Next]_vars => TypeOK'
  <1> SUFFICES ASSUME TypeOK, [Next]_vars
               PROVE  TypeOK'
    OBVIOUS
  <1>1. CASE CallGetc
    BY <1>1 DEF TypeOK, CallGetc, ring, net, Callers
  <1>2. CASE GetcWaits
    BY <1>2, NetLoopType DEF GetcWaits, TypeOK
  <1>3. CASE GetcReturns
    <2>1. input_size # 0 /\ Take
      BY <1>3 DEF GetcReturns
    <2> QED
      BY <1>3, <2>1, TakeType DEF GetcReturns, TypeOK, Callers, net
  <1>4. CASE CallTstc
    BY <1>4, NetLoopType DEF CallTstc, Callers, TypeOK
  <1>5. CASE CallPuts
    BY <1>5, NetLoopType DEF CallPuts, Callers, TypeOK
  <1>6. CASE CallCommand
    BY <1>6, NetLoopType DEF CallCommand, Callers, TypeOK
  <1>7. CASE Return
    BY <1>7 DEF TypeOK, Return, ring, Callers
  <1>8. ASSUME NEW pkt \in Packets, Packet(pkt)
        PROVE  TypeOK'
    <2>1. input_buffer' \in [0..(N - 1) -> Char \cup {NoChar}]
      BY <1>8, CopiedType DEF Packet, nc_input_packet, Cell
    <2>2. input_size' \in 0..N
      BY <1>8, Geometry DEF Packet, nc_input_packet, TypeOK
    <2>3. NetState' \in {"CONTINUE", "SUCCESS", "FAIL"}
      BY <1>8 DEF Packet, Handler, TypeOK
    <2> QED
      BY <1>8, <2>1, <2>2, <2>3 DEF Packet, nc_input_packet, TypeOK
  <1>9. CASE ArpReply
    BY <1>9 DEF TypeOK, ArpReply, Handler, ring
  <1>10. CASE PollNothing
    BY <1>10 DEF PollNothing, ring, TypeOK
  <1>11. CASE PollNested
    <2>1. below' \in {"none", "puts", "command"}
      BY <1>11 DEF PollNested, TypeOK, Callers, Reading
    <2> QED
      BY <1>11, <2>1, NetLoopType DEF PollNested, Callers
  <1>12. CASE PollTakes
    <2>1. input_size # 0 /\ Take
      BY <1>12 DEF PollTakes
    <2> QED
      BY <1>12, <2>1, TakeType DEF PollTakes, TypeOK
  <1>13. CASE Round
    BY <1>13 DEF TypeOK, Round, Outcomes, ring
  <1>14. CASE NetStartAgain
    <2>1. /\ UNCHANGED <<ring, caller, below, net_timeout, ether>>
          /\ eth' \in {"ACTIVE", "PASSIVE"}
      BY <1>14 DEF NetStartAgain
    <2>2. ASSUME NEW t \in {timer, IF timer = "command" THEN "none" ELSE timer}, Restart(t)
          PROVE  TypeOK'
      <3>1. t \in {"none", "nc_timeout", "startAgainTimeout", "command"}
        BY DEF TypeOK
      <3> QED
        BY <2>1, <2>2, <3>1, RestartType
    <2>3. CASE /\ handler' = "startAgainHandler" /\ timer' = "startAgainTimeout"
               /\ at' = "rx" /\ UNCHANGED <<NetState, arp>>
      BY <2>1, <2>3 DEF TypeOK, ring
    <2>4. CASE NetState' = "FAIL" /\ at' = "off" /\ UNCHANGED <<handler, timer, arp>>
      BY <2>1, <2>4 DEF TypeOK, ring
    <2> QED
      BY <1>14, <2>2, <2>3, <2>4 DEF NetStartAgain
  <1>15. CASE startAgainTimeout
    BY <1>15, RestartType DEF startAgainTimeout, TypeOK
  <1>17. CASE nc_timeout
    BY <1>17 DEF nc_timeout, TypeOK, ring
  <1>16. CASE UNCHANGED vars
    BY <1>16 DEF TypeOK, vars, ring, net
  <1> QED
    BY <1>1, <1>2, <1>3, <1>4, <1>5, <1>6, <1>7, <1>8, <1>9, <1>10, <1>11, <1>12, <1>13,
       <1>14, <1>15, <1>16, <1>17 DEF Next

(* The state of drivers/netconsole.c keeps its types: in particular the    *)
(* ring's offset and size stay within the ring.                            *)
THEOREM TypeCorrect == Spec => []TypeOK
  <1> QED
    BY TypeInit, TypeNext, PTL DEF Spec

-----------------------------------------------------------------------------
(* The ring implements the queue                                           *)

(* A ring of any contents, read from its offset on, is a sequence.         *)
LEMMA Unrolled ==
    ASSUME NEW buf \in [0..(N - 1) -> Cell], NEW size \in 0..N, NEW offset \in 0..(N - 1)
    PROVE  LET s == [i \in 1..size |-> buf[Wrap(offset + i - 1)]]
           IN  s \in Seq(Cell) /\ Len(s) = size
  <1> DEFINE s == [i \in 1..size |-> buf[Wrap(offset + i - 1)]]
  <1>1. \A i \in 1..size : Wrap(offset + i - 1) \in 0..(N - 1)
    BY DEF Wrap
  <1>2. \A i \in 1..size : buf[Wrap(offset + i - 1)] \in Cell
    BY <1>1
  <1>3. s \in [1..size -> Cell] /\ size \in Nat
    BY <1>2
  <1>4. s \in Seq(Cell)
    BY <1>3, SeqDef
  <1>5. DOMAIN s = 1..size
    OBVIOUS
  <1> HIDE DEF s
  <1>6. Len(s) = size
    BY <1>3, <1>4, <1>5, LenProperties
  <1> QED
    BY <1>4, <1>6 DEF s

LEMMA ContentsType ==
    ASSUME TypeOK
    PROVE  Contents \in Seq(Cell) /\ Len(Contents) = input_size
  <1>1. /\ input_buffer \in [0..(N - 1) -> Cell]
        /\ input_size \in 0..N /\ input_offset \in 0..(N - 1)
    BY DEF TypeOK, Cell
  <1> QED
    BY <1>1, Unrolled DEF Contents

LEMMA NextContentsType ==
    ASSUME TypeOK'
    PROVE  Contents' \in Seq(Cell) /\ Len(Contents') = input_size'
  <1>1. /\ input_buffer' \in [0..(N - 1) -> Cell]
        /\ input_size' \in 0..N /\ input_offset' \in 0..(N - 1)
    BY DEF TypeOK, Cell
  <1>2. Contents' = [i \in 1..input_size' |-> input_buffer'[Wrap(input_offset' + i - 1)]]
    BY DEF Contents, Wrap
  <1> QED
    BY <1>1, <1>2, Unrolled

LEMMA PutRefines ==
    ASSUME TypeOK, TypeOK', NEW pkt \in Packets, nc_input_packet(pkt)
    PROVE  Queue!Put
  <1> DEFINE head == SubSeq(pkt, 1, Stored(pkt))
  <1>1. Queue!Fitting(pkt) = Stored(pkt)
    BY ContentsType DEF Queue!Fitting, Stored
  <1>2. Contents \in Seq(Cell) /\ Len(Contents) = input_size /\ input_size \in Nat
    BY ContentsType DEF TypeOK
  <1>3. /\ Contents' \in Seq(Cell) /\ Len(Contents') = input_size + Stored(pkt)
    <2>1. Contents' \in Seq(Cell) /\ Len(Contents') = input_size'
      BY NextContentsType
    <2> QED
      BY <2>1 DEF nc_input_packet
  <1>4. Stored(pkt) \in 0..Len(pkt) /\ Len(pkt) \in Nat
    BY Geometry
  <1>5. /\ head \in Seq(Cell) /\ Len(head) = Stored(pkt)
        /\ \A j \in 1..Stored(pkt) : head[j] = pkt[j]
    <2>1. \A j \in 1..Stored(pkt) : pkt[j] \in Cell
      BY <1>4, ElementOfSeq DEF Cell
    <2> QED
      BY <1>4, <2>1, SubSeqProperties
  <1> HIDE DEF head
  <1>6. /\ Contents \o head \in Seq(Cell)
        /\ Len(Contents \o head) = input_size + Stored(pkt)
        /\ \A i \in 1..(input_size + Stored(pkt)) :
             (Contents \o head)[i] = IF i <= input_size THEN Contents[i] ELSE head[i - input_size]
    <2> DEFINE t == Contents
    <2>1. t \in Seq(Cell) /\ Len(t) = input_size
      BY <1>2
    <2> HIDE DEF t
    <2>2. /\ t \o head \in Seq(Cell) /\ Len(t \o head) = Len(t) + Len(head)
          /\ \A i \in 1..(Len(t) + Len(head)) :
               (t \o head)[i] = IF i <= Len(t) THEN t[i] ELSE head[i - Len(t)]
      BY <2>1, <1>5, ConcatProperties
    <2>3. Len(t) = input_size /\ Len(head) = Stored(pkt)
      BY <2>1, <1>5
    <2> QED
      BY <2>2, <2>3 DEF t
  <1>7. ASSUME NEW i \in 1..(input_size + Stored(pkt))
        PROVE  Contents'[i] = (Contents \o head)[i]
    <2>1. Contents'[i] = Copied(pkt, Stored(pkt))[Wrap(input_offset + i - 1)]
      BY <1>2, <1>4 DEF nc_input_packet, Contents, Wrap
    <2>2. CASE i <= input_size
      <3>1. i \in 1..input_size
        BY <1>2, <2>2
      <3>2. Contents[i] = input_buffer[Wrap(input_offset + i - 1)]
        BY <3>1 DEF Contents
      <3> QED
        BY <3>1, <3>2, <2>1, <2>2, <1>6, CopiedOld
    <2>3. CASE ~(i <= input_size)
      <3> DEFINE j == i - input_size
      <3>1. j \in 1..Stored(pkt) /\ i = input_size + j
        BY <1>2, <1>4, <2>3
      <3> HIDE DEF j
      <3>2. Copied(pkt, Stored(pkt))[Wrap(input_offset + (input_size + j) - 1)] = pkt[j]
        BY <3>1, CopiedNew
      <3>3. (Contents \o head)[i] = head[j]
        BY <1>6, <2>3 DEF j
      <3> QED
        BY <2>1, <3>1, <3>2, <3>3, <1>5
    <2> QED
      BY <2>2, <2>3
  <1>8. Contents' = Contents \o head
    BY <1>3, <1>6, <1>7, SeqEqual
  <1> QED
    BY <1>1, <1>8 DEF Queue!Put, nc_input_packet, head

LEMMA TakeRefines ==
    ASSUME TypeOK, TypeOK', input_size # 0, Take
    PROVE  Queue!Take
  <1>1. Contents \in Seq(Cell) /\ Len(Contents) = input_size /\ input_size \in 1..N
    BY ContentsType DEF TypeOK
  <1>2. Contents # << >>
    BY <1>1, EmptySeq
  <1>3. Contents[1] = input_buffer[input_offset]
    BY <1>1 DEF Contents, Wrap, TypeOK
  <1>4. last' = Head(Contents)
    BY <1>1, <1>2, <1>3 DEF Take
  <1>5. /\ Contents' \in Seq(Cell) /\ Len(Contents') = input_size - 1
    <2>1. Contents' \in Seq(Cell) /\ Len(Contents') = input_size'
      BY NextContentsType
    <2> QED
      BY <2>1 DEF Take
  <1>6. /\ Tail(Contents) \in Seq(Cell) /\ Len(Tail(Contents)) = input_size - 1
        /\ \A i \in 1..(input_size - 1) : Tail(Contents)[i] = Contents[i + 1]
    BY <1>1, <1>2, HeadTailProperties
  <1>7. ASSUME NEW i \in 1..(input_size - 1)
        PROVE  Contents'[i] = Tail(Contents)[i]
    <2>1. Contents'[i] = input_buffer[Wrap(Wrap(input_offset + 1) + i - 1)]
      BY DEF Take, Contents, Wrap
    <2>2. Contents[i + 1] = input_buffer[Wrap(input_offset + i)]
      BY <1>1 DEF Contents
    <2>3. Wrap(Wrap(input_offset + 1) + i - 1) = Wrap(input_offset + i)
      BY <1>1 DEF Wrap, TypeOK
    <2> QED
      BY <2>1, <2>2, <2>3, <1>6
  <1>8. Contents' = Tail(Contents)
    BY <1>5, <1>6, <1>7, SeqEqual
  <1> QED
    BY <1>2, <1>4, <1>8 DEF Queue!Take

LEMMA RingKept ==
    ASSUME UNCHANGED ring
    PROVE  UNCHANGED Queue!vars
  BY DEF ring, Queue!vars, Contents, Wrap

(* Every other step leaves the ring alone.                                 *)
LEMMA RingOnly ==
    ASSUME \/ CallGetc \/ GetcWaits \/ CallTstc \/ CallPuts \/ CallCommand \/ Return
           \/ ArpReply \/ PollNothing \/ PollNested
           \/ nc_timeout \/ Round \/ NetStartAgain \/ startAgainTimeout
    PROVE  UNCHANGED ring
  BY DEF CallGetc, GetcWaits, CallTstc, CallPuts, CallCommand, Return, ArpReply, PollNothing,
     PollNested, nc_timeout, Round, NetStartAgain, startAgainTimeout, NetLoop, NetLoopRuns, NetLoopRefuses

(* drivers/netconsole.c implements the queue: whatever calls of NetLoop    *)
(* surround them, nc_input_packet appends what fits of a packet and a read *)
(* takes the oldest character.                                             *)
THEOREM Refines == Spec => Refinement
  <1>1. Init => Queue!Init
    <2> SUFFICES ASSUME Init PROVE Contents = << >> /\ last = NoChar
      BY DEF Queue!Init
    <2>1. TypeOK /\ input_size = 0 /\ last = NoChar
      BY TypeInit DEF Init
    <2> QED
      BY <2>1, ContentsType, EmptySeq
  <1>2. TypeOK /\ TypeOK' /\ [Next]_vars => [Queue!Next]_(Queue!vars)
    <2> SUFFICES ASSUME TypeOK, TypeOK', [Next]_vars
                 PROVE  Queue!Put \/ Queue!Take \/ UNCHANGED Queue!vars
      BY DEF Queue!Next
    <2>1. CASE GetcReturns
      BY <2>1, TakeRefines DEF GetcReturns
    <2>2. ASSUME NEW pkt \in Packets, Packet(pkt)
          PROVE  Queue!Put
      BY <2>2, PutRefines DEF Packet
    <2>3. CASE PollTakes
      BY <2>3, TakeRefines DEF PollTakes
    <2>4. CASE UNCHANGED ring
      BY <2>4, RingKept
    <2> QED
      BY <2>1, <2>2, <2>3, <2>4, RingOnly DEF Next, vars
  <1> QED
    BY <1>1, <1>2, TypeCorrect, PTL DEF Spec, Refinement, Queue!Spec

-----------------------------------------------------------------------------
(* While nc_getc or nc_tstc waits in NetLoop, no step takes a character    *)
(* from the ring: input_recursion keeps ctrlc away from it.                *)
THEOREM WaitKeeps == Spec => WaitKeepsInput
  <1>1. TypeOK /\ [Next]_vars =>
          [(caller \in {"getc", "tstc"} /\ at # "off") => (input_size' >= input_size)]_vars
    <2> SUFFICES ASSUME TypeOK, Next, caller \in {"getc", "tstc"}, at # "off"
                 PROVE  input_size' >= input_size
      OBVIOUS
    <2>1. ASSUME NEW pkt \in Packets, Packet(pkt)
          PROVE  input_size' >= input_size
      BY <2>1, Geometry DEF Packet, nc_input_packet, TypeOK
    <2>2. CASE UNCHANGED ring
      BY <2>2 DEF ring, TypeOK
    <2>3. ~GetcReturns /\ ~PollTakes
      BY DEF GetcReturns, PollTakes, Reading
    <2> QED
      BY <2>1, <2>2, <2>3, RingOnly DEF Next
  <1> QED
    BY <1>1, TypeCorrect, PTL DEF Spec, WaitKeepsInput

=============================================================================
