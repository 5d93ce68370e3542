------------------------------ MODULE MCBoard ------------------------------
(***************************************************************************)
(* What the commands find on the board, one part of it chosen at the       *)
(* start: flash of sectors of two pages of three cells, memory, memory     *)
(* with a fault under mtest, and the PHYs behind the switch.               *)
(***************************************************************************)
EXTENDS SpiFlash, Memory, Switch

CONSTANTS MCNames

VARIABLE part

(* Memory holds the bytes of one upload or another.                        *)
MCContents == {[i \in Cells |-> <<name, i>>] : name \in MCNames}

MCGeometry == [id \in {"W25Q32"} |-> 4]

Erase(form, from, to) == [cmd |-> "erase", form |-> form, from |-> from, to |-> to]
Copy(to, length) == [cmd |-> "cp", to |-> to, length |-> length]

(* Every form of erase, inside and across sectors, short of and beyond the *)
(* end, and copies that fill, cross and overrun pages.                     *)
MCTyped ==
    {<<Erase("all", 0, 0)>>, <<Erase("sectors", 1, 2)>>, <<Erase("sectors", 2, 1)>>,
     <<Erase("sectors", 3, 4)>>,
     <<Erase("end", 6, 11)>>, <<Erase("end", 6, 12)>>, <<Erase("end", 12, 40)>>,
     <<Erase("end", 7, 11)>>, <<Erase("length", 6, 7)>>, <<Erase("length", 8, 4)>>,
     <<Erase("length", 18, 7)>>, <<Erase("length", 6, 1)>>,
     <<Copy(6, 5)>>, <<Copy(9, 7)>>, <<Copy(12, 0)>>, <<Copy(21, 4)>>,
     <<Erase("length", 7, 4), Copy(6, 3)>>}

(* A copy that starts inside a page.                                       *)
MCTypedUnaligned == MCTyped \cup {<<Erase("all", 0, 0), Copy(7, 7)>>}

TestRegion(base, n) == [base |-> base, words |-> n]
MCRegions == {TestRegion(0, 4), TestRegion(2, 5)}

TwoUnits == [u \in {0, 1} |-> IF u = 0 THEN <<"p4">> ELSE <<"p0", "p1">>]

boardVars == <<part, vars, memoryVars, memTestVars, switchVars>>

(* mtest, when it was not chosen.                                          *)
NoMemTest ==
    /\ fault = NoFault /\ region = TestRegion(0, 4) /\ alternate = FALSE /\ words = [a \in WordAddresses |-> 0]
    /\ pattern = 0 /\ incr = 1 /\ first = 0 /\ passes = 0 /\ failures = FALSE /\ ended = FALSE

BoardInit ==
    /\ part \in {"flash", "memory", "mtest", "switch"}
    /\ Init /\ MemoryInit /\ SwitchInit
    /\ IF part = "mtest" THEN MemTestInit ELSE NoMemTest

Flashing == part = "flash" /\ UNCHANGED <<part, memoryVars, memTestVars, switchVars>>
Moving == part = "memory" /\ UNCHANGED <<part, vars, memTestVars, switchVars>>
Testing == part = "mtest" /\ UNCHANGED <<part, vars, memoryVars, switchVars>>
Switching == part = "switch" /\ UNCHANGED <<part, vars, memoryVars, memTestVars>>

BoardNext ==
    \/ Flashing /\ Next
    \/ Moving /\ MemoryNext
    \/ Testing /\ MemTestNext
    \/ Switching /\ SwitchNext

BoardSpec == BoardInit /\ [][BoardNext]_boardVars

(* The memory commands leave and show what they were asked for, and mtest  *)
(* finds every fault that shows in a bounded number of passes, and none    *)
(* where there is none (cmd_mem.c).                                        *)
MemoryIsExact ==
    /\ (part = "memory" => CopyIsForward /\ ShowsInTurn)
    /\ (part = "mtest" => FaultIsFound)
=============================================================================
