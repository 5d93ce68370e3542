----------------------------- MODULE MCFailsafe -----------------------------
(***************************************************************************)
(* Instances of Failsafe for TLC.                                          *)
(***************************************************************************)
EXTENDS Failsafe, TLC

Get(n) == [kind |-> "GET", type |-> "FIRMWARE", chunks |-> 0, joined |-> FALSE,
           tail |-> FALSE, pages |-> n]
Bad == [Get(1) EXCEPT !.kind = "BAD"]
Post(type, n, joined, tail) ==
    [kind |-> "POST", type |-> type, chunks |-> n, joined |-> joined, tail |-> tail,
     pages |-> 1]

(* Files just inside and just outside the limits UbootSize = 2 and         *)
(* MaxFirmware = 3, sent the ways browsers send them.                      *)
MCOneUpload ==
    {Get(1), Post("FIRMWARE", 3, FALSE, TRUE), Post("FIRMWARE", 4, TRUE, FALSE),
     Post("UBOOT", 2, TRUE, TRUE), Post("UBOOT", 3, FALSE, FALSE)}
MCUploads == {Get(1), Post("FIRMWARE", 2, FALSE, FALSE), Post("UBOOT", 2, FALSE, FALSE)}
MCServed ==
    {Get(2), Bad, Post("UBOOT", 2, FALSE, FALSE)}

MCSymmetry == Permutations(Ports)
=============================================================================
