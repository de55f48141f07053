------------------------------- MODULE MCAhci -------------------------------
(* A disk of two sectors, and machines with and without one *)
EXTENDS Ahci, TLC

C(op, lba, count) == [op |-> op, lba |-> lba, count |-> count]
SomeCommands == {C("write", 0, 2), C("read", 0, 2), C("read", 1, 0)}
SomeBuffers == {0 :> 1 @@ 1 :> 2}
BlankDisk == {[s \in 0 .. Sectors - 1 |-> 0]}

F(class, multi) == [class |-> class, multi |-> multi]
(* The controller behind a device of one function that aliases it, and in a  *)
(* device whose function 0 is missing; a bus without one.                    *)
SomeBuses ==
    { 0 :> (0 :> F("bridge", FALSE) @@ 1 :> F("ahci", FALSE)) @@
      1 :> (0 :> F(None, FALSE) @@ 1 :> F("ahci", FALSE)),
      0 :> (0 :> F("bridge", TRUE) @@ 1 :> F("vga", FALSE)) }

P(i, d, s) == [implemented |-> i, det |-> d, sig |-> s]
SomeControllers ==
    { <<P(FALSE, 3, "disk"), P(TRUE, 3, "disk"), P(TRUE, 3, "disk")>>,
      <<P(TRUE, 0, "disk"), P(TRUE, 3, "disk")>>,
      <<P(TRUE, 3, "atapi")>> }
=============================================================================
