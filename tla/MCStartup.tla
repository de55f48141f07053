------------------------------ MODULE MCStartup ------------------------------
(* A small machine for Startup *)
EXTENDS Startup

(* More processors than the kernel has room for, the BSP listed second *)
FiveCpus == <<3, 0, 1, 2, 4>>

(* The same, with the BSP listed last *)
BspListedLast == <<3, 1, 2, 4, 0>>

(* The trampoline's page and two pages of kernel among the firmware's own *)
EightPages == <<"conventional", "reserved", "conventional", "conventional",
                "boot_data", "conventional", "conventional", "conventional">>
TwoSegments == <<{1}, {3, 4}>>

SomeTables == {<<"smbios">>, <<"acpi10", "acpi20">>}
================================================================================
