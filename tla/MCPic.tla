-------------------------------- MODULE MCPic --------------------------------
(* Small machines for the interrupt controllers: three lines each, the     *)
(* slave on line 2 of the master.                                          *)
EXTENDS Pic

(* The PIT, an IDE channel, a disk controller, and two level devices that  *)
(* share a line: one of them is on IRQ 2, which an AT moves to the slave.  *)
MCIrq == [timer |-> <<"m", 0>>, ide |-> <<"s", 0>>, hdc |-> <<"m", 1>>,
          pci1 |-> <<"s", 1>>, pci2 |-> <<"m", Cascade>>]

NonSpecificEoi == [sl |-> FALSE, eoi |-> TRUE, rotate |-> FALSE, line |-> 0]
Poll           == [poll |-> TRUE, esmm |-> FALSE, smm |-> FALSE]
Icw1           == [ltim |-> FALSE, single |-> FALSE, ic4 |-> TRUE]
ManualEoi      == [upm |-> TRUE, aeoi |-> FALSE]

(* A 386 with an edge and a level device on the slave, which the guest     *)
(* polls.                                                                  *)
PciAT ==
    [at |-> TRUE, is286 |-> TRUE, elcr_enabled |-> TRUE, elcr |-> [m |-> {}, s |-> {1}],
     edge |-> {"ide"}, level |-> {"pci1"}, latches |-> {},
     icw1s |-> {Icw1}, icw4s |-> {ManualEoi}, masks |-> {{}},
     commands |-> {NonSpecificEoi, [NonSpecificEoi EXCEPT !.rotate = TRUE],
                   [NonSpecificEoi EXCEPT !.sl = TRUE]},
     ocw3s |-> {<<"s", Poll>>}, initIF |-> FALSE]

(* One whose two level devices share a line of the slave, beside the PIT.  *)
SharedAT == [PciAT EXCEPT !.edge = {"timer"}, !.level = {"pci1", "pci2"},
                          !.commands = {NonSpecificEoi, [NonSpecificEoi EXCEPT !.rotate = TRUE]}, !.ocw3s = {}]

(* A 286 whose guest uses automatic EOI, rotation, special mask mode and   *)
(* level-triggered inputs; its keyboard interrupt, line 0, is latched.     *)
IsaAT ==
    [PciAT EXCEPT
        !.edge = {"timer", "ide"}, !.masks = {{}, {0}}, !.elcr_enabled = FALSE, !.elcr = [m |-> {}, s |-> {}], !.level = {},
        !.latches = {<<"m", 0>>},
        !.icw1s = {[Icw1 EXCEPT !.ltim = l] : l \in BOOLEAN},
        !.icw4s = {[ManualEoi EXCEPT !.aeoi = a] : a \in BOOLEAN},
        !.commands = {NonSpecificEoi} \cup
            {[NonSpecificEoi EXCEPT !.eoi = FALSE, !.rotate = r] : r \in BOOLEAN},
        !.ocw3s = {<<"m", [poll |-> FALSE, esmm |-> TRUE, smm |-> s]>> : s \in BOOLEAN}]

(* An 808x with two controllers, such as the Xi8088, and one with one. *)
Xi8088 == [PciAT EXCEPT !.is286 = FALSE, !.elcr_enabled = FALSE, !.elcr = [m |-> {}, s |-> {}],
                        !.level = {}, !.edge = {"timer", "hdc", "ide"}, !.ocw3s = {}]
XT     == [Xi8088 EXCEPT !.at = FALSE, !.edge = {"timer", "hdc"},
                         !.icw1s = {[Icw1 EXCEPT !.single = TRUE]}]

(* PciAT with a guest that initialises with interrupts enabled. *)
CarelessAT == [PciAT EXCEPT !.edge = {"timer", "ide"}, !.initIF = TRUE, !.ocw3s = {}]

MCConfig == [PciAT |-> PciAT, SharedAT |-> SharedAT, IsaAT |-> IsaAT, Xi8088 |-> Xi8088, XT |-> XT,
             CarelessAT |-> CarelessAT]
==============================================================================
