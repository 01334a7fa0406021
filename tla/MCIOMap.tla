-------------------------------- MODULE MCIOMap --------------------------------
(***************************************************************************)
(* The devices of init_device in their order, with pages of 16 bytes: the  *)
(* argument ROM fills a page and the video memory two, the registers have  *)
(* their own sizes.  Addresses keep the order of the source's.             *)
(***************************************************************************)
EXTENDS IOMap

Device(name, len, pio, mmio) == [name |-> name, len |-> len, pio |-> pio, mmio |-> mmio]
MCDevices == <<
  Device("argsrom", 16, None, 200), Device("serial", 1, 160, 190), Device("rtc", 4, 104, 140),
  Device("screen", 8, 128, 164), Device("vmem", 32, None, 50), Device("keyboard", 4, 112, 150) >>

(* Both ends of everything, and what lies next to them.                    *)
MCAddresses == {0, 7, 8, 50, 79, 80, 81, 82, 104, 105, 112, 128, 139, 140, 143, 144, 150, 151,
                160, 162, 164, 190, 200, 213, 214, 215, 216}
===============================================================================
