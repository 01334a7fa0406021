--------------------------------- MODULE IOMap ---------------------------------
(***************************************************************************)
(* Guest memory and devices: the allocation of device space (new_space),   *)
(* the two tables of maps, the start of the devices (init_device), and     *)
(* every access to memory, a memory-mapped device or a port, with the      *)
(* handlers of the devices (nemu/src/memory/memory.c, device/io/*.c,       *)
(* device/*.c, include/device/map.h).                                      *)
(*                                                                         *)
(* Of the contents, the model has the origin of each device's first byte:  *)
(* as initialised, left by its handler, or written by an access.  An       *)
(* access is the guest's, the debugger's, or one of instr_fetch.           *)
(***************************************************************************)
EXTENDS Integers, Sequences

CONSTANTS Devices,     \* init_device's devices in order: name, len, pio, mmio
          PAGE_SIZE,
          IoSpaceMaxes, \* sizes of io_space to consider
          NR_MAP, PORT_IO_SPACE_MAX,
          PmemLow, PMEM_SIZE,
          Addresses    \* addresses to access

None == -1

ASSUME IOMapAssumption ==
  /\ PAGE_SIZE \in Nat /\ PAGE_SIZE >= 4
  /\ \A max \in IoSpaceMaxes : max \in Nat /\ max % PAGE_SIZE = 0
  /\ Devices \in Seq([name : STRING, len : Nat \ {0}, pio : Int, mmio : Int]) /\ Devices # <<>>
  /\ Addresses \subseteq Int /\ PmemLow \in Int /\ PMEM_SIZE \in Nat

(* The six devices fit in the tables of eight entries, their ports below   *)
(* 65535 (port-io.c, mmio.c).                                              *)
ASSUME TablesAssumption ==
  /\ NR_MAP \in Nat /\ PORT_IO_SPACE_MAX \in Nat
  /\ Len(Devices) <= NR_MAP
  /\ \A i \in DOMAIN Devices :
       Devices[i].pio # None => Devices[i].pio + Devices[i].len <= PORT_IO_SPACE_MAX

VARIABLES phase,     \* init, ready, dead
          has_ioe,   \* the build has more devices than the argument ROM
          max,       \* IO_SPACE_MAX
          nr,        \* devices initialised
          p_space,   \* offset in io_space
          space,     \* offset of each device's space
          mmio_maps, pio_maps,
          is_skip_ref, \* difftest_skip_ref has been called by the last access
          cell,      \* origin of the first byte of each device's space
          access     \* the last access

tables == <<has_ioe, max, nr, p_space, space, mmio_maps, pio_maps>>
vars == <<phase, tables, is_skip_ref, cell, access>>

Devs == DOMAIN Devices

(* How many devices the build has.                                         *)
Expected == IF has_ioe THEN Len(Devices) ELSE 1

NoAccess == [op |-> "none", dev |-> None, off |-> 0, len |-> 0, data |-> {}]

Init ==
  /\ phase = "init"
  /\ has_ioe \in BOOLEAN
  /\ max \in IoSpaceMaxes
  /\ nr = 0 /\ p_space = 0
  /\ space = [i \in Devs |-> None]
  /\ mmio_maps = <<>> /\ pio_maps = <<>>
  /\ is_skip_ref = FALSE
  /\ cell = [i \in Devs |-> "init"]
  /\ access = NoAccess

Die(skip) ==
  /\ phase' = "dead"
  /\ is_skip_ref' = skip
  /\ UNCHANGED <<tables, cell, access>>

-----------------------------------------------------------------------------
(* The start of the devices.                                               *)

(* Bugs of Rounded: down, always to another page, and not at all.          *)
RoundedDown(size) == size - (size % PAGE_SIZE)
RoundedMore(size) == size + (PAGE_SIZE - (size % PAGE_SIZE))

(* "page aligned": size + (PAGE_SIZE - 1), with PAGE_MASK's bits cleared.  *)
Rounded(size) ==
  LET s == size + PAGE_SIZE - 1 IN s - (s % PAGE_SIZE)

(* Bug of Fits: `<='.                                                      *)
FitsEqual(p) == p <= max

Fits(p) == p < max

(* Bug of Map: high is one past the end.                                   *)
MapLong(i, low) == [dev |-> i, low |-> low, high |-> low + Devices[i].len]

Map(i, low) == [dev |-> i, low |-> low, high |-> low + Devices[i].len - 1]

(* new_space, add_pio_map and add_mmio_map for the next device, as its     *)
(* init function calls them; any of their assertions may fail.             *)
init_next ==
  LET i == nr + 1
      d == Devices[i]
      end == p_space + Rounded(d.len)
  IN  /\ phase = "init"
      /\ nr < Expected
      /\ IF /\ Fits(end)
            /\ Len(mmio_maps) < NR_MAP
            /\ d.pio # None => Len(pio_maps) < NR_MAP /\ d.pio + d.len <= PORT_IO_SPACE_MAX
         THEN /\ nr' = i
              /\ space' = [space EXCEPT ![i] = p_space]
              /\ p_space' = end
              /\ mmio_maps' = Append(mmio_maps, Map(i, d.mmio))
              /\ pio_maps' = IF d.pio = None THEN pio_maps ELSE Append(pio_maps, Map(i, d.pio))
              /\ UNCHANGED <<phase, has_ioe, max, is_skip_ref, cell, access>>
         ELSE Die(FALSE)

init_done ==
  /\ phase = "init"
  /\ nr = Expected
  /\ phase' = "ready"
  /\ UNCHANGED <<tables, is_skip_ref, cell, access>>

-----------------------------------------------------------------------------
(* The devices' handlers: may the access be, and does it leave a value?    *)

HandlerAccepts(i, off, len, is_write) ==
  LET name == Devices[i].name
  IN  CASE name = "serial" -> off = 0 /\ is_write /\ len = 1
        [] name = "rtc" -> off = 0
        [] name = "keyboard" -> off = 0 /\ ~ is_write
        [] name = "screen" -> FALSE  \* vga_io_handler is a TODO
        [] OTHER -> TRUE             \* argsrom, vmem: no handler

Prepared(i, is_write) ==
  IF Devices[i].name \in {"rtc", "keyboard"} /\ ~ is_write
  THEN [cell EXCEPT ![i] = "handler"]
  ELSE cell

(* Bytes of io_space that an access of len bytes reaches.                  *)
Touched(i, off, len) == space[i] + off .. space[i] + off + len - 1

(* Devices whose first byte is among them.                                 *)
Reached(i, off, len) == {j \in 1 .. nr : space[j] \in Touched(i, off, len)}

(* Bug of map_read: the data is read before the handler prepares it.       *)
map_read_late(i, off, len) ==
  IF HandlerAccepts(i, off, len, FALSE)
  THEN /\ cell' = Prepared(i, FALSE)
       /\ access' = [op |-> "read", dev |-> i, off |-> off, len |-> len,
                     data |-> {cell[j] : j \in Reached(i, off, len)}]
       /\ UNCHANGED <<phase, tables>>
  ELSE phase' = "dead" /\ UNCHANGED <<tables, cell, access>>

map_read(i, off, len) ==
  IF HandlerAccepts(i, off, len, FALSE)
  THEN /\ cell' = Prepared(i, FALSE)
       /\ access' = [op |-> "read", dev |-> i, off |-> off, len |-> len,
                     data |-> {cell'[j] : j \in Reached(i, off, len)}]
       /\ UNCHANGED <<phase, tables>>
  ELSE phase' = "dead" /\ UNCHANGED <<tables, cell, access>>

(* The store comes before the handler, which may still refuse it.          *)
map_write(i, off, len) ==
  /\ cell' = [j \in Devs |-> IF j \in Reached(i, off, len) THEN "guest" ELSE cell[j]]
  /\ IF HandlerAccepts(i, off, len, TRUE)
     THEN /\ access' = [op |-> "write", dev |-> i, off |-> off, len |-> len, data |-> {}]
          /\ UNCHANGED <<phase, tables>>
     ELSE phase' = "dead" /\ UNCHANGED <<tables, access>>

Inside(map, addr) == map.low <= addr /\ addr <= map.high

(* find_mapid_by_addr: the first map that has the address, for which       *)
(* difftest_skip_ref is called; without one, an assertion fails            *)
(* (check_bound's, or that of the port functions).                         *)
Access(maps, op, addr, len) ==
  LET found == {k \in DOMAIN maps : Inside(maps[k], addr)}
  IN  \/ /\ found = {}
         /\ Die(FALSE)
      \/ \E k \in found :
           LET off == addr - maps[k].low
           IN  /\ \A l \in found : k <= l
               /\ is_skip_ref' = TRUE
               /\ IF op = "read" THEN map_read(maps[k].dev, off, len)
                  ELSE map_write(maps[k].dev, off, len)

-----------------------------------------------------------------------------
(* paddr_read and paddr_write: memory first, by the first byte alone.      *)
pmem_access(op, addr, len) ==
  /\ addr \in PmemLow .. PmemLow + PMEM_SIZE - 1
  /\ access' = [op |-> op, dev |-> 0, off |-> addr - PmemLow, len |-> len, data |-> {}]
  /\ is_skip_ref' = FALSE
  /\ UNCHANGED <<phase, tables, cell>>

mmio_access(op, addr, len) ==
  /\ addr \notin PmemLow .. PmemLow + PMEM_SIZE - 1
  /\ Access(mmio_maps, op, addr, len)

(* pio_read_b/w/l and pio_write_b/w/l; ports are 16 bits.                  *)
pio_access(op, addr, len) ==
  /\ addr <= PORT_IO_SPACE_MAX
  /\ IF addr + len - 1 < PORT_IO_SPACE_MAX THEN Access(pio_maps, op, addr, len)
     ELSE Die(FALSE)

Next ==
  \/ init_next \/ init_done
  \/ /\ phase = "ready"
     /\ \E op \in {"read", "write"}, addr \in Addresses, len \in {1, 2, 4} :
          pmem_access(op, addr, len) \/ mmio_access(op, addr, len) \/ pio_access(op, addr, len)

Spec == Init /\ [][Next]_vars

-----------------------------------------------------------------------------
Initialised == 1 .. nr

(* The spaces handed out lie one after another within io_space, each large *)
(* enough for its device (new_space).                                      *)
Space(i) == space[i] .. space[i] + Devices[i].len - 1
SpacesApart ==
  /\ \A i \in Initialised : Space(i) \subseteq 0 .. max - 1
  /\ \A i, j \in Initialised : i # j => Space(i) \cap Space(j) = {}

(* No access of the host leaves io_space: map_read loads four bytes        *)
(* whatever the length, wherever the access begins (map.c:35, map.c:44).   *)
InIoSpace ==
  access.dev \in Initialised =>
    Touched(access.dev, access.off, 4) \subseteq 0 .. max - 1

(* Although only the first byte of an access is checked, it reaches        *)
(* another device's registers only from the last three bytes of a device   *)
(* whose size leaves less than that of its last page (check_bound).        *)
OwnBytes ==
  LET i == access.dev
  IN  i \in Initialised =>
        /\ access.off < Devices[i].len
        /\ (\E j \in Initialised \ {i} : Touched(i, access.off, access.len) \cap Space(j) # {}) =>
             /\ access.off + access.len > Devices[i].len
             /\ Rounded(Devices[i].len) - Devices[i].len < 3

(* What is read from the clock or the keyboard is what the handler has put *)
(* there for this read, never what the guest wrote (map_read's order).     *)
FreshRead ==
  access.op = "read" /\ access.dev \in Initialised
    /\ Devices[access.dev].name \in {"rtc", "keyboard"} => access.data = {"handler"}

PagesNeeded[i \in 0 .. Len(Devices)] ==
  IF i = 0 THEN 0 ELSE PagesNeeded[i - 1] + ((Devices[i].len - 1) \div PAGE_SIZE) + 1

(* NEMU starts with all its devices when io_space has more pages than they *)
(* take (the bound is strict); the tables' eight entries are enough.       *)
StartsUp ==
  phase = "dead" /\ max > PagesNeeded[Expected] * PAGE_SIZE => nr = Expected
===============================================================================
