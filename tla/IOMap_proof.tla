------------------------------ MODULE IOMap_proof ------------------------------
(***************************************************************************)
(* Proofs about IOMap, for every list of devices, page size and size of    *)
(* io_space: the spaces lie apart, no access of the host leaves io_space,  *)
(* and one that reaches another device's bytes begins at the end of a      *)
(* device that fills its last page.                                        *)
(***************************************************************************)
EXTENDS IOMap, WellFoundedInduction, TLAPS

-----------------------------------------------------------------------------
(* Induction over an interval.                                             *)

NatLess == {ss \in Nat \X Nat : ss[1] < ss[2]}

LEMMA NatLessWellFounded == IsWellFoundedOn(NatLess, Nat)
<1>1. NatLess = OpToRel(<, Nat)
  BY DEF NatLess, OpToRel
<1>2. IsWellFoundedOn(OpToRel(<, Nat), Nat)
  BY NatLessThanWellFounded
<1>. QED  BY <1>1, <1>2, Zenon

LEMMA IntervalInduction ==
  ASSUME NEW n \in Nat, NEW S,
         n >= 1 => 1 \in S,
         \A i \in 1 .. n - 1 : i \in S => i + 1 \in S
  PROVE  1 .. n \subseteq S
<1>. DEFINE Bad == {i \in 1 .. n : i \notin S}
<1>. SUFFICES ASSUME Bad # {}  PROVE FALSE
  OBVIOUS
<1>1. Bad \in SUBSET Nat
  OBVIOUS
<1>2. PICK m \in Bad : \A k \in Bad : ~ (<<k, m>> \in NatLess)
  <2>. HIDE DEF Bad
  <2>. QED  BY <1>1, NatLessWellFounded, WFMin, Zenon
<1>3. m \in 1 .. n /\ m # 1 /\ m \notin S
  OBVIOUS
<1>4. m - 1 \in 1 .. n - 1 /\ (m - 1) + 1 = m /\ <<m - 1, m>> \in NatLess
  BY <1>3 DEF NatLess
<1>5. m - 1 \in S
  BY <1>2, <1>4
<1>. QED  BY <1>3, <1>4, <1>5

-----------------------------------------------------------------------------
(* Pages.                                                                  *)

LEMMA Division ==
  ASSUME NEW a \in Nat, NEW p \in Nat, p > 0
  PROVE  /\ a % p \in 0 .. p - 1 /\ a \div p \in Nat
         /\ a = p * (a \div p) + (a % p)
BY SMTT(20)

LEMMA MultipleMod ==
  ASSUME NEW p \in Nat, p > 0, NEW q \in Nat
  PROVE  (p * q) % p = 0
BY SMTT(20)

(* A multiple of the page size below another is a page or more below it.   *)
LEMMA NextMultiple ==
  ASSUME NEW a \in Nat, NEW b \in Nat, NEW p \in Nat, p > 0,
         a % p = 0, b % p = 0, a < b
  PROVE  a + p <= b
<1>. DEFINE q == a \div p
            r == b \div p
<1>1. q \in Nat /\ r \in Nat /\ a = p * q /\ b = p * r
  BY Division
<1>. HIDE DEF q, r
<1>2. q < r
  <2>1. SUFFICES ASSUME r <= q  PROVE FALSE
    BY <1>1
  <2>2. p * r <= p * q
    BY <1>1, <2>1, SMTT(20)
  <2>. QED  BY <1>1, <2>2
<1>3. p * (q + 1) <= p * r
  BY <1>1, <1>2, SMTT(20)
<1>4. p * (q + 1) = p * q + p
  BY <1>1, SMTT(20)
<1>. QED  BY <1>1, <1>3, <1>4

LEMMA MultipleSum ==
  ASSUME NEW a \in Nat, NEW b \in Nat, NEW p \in Nat, p > 0,
         a % p = 0, b % p = 0
  PROVE  (a + b) % p = 0
<1>. DEFINE q == a \div p
            r == b \div p
<1>1. q \in Nat /\ r \in Nat /\ a = p * q /\ b = p * r
  BY Division
<1>. HIDE DEF q, r
<1>2. p * (q + r) = p * q + p * r /\ q + r \in Nat
  BY <1>1, SMTT(20)
<1>3. (p * (q + r)) % p = 0
  BY <1>2, MultipleMod
<1>. QED  BY <1>1, <1>2, <1>3

(* new_space's rounding: whole pages, and no smaller than the size.        *)
LEMMA RoundedPages ==
  ASSUME NEW size \in Nat \ {0}
  PROVE  /\ Rounded(size) \in Nat
         /\ Rounded(size) % PAGE_SIZE = 0
         /\ size <= Rounded(size)
<1>. DEFINE s == size + PAGE_SIZE - 1
            q == s \div PAGE_SIZE
<1>1. PAGE_SIZE \in Nat /\ PAGE_SIZE > 0 /\ s \in Nat
  BY IOMapAssumption
<1>2. /\ s % PAGE_SIZE \in 0 .. PAGE_SIZE - 1 /\ q \in Nat
      /\ s = PAGE_SIZE * q + (s % PAGE_SIZE)
  BY <1>1, Division
<1>3. Rounded(size) = s - (s % PAGE_SIZE)
  BY DEF Rounded
<1>4. Rounded(size) = PAGE_SIZE * q /\ Rounded(size) \in Nat /\ size <= Rounded(size)
  <2>. HIDE DEF q
  <2>1. PAGE_SIZE * q \in Nat
    BY <1>1, <1>2, SMTT(20)
  <2>. QED  BY <1>1, <1>2, <1>3, <2>1
<1>5. (PAGE_SIZE * q) % PAGE_SIZE = 0
  BY <1>1, <1>2, MultipleMod
<1>. QED  BY <1>4, <1>5

-----------------------------------------------------------------------------
(* The inductive invariant: the spaces handed out follow one another below *)
(* p_space, itself a multiple of the page size below max; a map describes  *)
(* its device; the last access began inside a device.                      *)
End(i) == space[i] + Rounded(Devices[i].len)

Allocated ==
  /\ nr \in 0 .. Len(Devices)
  /\ p_space \in Nat /\ p_space % PAGE_SIZE = 0
  /\ max \in IoSpaceMaxes
  /\ nr > 0 => p_space < max
  /\ DOMAIN space = Devs
  /\ \A i \in Initialised : space[i] \in Nat /\ End(i) <= p_space
  /\ \A i, j \in Initialised : i < j => End(i) <= space[j]

MapsOK(maps) ==
  /\ DOMAIN maps = 1 .. Len(maps) /\ Len(maps) \in Nat
  /\ \A k \in DOMAIN maps :
       /\ maps[k].dev \in Initialised
       /\ maps[k].low \in Int
       /\ maps[k].high = maps[k].low + Devices[maps[k].dev].len - 1

Began ==
  /\ phase = "init" => access.dev = None
  /\ access.dev \in Initialised =>
       access.off \in Nat /\ access.len \in 0 .. 4 /\ access.off < Devices[access.dev].len

IInv == Allocated /\ MapsOK(mmio_maps) /\ MapsOK(pio_maps) /\ Began

LEMMA DeviceLength ==
  ASSUME NEW i \in 1 .. Len(Devices)
  PROVE  /\ i \in Devs
         /\ Devices[i].len \in Nat \ {0} /\ Devices[i].pio \in Int /\ Devices[i].mmio \in Int
<1>. DEFINE Device == [name : STRING, len : Nat \ {0}, pio : Int, mmio : Int]
<1>1. Devices \in Seq(Device)
  BY IOMapAssumption
<1>. HIDE DEF Device
<1>2. i \in Devs /\ Devices[i] \in Device
  BY <1>1 DEF Devs
<1>. QED  BY <1>2 DEF Device

LEMMA InitIInv == Init => IInv
<1>. SUFFICES ASSUME Init  PROVE IInv
  OBVIOUS
<1>1. Initialised = {}
  BY DEF Init, Initialised
<1>2. 0 % PAGE_SIZE = 0 /\ Len(Devices) \in Nat
  <2>1. (PAGE_SIZE * 0) % PAGE_SIZE = 0
    BY MultipleMod, IOMapAssumption
  <2>. QED  BY <2>1, IOMapAssumption
<1>. QED  BY <1>1, <1>2 DEF Init, IInv, Allocated, MapsOK, Began, NoAccess, None

LEMMA InitNext ==
  ASSUME IInv, init_next
  PROVE  IInv'
<1>. PICK i : i = nr + 1
  OBVIOUS
<1>. DEFINE d == Devices[i]
            end == p_space + Rounded(d.len)
<1>0. nr \in Nat /\ Len(Devices) \in Nat /\ Len(Devices) >= 1
  BY IOMapAssumption DEF IInv, Allocated
<1>1. i \in 1 .. Len(Devices) /\ Initialised = 1 .. nr
  BY <1>0 DEF init_next, Expected, Initialised
<1>2. CASE nr' = nr
  <2>1. phase' = "dead" /\ UNCHANGED <<tables, access>>
    BY <1>0, <1>2 DEF init_next, Die
  <2>. QED  BY <2>1 DEF IInv, Allocated, MapsOK, Began, tables, Initialised, End
<1>3. CASE nr' # nr
  <2>1. /\ nr' = i /\ end < max
        /\ space' = [space EXCEPT ![i] = p_space]
        /\ p_space' = end
        /\ mmio_maps' = Append(mmio_maps, Map(i, d.mmio))
        /\ pio_maps' = IF d.pio = None THEN pio_maps ELSE Append(pio_maps, Map(i, d.pio))
        /\ UNCHANGED <<max, access>>
    BY <1>3 DEF init_next, Die, tables, Fits
  <2>2. /\ i \in Devs /\ d.len \in Nat \ {0} /\ d.pio \in Int /\ d.mmio \in Int
    BY <1>1, DeviceLength
  <2>3. Rounded(d.len) \in Nat /\ Rounded(d.len) % PAGE_SIZE = 0
    BY <2>2, RoundedPages
  <2>4. end \in Nat /\ end % PAGE_SIZE = 0
    <3>1. /\ PAGE_SIZE \in Nat /\ PAGE_SIZE > 0
          /\ p_space \in Nat /\ p_space % PAGE_SIZE = 0
      BY IOMapAssumption DEF IInv, Allocated
    <3>. DEFINE r == Rounded(d.len)
    <3>2. r \in Nat /\ r % PAGE_SIZE = 0
      BY <2>3
    <3>. HIDE DEF r
    <3>3. (p_space + r) % PAGE_SIZE = 0
      BY <3>1, <3>2, MultipleSum, Zenon
    <3>4. p_space + r \in Nat
      BY <3>1, <3>2
    <3>. QED  BY <3>3, <3>4 DEF r
  <2>5. Initialised' = 1 .. i /\ Initialised \subseteq Devs /\ DOMAIN space = Devs
    BY <1>0, <1>1, <2>1, DeviceLength DEF Initialised, IInv, Allocated
  <2>6. Allocated'
    <3>1. space'[i] = p_space /\ End(i)' = end
      <4>1. space'[i] = p_space
        BY <2>1, <2>2, <2>5
      <4>. QED  BY <4>1 DEF End, Rounded
    <3>2. ASSUME NEW j \in 1 .. nr
          PROVE  /\ space'[j] = space[j] /\ End(j)' = End(j)
                 /\ space[j] \in Nat /\ End(j) <= p_space /\ End(j) \in Nat
      <4>1. space'[j] = space[j]
        BY <1>0, <1>1, <2>1, <2>5
      <4>2. Devices[j].len \in Nat \ {0}
        BY <1>0, <1>1, DeviceLength
      <4>3. Rounded(Devices[j].len) \in Nat
        BY <4>2, RoundedPages
      <4>4. space[j] \in Nat /\ End(j) <= p_space
        BY <1>1 DEF IInv, Allocated
      <4>5. End(j)' = End(j)
        BY <4>1 DEF End, Rounded
      <4>. QED  BY <4>1, <4>3, <4>4, <4>5 DEF End
    <3>3. \A j \in 1 .. i : space'[j] \in Nat /\ End(j)' <= p_space'
      <4>. SUFFICES ASSUME NEW j \in 1 .. i  PROVE space'[j] \in Nat /\ End(j)' <= p_space'
        OBVIOUS
      <4>1. CASE j = i
        BY <4>1, <3>1, <2>1, <2>4 DEF IInv, Allocated
      <4>2. CASE j # i
        <5>1. j \in 1 .. nr
          BY <4>2, <1>0
        <5>. QED  BY <5>1, <3>2, <2>1, <2>3 DEF IInv, Allocated
      <4>. QED  BY <4>1, <4>2
    <3>4. \A j, k \in 1 .. i : j < k => End(j)' <= space'[k]
      <4>. SUFFICES ASSUME NEW j \in 1 .. i, NEW k \in 1 .. i, j < k
                    PROVE  End(j)' <= space'[k]
        OBVIOUS
      <4>1. j \in 1 .. nr
        BY <1>0
      <4>2. CASE k = i
        BY <4>1, <4>2, <3>1, <3>2
      <4>3. CASE k # i
        <5>1. k \in 1 .. nr
          BY <4>3, <1>0
        <5>. QED  BY <4>1, <5>1, <3>2, <1>1 DEF IInv, Allocated
      <4>. QED  BY <4>2, <4>3
    <3>5. nr' \in 0 .. Len(Devices) /\ DOMAIN space' = Devs
      BY <1>0, <1>1, <2>1, <2>5
    <3>6. Initialised' = 1 .. i /\ max' = max /\ max \in IoSpaceMaxes /\ p_space' = end
      BY <2>1, <2>5 DEF IInv, Allocated
    <3>. QED  BY <3>3, <3>4, <3>5, <3>6, <2>1, <2>4 DEF Allocated
  <2>7. ASSUME NEW maps, MapsOK(maps), NEW low \in Int
        PROVE  /\ DOMAIN Append(maps, Map(i, low)) = 1 .. Len(maps) + 1
               /\ Len(Append(maps, Map(i, low))) = Len(maps) + 1
               /\ \A k \in 1 .. Len(maps) : Append(maps, Map(i, low))[k] = maps[k]
               /\ Append(maps, Map(i, low))[Len(maps) + 1] = Map(i, low)
    BY <2>7 DEF MapsOK, Append
  <2>8. ASSUME NEW maps, NEW maps2, MapsOK(maps), NEW low \in Int,
               maps2 = Append(maps, Map(i, low))
        PROVE  /\ DOMAIN maps2 = 1 .. Len(maps2) /\ Len(maps2) \in Nat
               /\ \A k \in DOMAIN maps2 :
                    /\ maps2[k].dev \in 1 .. i
                    /\ maps2[k].low \in Int
                    /\ maps2[k].high = maps2[k].low + Devices[maps2[k].dev].len - 1
    <3>1. /\ DOMAIN maps2 = 1 .. Len(maps) + 1 /\ Len(maps2) = Len(maps) + 1
          /\ \A k \in 1 .. Len(maps) : maps2[k] = maps[k]
          /\ maps2[Len(maps) + 1] = Map(i, low)
      BY <2>7, <2>8
    <3>2. Len(maps) \in Nat /\ \A k \in 1 .. Len(maps) :
            /\ maps[k].dev \in 1 .. nr
            /\ maps[k].low \in Int
            /\ maps[k].high = maps[k].low + Devices[maps[k].dev].len - 1
      BY <1>1, <2>8 DEF MapsOK
    <3>3. Map(i, low).dev = i /\ Map(i, low).low = low /\ Map(i, low).high = low + Devices[i].len - 1
      BY DEF Map
    <3>4. /\ DOMAIN maps2 = 1 .. Len(maps2) /\ Len(maps2) \in Nat
          /\ 1 .. nr \subseteq 1 .. i /\ i \in 1 .. i
          /\ 1 .. Len(maps) + 1 = (1 .. Len(maps)) \cup {Len(maps) + 1}
      BY <3>1, <3>2, <1>0
    <3>5. ASSUME NEW k \in 1 .. Len(maps)
          PROVE  /\ maps2[k].dev \in 1 .. i
                 /\ maps2[k].low \in Int
                 /\ maps2[k].high = maps2[k].low + Devices[maps2[k].dev].len - 1
      <4>1. maps2[k] = maps[k]
        BY <3>1
      <4>2. /\ maps[k].dev \in 1 .. nr
            /\ maps[k].low \in Int
            /\ maps[k].high = maps[k].low + Devices[maps[k].dev].len - 1
        BY <3>2
      <4>. QED  BY <4>1, <4>2, <3>4
    <3>6. /\ maps2[Len(maps) + 1].dev \in 1 .. i
          /\ maps2[Len(maps) + 1].low \in Int
          /\ maps2[Len(maps) + 1].high
               = maps2[Len(maps) + 1].low + Devices[maps2[Len(maps) + 1].dev].len - 1
      <4>. QED  BY <3>1, <3>3, <3>4
    <3>. QED  BY <3>1, <3>4, <3>5, <3>6
  <2>9. MapsOK(mmio_maps)'
    <3>1. MapsOK(mmio_maps)
      BY DEF IInv
    <3>2. /\ DOMAIN mmio_maps' = 1 .. Len(mmio_maps') /\ Len(mmio_maps') \in Nat
          /\ \A k \in DOMAIN mmio_maps' :
               /\ mmio_maps'[k].dev \in 1 .. i
               /\ mmio_maps'[k].low \in Int
               /\ mmio_maps'[k].high = mmio_maps'[k].low + Devices[mmio_maps'[k].dev].len - 1
      <4>. HIDE DEF d
      <4>1. d.mmio \in Int /\ mmio_maps' = Append(mmio_maps, Map(i, d.mmio))
        BY <2>1, <2>2
      <4>. QED  BY <3>1, <4>1, <2>8
    <3>. QED  BY <3>2, <2>5 DEF MapsOK
  <2>10. MapsOK(pio_maps)'
    <3>1. MapsOK(pio_maps)
      BY DEF IInv
    <3>2. CASE d.pio = None
      BY <3>1, <3>2, <2>1, <2>5, <1>0, <1>1 DEF MapsOK
    <3>3. CASE d.pio # None
      <4>1. pio_maps' = Append(pio_maps, Map(i, d.pio))
        BY <3>3, <2>1
      <4>2. /\ DOMAIN pio_maps' = 1 .. Len(pio_maps') /\ Len(pio_maps') \in Nat
            /\ \A k \in DOMAIN pio_maps' :
                 /\ pio_maps'[k].dev \in 1 .. i
                 /\ pio_maps'[k].low \in Int
                 /\ pio_maps'[k].high = pio_maps'[k].low + Devices[pio_maps'[k].dev].len - 1
        <5>. HIDE DEF d
        <5>1. d.pio \in Int /\ pio_maps' = Append(pio_maps, Map(i, d.pio))
          BY <4>1, <2>2
        <5>. QED  BY <3>1, <5>1, <2>8
      <4>. QED  BY <4>2, <2>5 DEF MapsOK
    <3>. QED  BY <3>2, <3>3
  <2>11. Began'
    <3>1. access.dev = None /\ access' = access
      BY <2>1 DEF IInv, Began, init_next
    <3>2. None \notin 1 .. i
      BY <1>0 DEF None
    <3>. QED  BY <3>1, <3>2, <2>5 DEF Began
  <2>. QED  BY <2>6, <2>9, <2>10, <2>11 DEF IInv
<1>. QED  BY <1>2, <1>3

(* An access through a table begins in the device of the map it finds.     *)
LEMMA AccessNext ==
  ASSUME IInv, phase = "ready", NEW maps, MapsOK(maps),
         NEW op, NEW addr \in Int, NEW len \in {1, 2, 4}, Access(maps, op, addr, len)
  PROVE  IInv'
<1>. DEFINE found == {k \in DOMAIN maps : Inside(maps[k], addr)}
<1>1. CASE Die(FALSE)
  BY <1>1 DEF Die, IInv, Allocated, MapsOK, Began, tables, Initialised, End
<1>2. CASE \E k \in found :
             \/ map_read(maps[k].dev, addr - maps[k].low, len)
             \/ map_write(maps[k].dev, addr - maps[k].low, len)
  <2>1. PICK k \in found :
             \/ map_read(maps[k].dev, addr - maps[k].low, len)
             \/ map_write(maps[k].dev, addr - maps[k].low, len)
    BY <1>2
  <2>. DEFINE i == maps[k].dev
              off == addr - maps[k].low
  <2>2. /\ i \in Initialised /\ maps[k].low \in Int
        /\ maps[k].high = maps[k].low + Devices[i].len - 1
        /\ maps[k].low <= addr /\ addr <= maps[k].high
    BY DEF MapsOK, Inside
  <2>3. i \in 1 .. Len(Devices)
    BY <2>2 DEF Initialised, IInv, Allocated
  <2>4. Devices[i].len \in Nat \ {0}
    <3>. QED  BY <2>3, DeviceLength
  <2>5. off \in Nat /\ off < Devices[i].len
    <3>. QED  BY <2>2, <2>4
  <2>6. /\ UNCHANGED tables
        /\ phase' = phase \/ phase' = "dead"
        /\ \/ access' = access
           \/ access'.dev = i /\ access'.off = off /\ access'.len = len
    <3>1. map_read(i, off, len) \/ map_write(i, off, len)
      BY <2>1
    <3>. HIDE DEF i, off
    <3>2. CASE map_read(i, off, len)
      <4>1. \/ access' = access /\ phase' = "dead" /\ UNCHANGED tables
            \/ /\ access' = [op |-> "read", dev |-> i, off |-> off, len |-> len,
                              data |-> {cell'[j] : j \in Reached(i, off, len)}]
               /\ UNCHANGED <<phase, tables>>
        BY <3>2, Zenon DEF map_read
      <4>. QED  BY <4>1
    <3>3. CASE map_write(i, off, len)
      <4>1. \/ access' = access /\ phase' = "dead" /\ UNCHANGED tables
            \/ /\ access' = [op |-> "write", dev |-> i, off |-> off, len |-> len, data |-> {}]
               /\ UNCHANGED <<phase, tables>>
        BY <3>3, Zenon DEF map_write
      <4>. QED  BY <4>1
    <3>. QED  BY <3>1, <3>2, <3>3
  <2>. HIDE DEF i, off
  <2>7. Began'
    BY <2>2, <2>5, <2>6, phase = "ready" DEF Began, IInv, tables, Initialised
  <2>. QED  BY <2>6, <2>7 DEF IInv, Allocated, MapsOK, tables, Initialised, End
<1>. QED  BY <1>1, <1>2 DEF Access

LEMMA PmemNext ==
  ASSUME IInv, phase = "ready", NEW op, NEW addr \in Int, NEW len \in {1, 2, 4},
         pmem_access(op, addr, len)
  PROVE  IInv'
<1>1. access'.dev = 0 /\ UNCHANGED <<phase, tables>>
  BY DEF pmem_access
<1>2. 0 \notin Initialised
  BY DEF Initialised
<1>. QED  BY <1>1, <1>2, phase = "ready" DEF IInv, Allocated, MapsOK, Began, tables, Initialised, End

LEMMA StepIInv ==
  ASSUME IInv, [Next]_vars
  PROVE  IInv'
<1>1. CASE init_next
  BY <1>1, InitNext
<1>2. CASE init_done
  BY <1>2 DEF init_done, IInv, Allocated, MapsOK, Began, tables, Initialised, End
<1>3. ASSUME phase = "ready",
             NEW op \in {"read", "write"}, NEW addr \in Addresses, NEW len \in {1, 2, 4},
             pmem_access(op, addr, len) \/ mmio_access(op, addr, len) \/ pio_access(op, addr, len)
      PROVE  IInv'
  <2>0. addr \in Int
    BY IOMapAssumption
  <2>1. CASE pmem_access(op, addr, len)
    BY <1>3, <2>0, <2>1, PmemNext
  <2>2. CASE mmio_access(op, addr, len)
    BY <1>3, <2>0, <2>2, AccessNext DEF mmio_access, IInv
  <2>3. CASE pio_access(op, addr, len)
    <3>1. CASE Access(pio_maps, op, addr, len)
      BY <1>3, <2>0, <3>1, AccessNext DEF IInv
    <3>2. CASE Die(FALSE)
      BY <3>2 DEF Die, IInv, Allocated, MapsOK, Began, tables, Initialised, End
    <3>. QED  BY <2>3, <3>1, <3>2 DEF pio_access
  <2>. QED  BY <1>3, <2>1, <2>2, <2>3
<1>4. CASE UNCHANGED vars
  BY <1>4 DEF vars, IInv, Allocated, MapsOK, Began, tables, Initialised, End
<1>. QED  BY <1>1, <1>2, <1>3, <1>4 DEF Next

THEOREM Inductive == Spec => []IInv
<1>1. Init => IInv
  BY InitIInv
<1>2. IInv /\ [Next]_vars => IInv'
  BY StepIInv
<1>. QED  BY <1>1, <1>2, PTL DEF Spec

-----------------------------------------------------------------------------
(* What follows from the invariant for the devices initialised.            *)
LEMMA Placed ==
  ASSUME IInv
  PROVE  /\ max \in Nat /\ max % PAGE_SIZE = 0 /\ PAGE_SIZE \in Nat /\ PAGE_SIZE >= 4
         /\ \A i \in Initialised :
              /\ i \in Nat
              /\ Devices[i].len \in Nat \ {0}
              /\ space[i] \in Nat
              /\ Rounded(Devices[i].len) \in Nat
              /\ Devices[i].len <= Rounded(Devices[i].len)
              /\ End(i) = space[i] + Rounded(Devices[i].len)
              /\ End(i) + PAGE_SIZE <= max
         /\ \A i, j \in Initialised : i < j => End(i) <= space[j]
<1>1. max \in Nat /\ max % PAGE_SIZE = 0 /\ PAGE_SIZE \in Nat /\ PAGE_SIZE >= 4
  BY IOMapAssumption DEF IInv, Allocated
<1>2. ASSUME NEW i \in Initialised
      PROVE  /\ i \in Nat /\ Devices[i].len \in Nat \ {0} /\ space[i] \in Nat
             /\ Rounded(Devices[i].len) \in Nat
             /\ Devices[i].len <= Rounded(Devices[i].len)
             /\ End(i) + PAGE_SIZE <= max
  <2>1. i \in 1 .. Len(Devices) /\ i \in Nat /\ nr > 0
    BY DEF Initialised, IInv, Allocated
  <2>2. Devices[i].len \in Nat \ {0}
    BY <2>1, DeviceLength
  <2>3. Rounded(Devices[i].len) \in Nat /\ Devices[i].len <= Rounded(Devices[i].len)
    BY <2>2, RoundedPages
  <2>4. p_space \in Nat /\ p_space % PAGE_SIZE = 0 /\ p_space < max
    BY <2>1 DEF IInv, Allocated
  <2>5. p_space + PAGE_SIZE <= max
    BY <1>1, <2>4, NextMultiple
  <2>6. space[i] \in Nat /\ End(i) <= p_space
    BY DEF IInv, Allocated
  <2>. QED  BY <1>1, <2>1, <2>2, <2>3, <2>4, <2>5, <2>6 DEF End
<1>3. \A i, j \in Initialised : i < j => End(i) <= space[j]
  BY DEF IInv, Allocated
<1>. QED  BY <1>1, <1>2, <1>3 DEF End

(* Whatever the devices and the size of io_space, every device has space   *)
(* of its own inside it (new_space).                                       *)
THEOREM SpacesCorrect == Spec => []SpacesApart
<1>1. ASSUME IInv  PROVE SpacesApart
  <2>1. ASSUME NEW i \in Initialised  PROVE Space(i) \subseteq 0 .. max - 1
    BY <1>1, Placed DEF Space
  <2>2. ASSUME NEW i \in Initialised, NEW j \in Initialised, i < j
        PROVE  Space(i) \cap Space(j) = {}
    BY <1>1, <2>2, Placed DEF Space
  <2>3. ASSUME NEW i \in Initialised, NEW j \in Initialised, i # j
        PROVE  Space(i) \cap Space(j) = {}
    <3>1. i \in Nat /\ j \in Nat
      BY <1>1, Placed
    <3>2. i < j \/ j < i
      BY <2>3, <3>1
    <3>. QED  BY <2>2, <3>2
  <2>. QED  BY <2>1, <2>3 DEF SpacesApart
<1>. QED  BY <1>1, Inductive, PTL

(* The four bytes that map_read loads lie in io_space wherever the access  *)
(* begins: new_space's bound leaves at least one page at its end.          *)
THEOREM BoundsCorrect == Spec => []InIoSpace
<1>1. ASSUME IInv  PROVE InIoSpace
  <2>. DEFINE i == access.dev
  <2>1. SUFFICES ASSUME i \in Initialised
                 PROVE  Touched(i, access.off, 4) \subseteq 0 .. max - 1
    BY DEF InIoSpace
  <2>2. access.off \in Nat /\ access.off < Devices[i].len
    BY <1>1, <2>1 DEF IInv, Began
  <2>. HIDE DEF i
  <2>. QED  BY <1>1, <2>1, <2>2, Placed DEF Touched
<1>. QED  BY <1>1, Inductive, PTL

(* An access reaches another device's bytes only from the last three of    *)
(* its own device, and only when these end the device's last page.         *)
THEOREM OwnBytesCorrect == Spec => []OwnBytes
<1>1. ASSUME IInv  PROVE OwnBytes
  <2>. DEFINE i == access.dev
  <2>1. SUFFICES ASSUME i \in Initialised
                 PROVE  /\ access.off < Devices[i].len
                        /\ (\E j \in Initialised \ {i} :
                              Touched(i, access.off, access.len) \cap Space(j) # {}) =>
                             /\ access.off + access.len > Devices[i].len
                             /\ Rounded(Devices[i].len) - Devices[i].len < 3
    BY DEF OwnBytes
  <2>2. access.off \in Nat /\ access.len \in 0 .. 4 /\ access.off < Devices[i].len
    BY <1>1, <2>1 DEF IInv, Began
  <2>. HIDE DEF i
  <2>3. ASSUME NEW j \in Initialised \ {i},
               NEW x \in Touched(i, access.off, access.len) \cap Space(j)
        PROVE  /\ access.off + access.len > Devices[i].len
               /\ Rounded(Devices[i].len) - Devices[i].len < 3
    <3>1. /\ x \in Int /\ space[i] + access.off <= x
          /\ x <= space[i] + access.off + access.len - 1
          /\ space[j] <= x /\ x <= space[j] + Devices[j].len - 1
      BY <1>1, <2>1, <2>2, Placed DEF Touched, Space
    <3>2. CASE j < i
      BY <1>1, <2>1, <2>2, <3>1, <3>2, Placed
    <3>3. CASE i < j
      BY <1>1, <2>1, <2>2, <3>1, <3>3, Placed
    <3>4. i \in Nat /\ j \in Nat /\ i # j
      BY <1>1, <2>1, Placed
    <3>. QED  BY <3>2, <3>3, <3>4
  <2>. QED  BY <2>2, <2>3
<1>. QED  BY <1>1, Inductive, PTL

-----------------------------------------------------------------------------
(* What the handlers prepare.                                              *)

(* An access that begins at a device's first byte reaches no other         *)
(* device's first byte: the spaces are a page apart.                       *)
LEMMA ReachedFirst ==
  ASSUME IInv, NEW i \in Initialised, NEW len \in {1, 2, 4}
  PROVE  Reached(i, 0, len) = {i}
<1>1. ASSUME NEW j \in Initialised  PROVE Rounded(Devices[j].len) >= 4
  <2>. DEFINE r == Rounded(Devices[j].len)
  <2>1. Devices[j].len \in Nat \ {0} /\ PAGE_SIZE \in Nat /\ PAGE_SIZE >= 4
    BY Placed
  <2>2. r \in Nat /\ r % PAGE_SIZE = 0 /\ Devices[j].len <= r
    BY <2>1, RoundedPages
  <2>. HIDE DEF r
  <2>3. 0 % PAGE_SIZE = 0
    <3>1. (PAGE_SIZE * 0) % PAGE_SIZE = 0
      BY <2>1, MultipleMod
    <3>. QED  BY <2>1, <3>1
  <2>4. 0 + PAGE_SIZE <= r
    BY <2>1, <2>2, <2>3, NextMultiple
  <2>. QED  BY <2>1, <2>2, <2>4 DEF r
<1>2. i \in Nat /\ space[i] \in Nat
  BY Placed
<1>3. space[i] \in Touched(i, 0, len)
  BY <1>2 DEF Touched
<1>4. ASSUME NEW j \in Initialised, space[j] \in Touched(i, 0, len)  PROVE j = i
  <2>1. j \in Nat /\ space[j] \in Nat /\ space[i] <= space[j] /\ space[j] < space[i] + 4
    BY <1>2, <1>4, Placed DEF Touched
  <2>2. ~ (j < i)
    BY <1>1, <1>2, <2>1, Placed
  <2>3. ~ (i < j)
    BY <1>1, <1>2, <2>1, Placed
  <2>. QED  BY <1>2, <2>1, <2>2, <2>3
<1>. QED  BY <1>3, <1>4 DEF Reached, Initialised

Fresh == DOMAIN cell = Devs /\ FreshRead

LEMMA AccessFresh ==
  ASSUME IInv, Fresh, NEW maps, MapsOK(maps),
         NEW op, NEW addr \in Int, NEW len \in {1, 2, 4}, Access(maps, op, addr, len)
  PROVE  Fresh'
<1>. DEFINE found == {k \in DOMAIN maps : Inside(maps[k], addr)}
<1>1. CASE Die(FALSE)
  BY <1>1 DEF Die, Fresh, FreshRead, tables, Initialised
<1>2. CASE \E k \in found :
             \/ map_read(maps[k].dev, addr - maps[k].low, len)
             \/ map_write(maps[k].dev, addr - maps[k].low, len)
  <2>1. PICK k \in found :
             \/ map_read(maps[k].dev, addr - maps[k].low, len)
             \/ map_write(maps[k].dev, addr - maps[k].low, len)
    BY <1>2
  <2>. DEFINE i == maps[k].dev
              off == addr - maps[k].low
  <2>2. i \in Initialised /\ i \in Devs
    BY DeviceLength DEF MapsOK, Initialised, IInv, Allocated
  <2>3. map_read(i, off, len) \/ map_write(i, off, len)
    BY <2>1
  <2>. HIDE DEF i, off
  <2>4. CASE access' = access /\ UNCHANGED tables /\ DOMAIN cell' = Devs
    BY <2>4 DEF Fresh, FreshRead, tables, Initialised
  <2>5. CASE map_write(i, off, len)
    <3>1. DOMAIN cell' = Devs /\ UNCHANGED tables /\ (access' = access \/ access'.op = "write")
      <4>1. DOMAIN cell' = Devs
        BY <2>5 DEF map_write
      <4>2. \/ access' = access /\ UNCHANGED tables
            \/ /\ access' = [op |-> "write", dev |-> i, off |-> off, len |-> len, data |-> {}]
               /\ UNCHANGED tables
        BY <2>5, Zenon DEF map_write
      <4>. QED  BY <4>1, <4>2
    <3>. QED  BY <2>4, <3>1 DEF Fresh, FreshRead
  <2>6. CASE map_read(i, off, len)
    <3>1. CASE ~ HandlerAccepts(i, off, len, FALSE)
      <4>1. UNCHANGED <<tables, cell, access>>
        BY <2>6, <3>1, Zenon DEF map_read
      <4>. QED  BY <2>4, <4>1 DEF Fresh
    <3>2. CASE HandlerAccepts(i, off, len, FALSE)
      <4>1. /\ cell' = Prepared(i, FALSE)
            /\ access' = [op |-> "read", dev |-> i, off |-> off, len |-> len,
                          data |-> {cell'[j] : j \in Reached(i, off, len)}]
            /\ UNCHANGED tables
        BY <2>6, <3>2, Zenon DEF map_read
      <4>2. DOMAIN cell' = Devs
        BY <4>1 DEF Prepared, Fresh
      <4>3. CASE Devices[i].name \notin {"rtc", "keyboard"}
        BY <4>1, <4>2, <4>3 DEF Fresh, FreshRead
      <4>4. CASE Devices[i].name \in {"rtc", "keyboard"}
        <5>1. off = 0
          BY <3>2, <4>4 DEF HandlerAccepts
        <5>2. cell'[i] = "handler"
          BY <4>1, <4>4, <2>2 DEF Prepared, Fresh
        <5>3. Reached(i, off, len) = {i}
          BY <2>2, <5>1, ReachedFirst
        <5>4. access'.data = {cell'[j] : j \in {i}}
          BY <4>1, <5>3
        <5>5. {cell'[j] : j \in {i}} = {cell'[i]}
          OBVIOUS
        <5>6. access'.data = {"handler"}
          BY <5>2, <5>4, <5>5
        <5>. QED  BY <4>2, <5>6 DEF Fresh, FreshRead
      <4>. QED  BY <4>3, <4>4
    <3>. QED  BY <3>1, <3>2
  <2>. QED  BY <2>3, <2>5, <2>6
<1>. QED  BY <1>1, <1>2 DEF Access

LEMMA StepFresh ==
  ASSUME IInv, Fresh, [Next]_vars
  PROVE  Fresh'
<1>1. CASE init_next
  <2>1. UNCHANGED <<cell, access>>
    BY <1>1 DEF init_next, Die
  <2>2. access.dev = None
    BY <1>1 DEF IInv, Began, init_next
  <2>3. None \notin Initialised'
    BY DEF Initialised, None
  <2>. QED  BY <2>1, <2>2, <2>3 DEF Fresh, FreshRead
<1>2. CASE init_done
  BY <1>2 DEF init_done, Fresh, FreshRead, tables, Initialised
<1>3. ASSUME NEW op \in {"read", "write"}, NEW addr \in Addresses, NEW len \in {1, 2, 4},
             pmem_access(op, addr, len) \/ mmio_access(op, addr, len) \/ pio_access(op, addr, len)
      PROVE  Fresh'
  <2>0. addr \in Int
    BY IOMapAssumption
  <2>1. CASE pmem_access(op, addr, len)
    <3>1. access'.dev = 0 /\ cell' = cell
      BY <2>1 DEF pmem_access
    <3>2. 0 \notin Initialised'
      BY DEF Initialised
    <3>. QED  BY <3>1, <3>2 DEF Fresh, FreshRead
  <2>2. CASE mmio_access(op, addr, len)
    BY <2>0, <2>2, AccessFresh DEF mmio_access, IInv
  <2>3. CASE pio_access(op, addr, len)
    <3>1. CASE Access(pio_maps, op, addr, len)
      BY <2>0, <3>1, AccessFresh DEF IInv
    <3>2. CASE Die(FALSE)
      BY <3>2 DEF Die, Fresh, FreshRead, tables, Initialised
    <3>. QED  BY <2>3, <3>1, <3>2 DEF pio_access
  <2>. QED  BY <1>3, <2>1, <2>2, <2>3
<1>4. CASE UNCHANGED vars
  BY <1>4 DEF vars, Fresh, FreshRead, tables, Initialised
<1>. QED  BY <1>1, <1>2, <1>3, <1>4 DEF Next

(* What the clock or the keyboard returns is what its handler put there    *)
(* for this read, whatever an access to another device has written, and    *)
(* however many bytes are read (map_read's order, new_space).              *)
THEOREM FreshCorrect == Spec => []FreshRead
<1>1. Init => Fresh
  BY DEF Init, Fresh, FreshRead, NoAccess
<1>2. IInv /\ Fresh /\ [Next]_vars => Fresh'
  BY StepFresh
<1>3. Fresh => FreshRead
  BY DEF Fresh
<1>. QED  BY <1>1, <1>2, <1>3, Inductive, PTL DEF Spec

-----------------------------------------------------------------------------
(* The pages that the devices take.                                        *)
Pages(i) == ((Devices[i].len - 1) \div PAGE_SIZE) + 1

LEMMA PagesNat ==
  ASSUME NEW i \in 1 .. Len(Devices)
  PROVE  Pages(i) \in Nat /\ Rounded(Devices[i].len) = Pages(i) * PAGE_SIZE
<1>. DEFINE a == Devices[i].len - 1
            q == a \div PAGE_SIZE
            s == Devices[i].len + PAGE_SIZE - 1
            t == s \div PAGE_SIZE
<1>0. PAGE_SIZE \in Nat /\ PAGE_SIZE > 0
  BY IOMapAssumption
<1>. DEFINE n == Devices[i].len
<1>1. PAGE_SIZE \in Nat /\ PAGE_SIZE > 0 /\ a \in Nat /\ s \in Nat /\ s = a + PAGE_SIZE
  <2>1. n \in Nat \ {0}
    BY DeviceLength
  <2>. HIDE DEF n
  <2>2. n - 1 \in Nat /\ n + PAGE_SIZE - 1 \in Nat /\ n + PAGE_SIZE - 1 = (n - 1) + PAGE_SIZE
    BY <1>0, <2>1
  <2>. QED  BY <1>0, <2>2 DEF n
<1>2. /\ a % PAGE_SIZE \in 0 .. PAGE_SIZE - 1 /\ q \in Nat
      /\ a = PAGE_SIZE * q + (a % PAGE_SIZE)
  BY <1>1, Division
<1>3. /\ s % PAGE_SIZE \in 0 .. PAGE_SIZE - 1 /\ t \in Nat
      /\ s = PAGE_SIZE * t + (s % PAGE_SIZE)
  BY <1>1, Division
<1>4. Rounded(Devices[i].len) = s - (s % PAGE_SIZE) /\ Pages(i) = q + 1
  BY DEF Rounded, Pages
<1>. HIDE DEF a, q, s, t
<1>5. PAGE_SIZE * (q + 1) = PAGE_SIZE * q + PAGE_SIZE /\ PAGE_SIZE * q \in Nat
  BY <1>1, <1>2, SMTT(20)
<1>6. t = q + 1
  <2>. DEFINE r == q + 1
  <2>1. r \in Nat /\ s = PAGE_SIZE * r + (a % PAGE_SIZE)
    BY <1>1, <1>2, <1>5
  <2>. HIDE DEF r
  <2>2. ~ (t < r)
    <3>1. t < r => PAGE_SIZE * (t + 1) <= PAGE_SIZE * r
      BY <1>1, <1>3, <2>1, SMTT(20)
    <3>2. PAGE_SIZE * (t + 1) = PAGE_SIZE * t + PAGE_SIZE /\ PAGE_SIZE * t \in Nat
      BY <1>1, <1>3, SMTT(20)
    <3>3. PAGE_SIZE * r \in Nat
      BY <1>1, <2>1, SMTT(20)
    <3>. QED  BY <1>1, <1>2, <1>3, <2>1, <3>1, <3>2, <3>3
  <2>3. ~ (r < t)
    <3>1. r < t => PAGE_SIZE * (r + 1) <= PAGE_SIZE * t
      BY <1>1, <1>3, <2>1, SMTT(20)
    <3>2. PAGE_SIZE * (r + 1) = PAGE_SIZE * r + PAGE_SIZE /\ PAGE_SIZE * r \in Nat
      BY <1>1, <2>1, SMTT(20)
    <3>3. PAGE_SIZE * t \in Nat
      BY <1>1, <1>3, SMTT(20)
    <3>. QED  BY <1>1, <1>2, <1>3, <2>1, <3>1, <3>2, <3>3
  <2>. QED  BY <1>3, <2>1, <2>2, <2>3 DEF r
<1>7. s - (s % PAGE_SIZE) = PAGE_SIZE * t
  <2>1. PAGE_SIZE * t \in Nat
    BY <1>1, <1>3, SMTT(20)
  <2>. QED  BY <1>1, <1>3, <2>1
<1>8. PAGE_SIZE * t = (q + 1) * PAGE_SIZE
  BY <1>1, <1>2, <1>6, SMTT(20)
<1>. QED  BY <1>2, <1>4, <1>7, <1>8

(* The partial sums exist, so PagesNeeded is the function it says.         *)
LEMMA SumsExist ==
  \E f \in [0 .. Len(Devices) -> Nat] :
    f[0] = 0 /\ \A i \in 1 .. Len(Devices) : f[i] = f[i - 1] + Pages(i)
<1>. DEFINE N == Len(Devices)
            Sums(f, k) == f[0] = 0 /\ \A i \in 1 .. k : f[i] = f[i - 1] + Pages(i)
            S == {k \in Nat : \E f \in [0 .. k -> Nat] : Sums(f, k)}
<1>1. N \in Nat /\ N >= 1
  BY IOMapAssumption
<1>2. \A i \in 1 .. N : Pages(i) \in Nat
  BY PagesNat
<1>. HIDE DEF N
<1>3. 1 \in S
  <2>. DEFINE f == [i \in 0 .. 1 |-> IF i = 0 THEN 0 ELSE Pages(1)]
  <2>1. f \in [0 .. 1 -> Nat] /\ f[0] = 0 /\ f[1] = Pages(1)
    BY <1>1, <1>2
  <2>. HIDE DEF f
  <2>2. \A i \in 1 .. 1 : f[i] = f[i - 1] + Pages(i)
    BY <1>1, <1>2, <2>1
  <2>. QED  BY <2>1, <2>2
<1>4. ASSUME NEW k \in 1 .. N - 1, k \in S  PROVE k + 1 \in S
  <2>1. PICK f \in [0 .. k -> Nat] : Sums(f, k)
    BY <1>4
  <2>2. Pages(k + 1) \in Nat
    BY <1>1, <1>2
  <2>. DEFINE g == [i \in 0 .. k + 1 |-> IF i <= k THEN f[i] ELSE f[k] + Pages(k + 1)]
  <2>3. g \in [0 .. k + 1 -> Nat] /\ (\A i \in 0 .. k : g[i] = f[i]) /\ g[k + 1] = f[k] + Pages(k + 1)
    BY <1>1, <2>2
  <2>. HIDE DEF g
  <2>4. ASSUME NEW i \in 1 .. k + 1  PROVE g[i] = g[i - 1] + Pages(i)
    <3>1. CASE i = k + 1
      BY <1>1, <2>3, <3>1
    <3>2. CASE i \in 1 .. k
      BY <1>1, <2>1, <2>3, <3>2
    <3>. QED  BY <1>1, <3>1, <3>2
  <2>5. g[0] = 0
    BY <1>1, <2>1, <2>3
  <2>6. Sums(g, k + 1) /\ k + 1 \in Nat
    BY <1>1, <2>4, <2>5
  <2>. HIDE DEF Sums
  <2>. QED  BY <2>3, <2>6
<1>. HIDE DEF S
<1>5. 1 .. N \subseteq S
  BY <1>1, <1>3, <1>4, IntervalInduction
<1>6. N \in S
  BY <1>1, <1>5
<1>. QED  BY <1>6 DEF S, N

LEMMA PagesNeededDef ==
  /\ PagesNeeded[0] = 0
  /\ \A i \in 1 .. Len(Devices) :
       PagesNeeded[i] = PagesNeeded[i - 1] + ((Devices[i].len - 1) \div PAGE_SIZE) + 1
<1>. DEFINE Body(f) ==
       [i \in 0 .. Len(Devices) |->
          IF i = 0 THEN 0 ELSE f[i - 1] + ((Devices[i].len - 1) \div PAGE_SIZE) + 1]
<1>0. Len(Devices) \in Nat
  BY IOMapAssumption
<1>1. PICK f \in [0 .. Len(Devices) -> Nat] :
         f[0] = 0 /\ \A i \in 1 .. Len(Devices) : f[i] = f[i - 1] + Pages(i)
  BY SumsExist
<1>2. f = Body(f)
  <2>1. ASSUME NEW i \in 0 .. Len(Devices)
        PROVE  f[i] = IF i = 0 THEN 0 ELSE f[i - 1] + ((Devices[i].len - 1) \div PAGE_SIZE) + 1
    <3>1. CASE i = 0
      BY <1>1, <3>1
    <3>2. CASE i # 0
      <4>1. i \in 1 .. Len(Devices) /\ i - 1 \in 0 .. Len(Devices)
        BY <1>0, <3>2
      <4>2. f[i] = f[i - 1] + Pages(i)
        BY <1>1, <4>1
      <4>. DEFINE d == (Devices[i].len - 1) \div PAGE_SIZE
      <4>3. f[i - 1] \in Nat /\ Pages(i) \in Nat /\ Pages(i) = d + 1
        BY <1>1, <4>1, PagesNat DEF Pages
      <4>4. d \in Int
        <5>1. Devices[i].len - 1 \in Nat
          BY <4>1, DeviceLength
        <5>2. PAGE_SIZE \in Nat /\ PAGE_SIZE > 0
          BY IOMapAssumption
        <5>. QED  BY <5>1, <5>2, Division
      <4>. HIDE DEF d
      <4>5. f[i] = f[i - 1] + d + 1
        BY <4>2, <4>3, <4>4
      <4>. QED  BY <3>2, <4>5 DEF d
    <3>. QED  BY <3>1, <3>2
  <2>. QED  BY <2>1
<1>3. PagesNeeded = CHOOSE g : g = Body(g)
  BY DEF PagesNeeded
<1>4. PagesNeeded = Body(PagesNeeded)
  BY <1>2, <1>3
<1>5. PagesNeeded[0] = 0
  BY <1>0, <1>4
<1>6. ASSUME NEW i \in 1 .. Len(Devices)
      PROVE  PagesNeeded[i] = PagesNeeded[i - 1] + ((Devices[i].len - 1) \div PAGE_SIZE) + 1
  <2>1. i \in 0 .. Len(Devices) /\ i # 0
    BY <1>0
  <2>2. PagesNeeded[i] = Body(PagesNeeded)[i]
    BY <1>4
  <2>. QED  BY <2>1, <2>2
<1>. QED  BY <1>5, <1>6, Zenon

(* More devices take more pages.                                           *)
LEMMA PagesNeededMonotonic ==
  /\ \A k \in 0 .. Len(Devices) : PagesNeeded[k] \in Nat
  /\ \A i \in 1 .. Len(Devices) : PagesNeeded[i] = PagesNeeded[i - 1] + Pages(i)
  /\ \A j, k \in 0 .. Len(Devices) : j <= k => PagesNeeded[j] <= PagesNeeded[k]
<1>. DEFINE N == Len(Devices)
            S == {k \in Nat : /\ PagesNeeded[k] \in Nat
                              /\ \A j \in 0 .. k : /\ PagesNeeded[j] \in Nat
                                                   /\ PagesNeeded[j] <= PagesNeeded[k]}
<1>1. N \in Nat /\ N >= 1
  BY IOMapAssumption
<1>2. ASSUME NEW i \in 1 .. N, PagesNeeded[i - 1] \in Nat
      PROVE  /\ PagesNeeded[i] = PagesNeeded[i - 1] + Pages(i)
             /\ PagesNeeded[i] \in Nat /\ PagesNeeded[i - 1] <= PagesNeeded[i]
  <2>. DEFINE d == (Devices[i].len - 1) \div PAGE_SIZE
              a == PagesNeeded[i - 1]
              b == PagesNeeded[i]
  <2>1. b = a + d + 1
    BY i \in 1 .. Len(Devices), PagesNeededDef, Zenon
  <2>2. Pages(i) \in Nat /\ Pages(i) = d + 1
    BY PagesNat DEF Pages
  <2>3. d \in Int
    <3>1. Devices[i].len - 1 \in Nat
      BY DeviceLength
    <3>2. PAGE_SIZE \in Nat /\ PAGE_SIZE > 0
      BY IOMapAssumption
    <3>. QED  BY <3>1, <3>2, Division
  <2>4. a \in Nat
    BY <1>2
  <2>. HIDE DEF d, a, b
  <2>5. b = a + Pages(i) /\ b \in Nat /\ a <= b
    BY <2>1, <2>2, <2>3, <2>4
  <2>. QED  BY <2>5 DEF a, b
<1>. HIDE DEF N
<1>3. 1 \in S
  <2>1. 1 \in 1 .. N /\ 1 - 1 = 0 /\ PagesNeeded[0] = 0
    BY <1>1, PagesNeededDef
  <2>2. PagesNeeded[1] \in Nat /\ PagesNeeded[0] <= PagesNeeded[1]
    BY <1>2, <2>1
  <2>3. \A j \in 0 .. 1 : PagesNeeded[j] \in Nat /\ PagesNeeded[j] <= PagesNeeded[1]
    BY <2>1, <2>2
  <2>. QED  BY <2>2, <2>3
<1>4. ASSUME NEW k \in 1 .. N - 1, k \in S  PROVE k + 1 \in S
  <2>1. PagesNeeded[k] \in Nat /\ \A j \in 0 .. k : PagesNeeded[j] \in Nat /\ PagesNeeded[j] <= PagesNeeded[k]
    BY <1>4
  <2>2. k + 1 \in 1 .. N /\ (k + 1) - 1 = k /\ k + 1 \in Nat
    BY <1>1
  <2>3. PagesNeeded[k + 1] \in Nat /\ PagesNeeded[k] <= PagesNeeded[k + 1]
    BY <1>2, <2>1, <2>2
  <2>4. ASSUME NEW j \in 0 .. k + 1
        PROVE  PagesNeeded[j] \in Nat /\ PagesNeeded[j] <= PagesNeeded[k + 1]
    <3>1. CASE j = k + 1
      BY <2>3, <3>1
    <3>2. CASE j \in 0 .. k
      BY <2>1, <2>3, <3>2
    <3>. QED  BY <3>1, <3>2
  <2>. QED  BY <2>2, <2>3, <2>4
<1>5. 1 .. N \subseteq S
  <2>. HIDE DEF S
  <2>. QED  BY <1>1, <1>3, <1>4, IntervalInduction
<1>6. \A k \in 0 .. N : PagesNeeded[k] \in Nat
  <2>1. PagesNeeded[0] \in Nat
    BY PagesNeededDef
  <2>. QED  BY <1>5, <2>1
<1>7. \A i \in 1 .. N : PagesNeeded[i] = PagesNeeded[i - 1] + Pages(i)
  BY <1>1, <1>2, <1>6
<1>8. ASSUME NEW j \in 0 .. N, NEW k \in 0 .. N, j <= k
      PROVE  PagesNeeded[j] <= PagesNeeded[k]
  <2>1. CASE k = 0
    BY <1>6, <1>8, <2>1
  <2>2. CASE k # 0
    <3>1. k \in S /\ j \in 0 .. k
      BY <1>5, <1>8, <2>2
    <3>. QED  BY <3>1
  <2>. QED  BY <2>1, <2>2
<1>. QED  BY <1>6, <1>7, <1>8 DEF N

-----------------------------------------------------------------------------
(* The space handed out is that of the devices initialised; the tables     *)
(* have no more maps than that; only an io_space too small keeps NEMU from *)
(* getting ready.                                                          *)
Counted ==
  /\ has_ioe \in BOOLEAN /\ nr \in 0 .. Expected
  /\ p_space = PagesNeeded[nr] * PAGE_SIZE
  /\ Len(mmio_maps) \in 0 .. nr /\ Len(pio_maps) \in 0 .. nr
  /\ phase \in {"init", "ready", "dead"}
  /\ phase = "ready" => nr = Expected
  /\ StartsUp

LEMMA InitCounted == Init => Counted
<1>. SUFFICES ASSUME Init  PROVE Counted
  OBVIOUS
<1>1. PagesNeeded[0] = 0 /\ 0 * PAGE_SIZE = 0
  BY PagesNeededDef, IOMapAssumption
<1>2. Len(Devices) \in Nat /\ Len(Devices) >= 1
  BY IOMapAssumption
<1>. QED  BY <1>1, <1>2 DEF Init, Counted, StartsUp, Expected

(* A device of init_device that is refused finds io_space too small.       *)
LEMMA InitNextCounted ==
  ASSUME IInv, Counted, init_next
  PROVE  Counted'
<1>. PICK i : i = nr + 1
  OBVIOUS
<1>. DEFINE d == Devices[i]
            end == p_space + Rounded(d.len)
<1>0. Len(Devices) \in Nat /\ Len(Devices) >= 1 /\ NR_MAP \in Nat /\ Len(Devices) <= NR_MAP
  BY IOMapAssumption, TablesAssumption
<1>1. /\ nr \in Nat /\ Expected \in 1 .. Len(Devices) /\ nr < Expected
      /\ i \in 1 .. Len(Devices) /\ i <= Expected /\ i - 1 = nr /\ nr \in 0 .. Len(Devices)
  BY <1>0 DEF init_next, Expected, Counted
<1>2. end = PagesNeeded[i] * PAGE_SIZE
  <2>. DEFINE a == PagesNeeded[nr]
              b == Pages(i)
  <2>1. PagesNeeded[i] = a + b /\ a \in Nat
    BY <1>1, PagesNeededMonotonic
  <2>2. b \in Nat /\ Rounded(d.len) = b * PAGE_SIZE
    BY <1>1, PagesNat
  <2>3. p_space = a * PAGE_SIZE /\ PAGE_SIZE \in Nat
    BY IOMapAssumption DEF Counted
  <2>. HIDE DEF a, b, d
  <2>4. (a + b) * PAGE_SIZE = a * PAGE_SIZE + b * PAGE_SIZE
    BY <2>1, <2>2, <2>3, SMTT(20)
  <2>. QED  BY <2>1, <2>2, <2>3, <2>4
<1>3. CASE Fits(end)
  <2>1. Len(mmio_maps) < NR_MAP /\ Len(pio_maps) < NR_MAP
    BY <1>0, <1>1 DEF Counted
  <2>2. d.pio # None => d.pio + d.len <= PORT_IO_SPACE_MAX
    BY <1>1, DeviceLength, TablesAssumption DEF Devs
  <2>3. /\ nr' = i /\ p_space' = end
        /\ mmio_maps' = Append(mmio_maps, Map(i, d.mmio))
        /\ pio_maps' = IF d.pio = None THEN pio_maps ELSE Append(pio_maps, Map(i, d.pio))
        /\ UNCHANGED <<phase, has_ioe, max>>
    BY <1>3, <2>1, <2>2 DEF init_next
  <2>4. ASSUME NEW maps, MapsOK(maps), NEW m  PROVE Len(Append(maps, m)) = Len(maps) + 1
    BY <2>4 DEF MapsOK, Append
  <2>5. Len(mmio_maps') = Len(mmio_maps) + 1
    BY <2>3, <2>4 DEF IInv
  <2>6. Len(pio_maps') \in {Len(pio_maps), Len(pio_maps) + 1}
    BY <2>3, <2>4 DEF IInv
  <2>7. Expected' = Expected /\ phase' = "init" /\ has_ioe' \in BOOLEAN
    BY <2>3 DEF Expected, init_next, Counted
  <2>8. nr' \in 0 .. Expected' /\ p_space' = PagesNeeded[nr'] * PAGE_SIZE
    BY <1>1, <1>2, <2>3, <2>7
  <2>9. Len(mmio_maps') \in 0 .. nr' /\ Len(pio_maps') \in 0 .. nr'
    BY <1>1, <2>3, <2>5, <2>6 DEF Counted
  <2>. QED  BY <2>7, <2>8, <2>9 DEF Counted, StartsUp
<1>4. CASE ~ Fits(end)
  <2>1. Die(FALSE)
    BY <1>4 DEF init_next
  <2>2. max <= PagesNeeded[Expected] * PAGE_SIZE
    <3>. DEFINE a == PagesNeeded[i]
                b == PagesNeeded[Expected]
    <3>1. a \in Nat /\ b \in Nat /\ a <= b /\ PAGE_SIZE \in Nat
      BY <1>0, <1>1, PagesNeededMonotonic, IOMapAssumption
    <3>2. max \in Nat
      BY IOMapAssumption DEF IInv, Allocated
    <3>3. end = a * PAGE_SIZE /\ ~ (end < max)
      BY <1>2, <1>4 DEF Fits
    <3>. HIDE DEF a, b, end
    <3>4. a * PAGE_SIZE <= b * PAGE_SIZE /\ a * PAGE_SIZE \in Nat /\ b * PAGE_SIZE \in Nat
      BY <3>1, SMTT(20)
    <3>5. max <= b * PAGE_SIZE
      BY <3>2, <3>3, <3>4
    <3>. QED  BY <3>5 DEF b
  <2>3. ~ (max > PagesNeeded[Expected] * PAGE_SIZE)
    <3>. DEFINE m == PagesNeeded[Expected] * PAGE_SIZE
    <3>1. m \in Nat /\ max \in Nat
      <4>1. PagesNeeded[Expected] \in Nat /\ PAGE_SIZE \in Nat
        BY <1>0, <1>1, PagesNeededMonotonic, IOMapAssumption
      <4>2. PagesNeeded[Expected] * PAGE_SIZE \in Nat
        BY <4>1, SMTT(20)
      <4>. QED  BY <4>2, IOMapAssumption DEF IInv, Allocated
    <3>2. max <= m
      BY <2>2
    <3>. HIDE DEF m
    <3>3. ~ (max > m)
      BY <3>1, <3>2
    <3>. QED  BY <3>3 DEF m
  <2>4. UNCHANGED tables /\ phase' = "dead" /\ Expected' = Expected
    BY <2>1 DEF Die, tables, Expected
  <2>. QED  BY <2>3, <2>4 DEF Counted, StartsUp, tables
<1>. QED  BY <1>3, <1>4

LEMMA StepCounted ==
  ASSUME IInv, Counted, [Next]_vars
  PROVE  Counted'
<1>1. CASE init_next
  BY <1>1, InitNextCounted
<1>2. CASE init_done
  BY <1>2 DEF init_done, Counted, StartsUp, tables, Expected
<1>3. ASSUME phase = "ready",
             NEW op \in {"read", "write"}, NEW addr \in Addresses, NEW len \in {1, 2, 4},
             pmem_access(op, addr, len) \/ mmio_access(op, addr, len) \/ pio_access(op, addr, len)
      PROVE  Counted'
  <2>1. UNCHANGED tables /\ phase' \in {phase, "dead"}
    BY <1>3, Zenon DEF pmem_access, mmio_access, pio_access, Access, Die, map_read, map_write
  <2>. QED  BY <1>3, <2>1 DEF Counted, StartsUp, tables, Expected
<1>4. CASE UNCHANGED vars
  BY <1>4 DEF vars, Counted, StartsUp, tables, Expected
<1>. QED  BY <1>1, <1>2, <1>3, <1>4 DEF Next

(* NEMU gets past init_device whenever io_space has more pages than the    *)
(* devices take, for devices that the tables can hold: a death before is   *)
(* an assertion of new_space for want of a page.                           *)
THEOREM StartsCorrect == Spec => []StartsUp
<1>1. Init => Counted
  BY InitCounted
<1>2. IInv /\ Counted /\ [Next]_vars => Counted'
  BY StepCounted
<1>3. Counted => StartsUp
  BY DEF Counted
<1>. QED  BY <1>1, <1>2, <1>3, Inductive, PTL DEF Spec
===============================================================================
