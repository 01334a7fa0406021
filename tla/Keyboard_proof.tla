--------------------------- MODULE Keyboard_proof ---------------------------
(***************************************************************************)
(* Proofs about Keyboard, for every size of the ring and every order of    *)
(* key presses, timer signals, commands and instructions: types, the order *)
(* of the events, that keys typed at the prompt are dropped, when the ring *)
(* overflows, and that the ring implements KeyFifo.                        *)
(***************************************************************************)
EXTENDS Keyboard, SequenceTheorems, TLAPS

-----------------------------------------------------------------------------
(* The ring.                                                               *)

Key == EventOf(Mapped)
Index == 0 .. LEN - 1

RingType ==
  /\ key_queue \in [Index -> Key \cup {NoEvent}]
  /\ key_f \in Index /\ key_r \in Index
  /\ Ring \in Seq(Key)

LEMMA LenFacts == LEN \in Nat /\ LEN > 1 /\ 0 \in Index
  BY KeyboardAssumption DEF Index

(* One step forward in the ring.                                           *)
LEMMA SuccValue ==
  ASSUME NEW i \in Index
  PROVE  /\ Succ(i) = IF i + 1 = LEN THEN 0 ELSE i + 1
         /\ Succ(i) \in Index
<1>1. CASE i + 1 = LEN
  BY <1>1, LenFacts DEF Succ, Index
<1>2. CASE i + 1 < LEN
  BY <1>2, LenFacts DEF Succ, Index
<1>. QED  BY <1>1, <1>2, LenFacts DEF Index

(* Where the events of the ring are.                                       *)
LEMMA SlotFacts ==
  ASSUME RingType
  PROVE  /\ Count \in 0 .. LEN - 1
         /\ Len(Ring) = Count
         /\ \A i \in 1 .. LEN : Slot(i) \in Index
         /\ \A i \in 1 .. Count : Ring[i] = key_queue[Slot(i)]
<1>1. Count \in 0 .. LEN - 1
  BY LenFacts DEF RingType, Count, Index
<1>2. Len(Ring) = Count
  <2>1. DOMAIN Ring = 1 .. Count /\ DOMAIN Ring = 1 .. Len(Ring) /\ Len(Ring) \in Nat
    BY LenProperties DEF RingType, Ring
  <2>. QED  BY <1>1, <2>1
<1>3. \A i \in 1 .. LEN : Slot(i) \in Index
  BY LenFacts DEF RingType, Slot, Index
<1>. QED  BY <1>1, <1>2, <1>3 DEF Ring

LEMMA RingFrame == ASSUME UNCHANGED ringVars PROVE Ring' = Ring
  BY DEF ringVars, Ring, Count, Slot

(* Storing an event behind the last one.                                   *)
LEMMA RingPut ==
  ASSUME RingType, ~ Overflow, NEW e \in Key,
         key_queue' = [key_queue EXCEPT ![key_r] = e],
         key_r' = Succ(key_r), key_f' = key_f
  PROVE  /\ Ring' = Append(Ring, e)
         /\ RingType'
         /\ Len(Ring) < LEN - 1
<1>1. /\ LEN \in Nat /\ LEN > 1
      /\ key_f \in Index /\ key_r \in Index /\ key_r' \in Index
      /\ key_r' = IF key_r + 1 = LEN THEN 0 ELSE key_r + 1
      /\ key_r' # key_f
  BY LenFacts, SuccValue DEF RingType, Overflow
<1>2. /\ Count' = Count + 1
      /\ Count + 1 \in 1 .. LEN - 1
      /\ Slot(Count + 1) = key_r
  BY <1>1 DEF Count, Slot, Index
<1>3. \A i \in 1 .. Count : Slot(i) # key_r
  BY <1>1, <1>2 DEF Count, Slot, Index
<1>4. \A i : Slot(i)' = Slot(i)
  BY DEF Slot
<1>5. \A i \in 1 .. Count + 1 :
         key_queue'[Slot(i)] = IF i = Count + 1 THEN e ELSE Ring[i]
  <2>. SUFFICES ASSUME NEW i \in 1 .. Count + 1
                PROVE  key_queue'[Slot(i)] = IF i = Count + 1 THEN e ELSE Ring[i]
    OBVIOUS
  <2>. Count \in Nat /\ i \in 1 .. LEN
    BY <1>1, <1>2, SlotFacts
  <2>1. Slot(i) \in Index /\ DOMAIN key_queue = Index
    BY SlotFacts DEF RingType
  <2>2. CASE i = Count + 1
    BY <1>2, <2>1, <2>2
  <2>3. CASE i # Count + 1
    <3>1. i \in 1 .. Count
      BY <2>3
    <3>2. Slot(i) # key_r /\ Ring[i] = key_queue[Slot(i)]
      BY <1>3, <3>1, SlotFacts
    <3>. QED  BY <2>1, <2>3, <3>2
  <2>. QED  BY <2>2, <2>3
<1>6. /\ Append(Ring, e) \in Seq(Key)
      /\ Len(Append(Ring, e)) = Count + 1
      /\ \A i \in 1 .. Count + 1 : Append(Ring, e)[i] = IF i = Count + 1 THEN e ELSE Ring[i]
  <2>1. Ring \in Seq(Key) /\ Len(Ring) = Count /\ Count \in Nat
    BY SlotFacts DEF RingType
  <2>. QED  BY <2>1, AppendProperties
<1>7. Ring' = [i \in 1 .. Count + 1 |-> key_queue'[Slot(i)]]
  BY <1>2, <1>4 DEF Ring
<1>8. Append(Ring, e) = [i \in 1 .. Count + 1 |-> Append(Ring, e)[i]]
  <2>1. DOMAIN Append(Ring, e) = 1 .. Count + 1
        /\ Append(Ring, e) \in [1 .. Count + 1 -> Key]
    BY <1>6, LenProperties
  <2>. QED  BY <2>1
<1>9. Ring' = Append(Ring, e)
  BY <1>5, <1>6, <1>7, <1>8
<1>10. key_queue' \in [Index -> Key \cup {NoEvent}]
  BY <1>1 DEF RingType
<1>. QED  BY <1>1, <1>2, <1>6, <1>9, <1>10, SlotFacts DEF RingType

(* Taking the oldest event.                                                *)
LEMMA RingGet ==
  ASSUME RingType, key_f # key_r,
         key_f' = Succ(key_f), UNCHANGED <<key_queue, key_r>>
  PROVE  /\ Ring # <<>>
         /\ key_queue[key_f] = Head(Ring)
         /\ Ring' = Tail(Ring)
         /\ RingType'
<1>1. /\ LEN \in Nat /\ LEN > 1
      /\ key_f \in Index /\ key_r \in Index /\ key_f' \in Index
      /\ key_f' = IF key_f + 1 = LEN THEN 0 ELSE key_f + 1
  BY LenFacts, SuccValue DEF RingType
<1>2. Count' = Count - 1 /\ Count \in 1 .. LEN - 1 /\ Slot(1) = key_f
  BY <1>1 DEF Count, Slot, Index
<1>3. \A i \in 1 .. Count - 1 : Slot(i)' = Slot(i + 1)
  BY <1>1, <1>2 DEF Count, Slot, Index
<1>4. Ring \in Seq(Key) /\ Ring # <<>> /\ Ring[1] = key_queue[key_f]
  <2>1. Ring \in Seq(Key) /\ Len(Ring) = Count
    BY SlotFacts DEF RingType
  <2>. QED  BY <1>2, <2>1, SlotFacts, EmptySeq
<1>5. /\ Tail(Ring) \in Seq(Key)
      /\ Len(Tail(Ring)) = Count - 1
      /\ \A i \in 1 .. Count - 1 : Tail(Ring)[i] = Ring[i + 1]
  <2>1. Len(Ring) = Count
    BY SlotFacts
  <2>. QED  BY <1>2, <1>4, <2>1, HeadTailProperties
<1>6. \A i \in 1 .. Count - 1 : Tail(Ring)[i] = key_queue[Slot(i)']
  BY <1>2, <1>3, <1>5, SlotFacts
<1>7. Ring' = [i \in 1 .. Count - 1 |-> key_queue[Slot(i)']]
  BY <1>2 DEF Ring
<1>8. Tail(Ring) = [i \in 1 .. Count - 1 |-> Tail(Ring)[i]]
  <2>1. DOMAIN Tail(Ring) = 1 .. Count - 1 /\ Tail(Ring) \in [1 .. Count - 1 -> Key]
    BY <1>5, LenProperties
  <2>. QED  BY <2>1
<1>9. Ring' = Tail(Ring)
  BY <1>6, <1>7, <1>8
<1>. QED  BY <1>1, <1>4, <1>5, <1>9 DEF RingType

-----------------------------------------------------------------------------
(* The order of the events.                                                *)

Waits == EventOf(Scancodes \cup {Quit})
AnyEvent == EventOf(Mapped \cup Scancodes \cup {Quit})

(* InOrder, said of a ring r, a queue s and the last event read l.         *)
Ordered(r, s, l) ==
  /\ Ascending(r \o s)
  /\ \A i \in 1 .. Len(r \o s) : l < (r \o s)[i].id

(* The same without the concatenation, and with m as a bound.              *)
Apart(r, s, l, m) ==
  /\ Ascending(r) /\ Ascending(s)
  /\ \A i \in 1 .. Len(r), j \in 1 .. Len(s) : r[i].id < s[j].id
  /\ \A i \in 1 .. Len(r) : l < r[i].id /\ r[i].id <= m
  /\ \A j \in 1 .. Len(s) : l < s[j].id /\ s[j].id <= m
  /\ l <= m

LEMMA ApartIsOrdered ==
  ASSUME NEW r \in Seq(Key), NEW s \in Seq(Waits), NEW l, NEW m,
         Apart(r, s, l, m)
  PROVE  Ordered(r, s, l)
<1>1. r \in Seq(AnyEvent) /\ s \in Seq(AnyEvent)
  <2>1. Key \subseteq AnyEvent /\ Waits \subseteq AnyEvent
    BY DEF Key, Waits, AnyEvent, EventOf
  <2>. QED  BY <2>1, SeqMonotonic
<1>2. /\ Len(r \o s) = Len(r) + Len(s)
      /\ \A i \in 1 .. Len(r) + Len(s) :
            (r \o s)[i] = IF i <= Len(r) THEN r[i] ELSE s[i - Len(r)]
      /\ Len(r) \in Nat /\ Len(s) \in Nat
  BY <1>1, ConcatProperties, LenProperties
<1>3. ASSUME NEW i \in 1 .. Len(r) + Len(s), NEW j \in 1 .. Len(r) + Len(s), i < j
      PROVE  (r \o s)[i].id < (r \o s)[j].id
  <2>1. CASE j <= Len(r)
    <3>1. i \in 1 .. Len(r) /\ j \in 1 .. Len(r) /\ i <= Len(r)
      BY <1>2, <1>3, <2>1
    <3>. QED  BY <1>2, <1>3, <2>1, <3>1 DEF Apart, Ascending
  <2>2. CASE i <= Len(r) /\ ~ (j <= Len(r))
    <3>1. i \in 1 .. Len(r) /\ j - Len(r) \in 1 .. Len(s)
      BY <1>2, <2>2
    <3>. QED  BY <1>2, <2>2, <3>1 DEF Apart
  <2>3. CASE ~ (i <= Len(r)) /\ ~ (j <= Len(r))
    <3>1. /\ i - Len(r) \in 1 .. Len(s) /\ j - Len(r) \in 1 .. Len(s)
          /\ i - Len(r) < j - Len(r)
      BY <1>2, <1>3, <2>3
    <3>. QED  BY <1>2, <2>3, <3>1 DEF Apart, Ascending
  <2>. QED  BY <1>2, <1>3, <2>1, <2>2, <2>3
<1>4. ASSUME NEW i \in 1 .. Len(r) + Len(s)  PROVE l < (r \o s)[i].id
  <2>1. CASE i <= Len(r)
    BY <1>2, <2>1 DEF Apart
  <2>2. CASE ~ (i <= Len(r))
    <3>1. i - Len(r) \in 1 .. Len(s)
      BY <1>2, <2>2
    <3>. QED  BY <1>2, <2>2, <3>1 DEF Apart
  <2>. QED  BY <2>1, <2>2
<1>. QED  BY <1>2, <1>3, <1>4 DEF Ordered, Ascending

(* A new event goes behind all others.                                     *)
LEMMA ApartPress ==
  ASSUME NEW r \in Seq(Key), NEW s \in Seq(Waits), NEW l \in Nat, NEW m \in Nat,
         Apart(r, s, l, m), NEW e \in Waits, e.id = m + 1
  PROVE  Apart(r, Append(s, e), l, m + 1)
<1>1. /\ Len(Append(s, e)) = Len(s) + 1 /\ Len(s) \in Nat
      /\ \A j \in 1 .. Len(s) : Append(s, e)[j] = s[j]
      /\ Append(s, e)[Len(s) + 1] = e
  BY AppendProperties, LenProperties
<1>2. /\ \A i \in 1 .. Len(r) : r[i].id \in Nat
      /\ \A j \in 1 .. Len(s) : s[j].id \in Nat
  <2>1. (\A i \in 1 .. Len(r) : r[i] \in Key) /\ (\A j \in 1 .. Len(s) : s[j] \in Waits)
    BY ElementOfSeq
  <2>. QED  BY <2>1 DEF Key, Waits, EventOf
<1>3. ASSUME NEW j \in 1 .. Len(s) + 1, j \notin 1 .. Len(s)  PROVE j = Len(s) + 1
  BY <1>1, <1>3
<1>4. ASSUME NEW j \in 1 .. Len(s) + 1
      PROVE  /\ l < Append(s, e)[j].id /\ Append(s, e)[j].id <= m + 1
             /\ \A i \in 1 .. Len(r) : r[i].id < Append(s, e)[j].id
             /\ \A i \in 1 .. Len(s) : i < j => Append(s, e)[i].id < Append(s, e)[j].id
  <2>1. CASE j \in 1 .. Len(s)
    BY <1>1, <1>2, <2>1 DEF Apart, Ascending
  <2>2. CASE j \notin 1 .. Len(s)
    <3>1. Append(s, e)[j].id = m + 1
      BY <1>1, <1>3, <2>2
    <3>. QED  BY <1>1, <1>2, <3>1 DEF Apart
  <2>. QED  BY <2>1, <2>2
<1>5. Ascending(Append(s, e))
  <2>. SUFFICES ASSUME NEW i \in 1 .. Len(s) + 1, NEW j \in 1 .. Len(s) + 1, i < j
                PROVE  Append(s, e)[i].id < Append(s, e)[j].id
    BY <1>1 DEF Ascending
  <2>1. i \in 1 .. Len(s)
    BY <1>1
  <2>. QED  BY <1>4, <2>1
<1>6. l <= m + 1 /\ \A i \in 1 .. Len(r) : l < r[i].id /\ r[i].id <= m + 1
  BY <1>2 DEF Apart
<1>7. Ascending(r)
  BY DEF Apart
<1>8. \A j \in 1 .. Len(Append(s, e)) : j \in 1 .. Len(s) + 1
  BY <1>1
<1>. QED  BY <1>4, <1>5, <1>6, <1>7, <1>8 DEF Apart

(* The first event of SDL's queue goes away.                               *)
LEMMA ApartTail ==
  ASSUME NEW r \in Seq(Key), NEW s \in Seq(Waits), NEW l, NEW m,
         Apart(r, s, l, m), s # <<>>
  PROVE  Apart(r, Tail(s), l, m)
<1>1. /\ Len(Tail(s)) = Len(s) - 1 /\ Len(s) \in Nat
      /\ \A j \in 1 .. Len(s) - 1 : Tail(s)[j] = s[j + 1] /\ j + 1 \in 1 .. Len(s)
  BY HeadTailProperties, LenProperties
<1>2. Ascending(Tail(s))
  BY <1>1 DEF Apart, Ascending
<1>. QED  BY <1>1, <1>2 DEF Apart

(* It moves to the end of the ring.                                        *)
LEMMA ApartMove ==
  ASSUME NEW r \in Seq(Key), NEW s \in Seq(Waits), NEW l \in Nat, NEW m \in Nat,
         Apart(r, s, l, m), s # <<>>, NEW e \in Key, e.id = Head(s).id
  PROVE  Apart(Append(r, e), Tail(s), l, m)
<1>1. /\ Len(Append(r, e)) = Len(r) + 1 /\ Len(r) \in Nat
      /\ \A i \in 1 .. Len(r) : Append(r, e)[i] = r[i]
      /\ Append(r, e)[Len(r) + 1] = e
  BY AppendProperties, LenProperties
<1>2. /\ Len(Tail(s)) = Len(s) - 1 /\ Len(s) \in Nat \ {0} /\ Head(s) = s[1]
      /\ \A j \in 1 .. Len(s) - 1 : Tail(s)[j] = s[j + 1] /\ j + 1 \in 1 .. Len(s)
                                   /\ 1 < j + 1
  BY HeadTailProperties, LenProperties, EmptySeq
<1>3. ASSUME NEW i \in 1 .. Len(r) + 1, i \notin 1 .. Len(r)  PROVE i = Len(r) + 1
  BY <1>1, <1>3
<1>4. 1 \in 1 .. Len(s) /\ e.id = s[1].id
  BY <1>2
<1>5. ASSUME NEW i \in 1 .. Len(r) + 1
      PROVE  /\ l < Append(r, e)[i].id /\ Append(r, e)[i].id <= m
             /\ \A j \in 1 .. Len(s) - 1 : Append(r, e)[i].id < Tail(s)[j].id
             /\ \A k \in 1 .. Len(r) : k < i => Append(r, e)[k].id < Append(r, e)[i].id
  <2>1. CASE i \in 1 .. Len(r)
    BY <1>1, <1>2, <2>1 DEF Apart, Ascending
  <2>2. CASE i \notin 1 .. Len(r)
    <3>1. Append(r, e)[i].id = s[1].id
      BY <1>1, <1>3, <1>4, <2>2
    <3>. QED  BY <1>1, <1>2, <1>4, <3>1 DEF Apart, Ascending
  <2>. QED  BY <2>1, <2>2
<1>6. Ascending(Append(r, e))
  <2>. SUFFICES ASSUME NEW k \in 1 .. Len(r) + 1, NEW i \in 1 .. Len(r) + 1, k < i
                PROVE  Append(r, e)[k].id < Append(r, e)[i].id
    BY <1>1 DEF Ascending
  <2>1. k \in 1 .. Len(r)
    BY <1>1
  <2>. QED  BY <1>5, <2>1
<1>7. Apart(r, Tail(s), l, m)
  BY ApartTail
<1>. QED  BY <1>1, <1>2, <1>5, <1>6, <1>7 DEF Apart

(* The oldest event of the ring is read.                                   *)
LEMMA ApartRead ==
  ASSUME NEW r \in Seq(Key), NEW s \in Seq(Waits), NEW l, NEW m,
         Apart(r, s, l, m), r # <<>>
  PROVE  Apart(Tail(r), s, Head(r).id, m)
<1>1. /\ Len(Tail(r)) = Len(r) - 1 /\ Len(r) \in Nat \ {0} /\ Head(r) = r[1]
      /\ \A i \in 1 .. Len(r) - 1 : Tail(r)[i] = r[i + 1] /\ i + 1 \in 1 .. Len(r)
                                   /\ 1 < i + 1
      /\ 1 \in 1 .. Len(r)
  BY HeadTailProperties, LenProperties, EmptySeq
<1>2. Ascending(Tail(r))
  BY <1>1 DEF Apart, Ascending
<1>. QED  BY <1>1, <1>2 DEF Apart, Ascending

(* SDL's queue is emptied.                                                 *)
LEMMA ApartClear ==
  ASSUME NEW r, NEW s, NEW l, NEW m, Apart(r, s, l, m)
  PROVE  Apart(r, <<>>, l, m)
BY DEF Apart, Ascending

-----------------------------------------------------------------------------
(* The inductive invariant: OrderInv bounds the events' numbers by the     *)
(* number of presses, and IdleInv says that SDL's queue holds no event     *)
(* from the prompt once a command runs.                                    *)

CtlType ==
  /\ phase \in {"prompt", "call", "exec", "post", "update", "clear", "poll", "loop",
                "exited", "dead"}
  /\ cause \in {"none", "i8042", "overflow"}
  /\ state \in {"STOP", "RUNNING", "END"}
  /\ n \in {"once", "forever"}
  /\ armed \in BOOLEAN /\ device_update_flag \in BOOLEAN

DataType ==
  /\ RingType
  /\ sdl \in Seq(Waits)
  /\ presses \in 0 .. MaxPress
  /\ port \in Key \cup {NoEvent}
  /\ seen \in 0 .. MaxPress

OrderInv == Apart(Ring, sdl, seen, presses)

Away == {"prompt", "exited", "dead"}
IdleInv == phase \notin Away => \A i \in 1 .. Len(sdl) : ~ sdl[i].idle

(* Only a dead process has a cause.                                        *)
CauseInv == cause # "none" => phase = "dead"

DataInv == DataType /\ OrderInv /\ PromptKeysDropped

IInv == CtlType /\ DataInv /\ IdleInv /\ CauseInv /\ OverflowOnlyWhenFull

LEMMA TypeOKSplit == TypeOK <=> CtlType /\ DataType
  BY DEF TypeOK, CtlType, DataType, RingType, Key, Waits, Index

LEMMA InitInv == Init => IInv
<1>. SUFFICES ASSUME Init  PROVE IInv
  OBVIOUS
<1>1. MaxPress \in Nat /\ LEN \in Nat /\ 0 \in Index
  BY KeyboardAssumption, LenFacts
<1>2. Ring = <<>>
  <2>1. Count = 0
    BY DEF Init, Count
  <2>. QED  BY <2>1 DEF Ring
<1>3. RingType
  BY <1>1, <1>2, EmptySeq DEF Init, RingType, Index
<1>4. DataType
  BY <1>1, <1>3, EmptySeq DEF Init, DataType
<1>5. OrderInv
  BY <1>1, <1>2, EmptySeq DEF Init, OrderInv, Apart, Ascending
<1>6. CtlType /\ IdleInv /\ CauseInv /\ PromptKeysDropped /\ OverflowOnlyWhenFull
  <2>1. CtlType /\ IdleInv /\ CauseInv /\ OverflowOnlyWhenFull
    BY DEF Init, CtlType, IdleInv, Away, CauseInv, OverflowOnlyWhenFull
  <2>2. Len(Ring) = 0
    BY <1>2, EmptySeq
  <2>. QED  BY <2>1, <2>2 DEF PromptKeysDropped
<1>. QED  BY <1>4, <1>5, <1>6 DEF IInv, DataInv

-----------------------------------------------------------------------------
(* The parts of a step.                                                    *)

(* A step that leaves the events alone.                                    *)
LEMMA QuietData ==
  ASSUME DataInv, UNCHANGED <<sdlVars, ringVars, guestVars>>
  PROVE  DataInv' /\ Ring' = Ring
<1>1. Ring' = Ring
  BY RingFrame
<1>2. UNCHANGED <<sdl, presses, key_queue, key_f, key_r, port, seen>>
  BY DEF sdlVars, ringVars, guestVars
<1>3. DataType'
  BY <1>1, <1>2 DEF DataInv, DataType, RingType
<1>4. OrderInv'
  BY <1>1, <1>2 DEF DataInv, OrderInv
<1>5. PromptKeysDropped'
  BY <1>1 DEF DataInv, PromptKeysDropped
<1>. QED  BY <1>1, <1>3, <1>4, <1>5 DEF DataInv

(* SDL's queue is emptied or left alone, the rest is.                      *)
LEMMA ClearData ==
  ASSUME DataInv, ClearEvents, UNCHANGED <<ringVars, guestVars>>
  PROVE  DataInv'
<1>1. Ring' = Ring
  BY RingFrame
<1>2. sdl' = <<>> /\ UNCHANGED <<presses, key_queue, key_f, key_r, port, seen>>
  BY DEF ClearEvents, ringVars, guestVars
<1>3. DataType'
  BY <1>1, <1>2, EmptySeq DEF DataInv, DataType, RingType
<1>4. OrderInv'
  BY <1>1, <1>2, ApartClear DEF DataInv, OrderInv
<1>5. PromptKeysDropped'
  BY <1>1 DEF DataInv, PromptKeysDropped
<1>. QED  BY <1>3, <1>4, <1>5 DEF DataInv

(* A read of the port, with SDL's queue emptied or left alone.             *)
LEMMA ReadData ==
  ASSUME DataInv, i8042_data_io_handler, ClearEvents \/ UNCHANGED sdlVars
  PROVE  DataInv'
<1>1. CASE key_f = key_r
  <2>1. port' = NoEvent /\ UNCHANGED <<seen, ringVars>>
    BY <1>1 DEF i8042_data_io_handler
  <2>2. Ring' = Ring
    BY <2>1, RingFrame
  <2>3. (sdl' = <<>> \/ sdl' = sdl) /\ presses' = presses
    BY DEF ClearEvents, sdlVars
  <2>4. DataType'
    BY <2>1, <2>2, <2>3, EmptySeq DEF DataInv, DataType, RingType, ringVars
  <2>5. OrderInv'
    BY <2>1, <2>2, <2>3, ApartClear DEF DataInv, OrderInv
  <2>6. PromptKeysDropped'
    BY <2>2 DEF DataInv, PromptKeysDropped
  <2>. QED  BY <2>4, <2>5, <2>6 DEF DataInv
<1>2. CASE key_f # key_r
  <2>1. /\ key_f' = Succ(key_f) /\ UNCHANGED <<key_queue, key_r>>
        /\ port' = key_queue[key_f] /\ seen' = key_queue[key_f].id
    BY <1>2 DEF i8042_data_io_handler
  <2>2. /\ Ring # <<>> /\ key_queue[key_f] = Head(Ring) /\ Ring' = Tail(Ring)
        /\ RingType'
    BY <1>2, <2>1, RingGet DEF DataInv, DataType
  <2>3. /\ Ring \in Seq(Key) /\ Head(Ring) \in Key /\ Len(Tail(Ring)) = Len(Ring) - 1
        /\ Len(Ring) \in Nat
        /\ \A i \in 1 .. Len(Tail(Ring)) : Tail(Ring)[i] = Ring[i + 1]
    BY <2>2, HeadTailProperties, LenProperties DEF DataInv, DataType, RingType
  <2>4. (sdl' = <<>> \/ sdl' = sdl) /\ presses' = presses
    BY DEF ClearEvents, sdlVars
  <2>5. DataType'
    <3>1. Head(Ring).id \in 0 .. MaxPress
      BY <2>3, KeyboardAssumption DEF Key, EventOf
    <3>. QED  BY <2>1, <2>2, <2>3, <2>4, <3>1, EmptySeq DEF DataInv, DataType
  <2>6. OrderInv'
    <3>1. Apart(Tail(Ring), sdl, Head(Ring).id, presses)
      BY <2>2, <2>3, ApartRead DEF DataInv, DataType, OrderInv
    <3>2. Apart(Tail(Ring), <<>>, Head(Ring).id, presses)
      BY <3>1, ApartClear
    <3>. QED  BY <2>1, <2>2, <2>4, <3>1, <3>2 DEF OrderInv
  <2>7. PromptKeysDropped'
    <3>1. \A i \in 1 .. Len(Tail(Ring)) : i + 1 \in 1 .. Len(Ring)
      BY <2>3
    <3>. QED  BY <2>2, <2>3, <3>1 DEF DataInv, PromptKeysDropped
  <2>. QED  BY <2>5, <2>6, <2>7 DEF DataInv
<1>. QED  BY <1>1, <1>2

(* The first event leaves SDL's queue.                                     *)
LEMMA TakenData ==
  ASSUME DataInv, Polled, Taken, UNCHANGED <<ringVars, guestVars>>
  PROVE  DataInv'
<1>1. Ring' = Ring
  BY RingFrame
<1>2. sdl # <<>> /\ sdl' = Tail(sdl)
      /\ UNCHANGED <<presses, key_queue, key_f, key_r, port, seen>>
  BY DEF Polled, Taken, ringVars, guestVars
<1>3. DataType'
  BY <1>1, <1>2, HeadTailProperties DEF DataInv, DataType, RingType
<1>4. OrderInv'
  BY <1>1, <1>2, ApartTail DEF DataInv, OrderInv, DataType, RingType
<1>5. PromptKeysDropped'
  BY <1>1 DEF DataInv, PromptKeysDropped
<1>. QED  BY <1>3, <1>4, <1>5 DEF DataInv

(* What remains in SDL's queue after the first has left was there before.  *)
LEMMA TakenIdle ==
  ASSUME DataInv, IdleInv, Polled, Taken, phase' \in {phase, "exited"}
  PROVE  IdleInv'
<1>1. /\ sdl \in Seq(Waits) /\ sdl # <<>> /\ sdl' = Tail(sdl) /\ phase \notin Away
  BY DEF DataInv, DataType, Polled, Taken, Away
<1>2. /\ Len(Tail(sdl)) = Len(sdl) - 1 /\ Len(sdl) \in Nat
      /\ \A i \in 1 .. Len(Tail(sdl)) : Tail(sdl)[i] = sdl[i + 1]
  BY <1>1, HeadTailProperties, LenProperties
<1>3. \A i \in 1 .. Len(Tail(sdl)) : i + 1 \in 1 .. Len(sdl)
  BY <1>2
<1>. QED  BY <1>1, <1>2, <1>3 DEF IdleInv

-----------------------------------------------------------------------------
(* The actions.                                                            *)

(* The full ring at the Assert: one slot is unused.                        *)
LEMMA OverflowFull == ASSUME RingType, Overflow PROVE Len(Ring) = LEN - 1
<1>1. /\ LEN \in Nat /\ LEN > 1
      /\ key_f \in Index /\ key_r \in Index
      /\ key_f = IF key_r + 1 = LEN THEN 0 ELSE key_r + 1
  BY LenFacts, SuccValue DEF RingType, Overflow
<1>2. Count = LEN - 1
  BY <1>1 DEF Count, Index
<1>. QED  BY <1>2, SlotFacts

LEMMA DieInv ==
  ASSUME IInv, NEW where \in {"i8042", "overflow"}, Die(where),
         where = "overflow" => Overflow
  PROVE  IInv'
<1>1. DataInv' /\ Ring' = Ring
  BY QuietData DEF Die, IInv
<1>2. CtlType'
  BY DEF Die, IInv, CtlType, timerVars
<1>3. IdleInv' /\ CauseInv'
  BY DEF Die, IdleInv, CauseInv, Away
<1>4. OverflowOnlyWhenFull'
  BY <1>1, OverflowFull DEF Die, IInv, DataInv, DataType, OverflowOnlyWhenFull
<1>. QED  BY <1>1, <1>2, <1>3, <1>4 DEF IInv

LEMMA PressInv ==
  ASSUME IInv, NEW code \in Scancodes \cup {Quit}, Press(code)
  PROVE  IInv'
<1>. DEFINE e == [id |-> presses + 1, code |-> code, idle |-> phase = "prompt"]
<1>1. /\ presses \in Nat /\ presses + 1 \in 1 .. MaxPress /\ MaxPress \in Nat
      /\ seen \in Nat /\ sdl \in Seq(Waits) /\ RingType /\ Ring \in Seq(Key)
      /\ Apart(Ring, sdl, seen, presses)
  BY KeyboardAssumption DEF IInv, DataInv, DataType, RingType, OrderInv, Press
<1>2. /\ presses' = presses + 1 /\ sdl' = Append(sdl, e)
      /\ UNCHANGED <<cpuVars, timerVars, ringVars, guestVars>>
  BY DEF Press
<1>3. (phase = "prompt") \in BOOLEAN
  OBVIOUS
<1>4. e \in Waits /\ e.id = presses + 1 /\ e.idle = (phase = "prompt")
  BY <1>1, <1>3 DEF Waits, EventOf
<1>. HIDE DEF e
<1>5. /\ Append(sdl, e) \in Seq(Waits) /\ Len(Append(sdl, e)) = Len(sdl) + 1
      /\ \A i \in 1 .. Len(sdl) : Append(sdl, e)[i] = sdl[i]
      /\ Append(sdl, e)[Len(sdl) + 1] = e
      /\ Len(sdl) \in Nat
  BY <1>1, <1>4, AppendProperties, LenProperties
<1>6. Ring' = Ring
  BY <1>2, RingFrame
<1>7. DataType'
  BY <1>1, <1>2, <1>5, <1>6 DEF IInv, DataInv, DataType, RingType, ringVars, guestVars
<1>8. OrderInv'
  <2>1. Apart(Ring, Append(sdl, e), seen, presses + 1)
    BY <1>1, <1>4, ApartPress
  <2>. QED  BY <1>2, <1>6, <2>1 DEF OrderInv, guestVars
<1>9. IdleInv'
  <2>. SUFFICES ASSUME phase' \notin Away, NEW i \in 1 .. Len(sdl')
                PROVE  ~ sdl'[i].idle
    BY DEF IdleInv
  <2>1. phase' = phase /\ ~ e.idle
    BY <1>2, <1>4 DEF cpuVars, Away
  <2>2. i \in 1 .. Len(sdl) \/ i = Len(sdl) + 1
    BY <1>2, <1>5
  <2>. QED  BY <1>2, <1>5, <2>1, <2>2 DEF IInv, IdleInv
<1>10. CtlType' /\ PromptKeysDropped' /\ CauseInv' /\ OverflowOnlyWhenFull'
  BY <1>2, <1>6 DEF IInv, DataInv, CtlType, cpuVars, timerVars, PromptKeysDropped,
                    CauseInv, OverflowOnlyWhenFull
<1>. QED  BY <1>7, <1>8, <1>9, <1>10 DEF IInv, DataInv

(* The timer signal, and the steps of the thread that leave the events     *)
(* alone.                                                                  *)
LEMMA QuietInv ==
  ASSUME IInv, \/ timer_sig_handler \/ Enter \/ Exec \/ Watch \/ Loop
               \/ TestFlag \/ ClearFlag \/ PollNone
  PROVE  IInv'
<1>1. UNCHANGED <<sdlVars, ringVars, guestVars>>
  BY DEF timer_sig_handler, Enter, Exec, Watch, Loop, TestFlag, ClearFlag, PollNone
<1>2. UNCHANGED cause /\ (phase' \in Away \/ phase \notin Away \/ phase' = phase)
  BY DEF timer_sig_handler, Enter, Exec, Watch, Loop, TestFlag, ClearFlag, PollNone,
         Goto, Away, cpuVars
<1>3. CtlType'
  BY DEF IInv, CtlType, timer_sig_handler, Enter, Exec, Watch, Loop, TestFlag,
         ClearFlag, PollNone, Goto, cpuVars, timerVars
<1>4. DataInv' /\ Ring' = Ring
  BY <1>1, QuietData DEF IInv
<1>5. IdleInv'
  BY <1>1, <1>2 DEF IInv, IdleInv, sdlVars
<1>6. OverflowOnlyWhenFull'
  BY <1>2, <1>4 DEF IInv, OverflowOnlyWhenFull
<1>7. CauseInv'
  <2>1. phase # "dead"
    BY DEF timer_sig_handler, Alive, Enter, Exec, Watch, Loop, TestFlag, ClearFlag, PollNone
  <2>. QED  BY <1>2, <2>1 DEF IInv, CauseInv
<1>. QED  BY <1>3, <1>4, <1>5, <1>6, <1>7 DEF IInv

LEMMA CommandInv == ASSUME IInv, Command PROVE IInv'
<1>1. DataInv'
  BY ClearData DEF Command, IInv
<1>2. sdl' = <<>> /\ Ring' = Ring /\ cause' = cause
  BY RingFrame DEF Command, ClearEvents
<1>3. CtlType'
  BY DEF Command, IInv, CtlType, timerVars
<1>4. IdleInv' /\ CauseInv' /\ OverflowOnlyWhenFull'
  BY <1>2, EmptySeq DEF Command, IInv, IdleInv, CauseInv, OverflowOnlyWhenFull
<1>. QED  BY <1>1, <1>3, <1>4 DEF IInv

(* The reads of the port.                                                  *)
LEMMA ReadInv == ASSUME IInv, ReadPort \/ ExaminePort \/ WatchPort PROVE IInv'
<1>1. /\ i8042_data_io_handler
      /\ UNCHANGED sdlVars \/ (ClearEvents /\ phase = "prompt")
      /\ cause' = cause /\ phase \notin {"exited", "dead"}
  BY DEF ReadPort, ExaminePort, WatchPort, Goto, cpuVars
<1>2. DataInv'
  BY <1>1, ReadData DEF IInv
<1>3. CtlType'
  BY DEF ReadPort, ExaminePort, WatchPort, Goto, cpuVars, timerVars, IInv, CtlType
<1>4. IdleInv'
  <2>1. CASE UNCHANGED sdlVars
    BY <2>1 DEF ReadPort, ExaminePort, WatchPort, Goto, cpuVars, sdlVars, IInv, IdleInv, Away
  <2>2. CASE ClearEvents
    BY <2>2, EmptySeq DEF ClearEvents, IdleInv
  <2>. QED  BY <1>1, <2>1, <2>2
<1>5. cause = "none"
  BY <1>1 DEF IInv, CauseInv
<1>6. OverflowOnlyWhenFull' /\ CauseInv'
  BY <1>1, <1>5 DEF OverflowOnlyWhenFull, CauseInv
<1>. QED  BY <1>2, <1>3, <1>4, <1>6 DEF IInv

(* device_update's loop.                                                   *)
LEMMA TakenInv == ASSUME IInv, PollQuit \/ PollDropped PROVE IInv'
<1>1. /\ Polled /\ Taken /\ UNCHANGED <<ringVars, guestVars>>
      /\ phase' \in {phase, "exited"} /\ phase = "poll" /\ cause' = cause
  BY DEF PollQuit, PollDropped, Polled, Goto, cpuVars
<1>2. DataInv' /\ IdleInv' /\ Ring' = Ring
  BY <1>1, TakenData, TakenIdle, RingFrame DEF IInv
<1>3. CtlType'
  BY DEF PollQuit, PollDropped, Goto, cpuVars, timerVars, IInv, CtlType
<1>4. CauseInv' /\ OverflowOnlyWhenFull'
  BY <1>1, <1>2 DEF IInv, CauseInv, OverflowOnlyWhenFull
<1>. QED  BY <1>2, <1>3, <1>4 DEF IInv

(* The event that send_key stores.                                         *)
Stored == [Head(sdl) EXCEPT !.code = Scancode(Head(sdl))]

LEMMA StoredFacts ==
  ASSUME IInv, PollKey
  PROVE  /\ Stored \in Key
         /\ Stored.id = Head(sdl).id
         /\ ~ Stored.idle
<1>1. sdl \in Seq(Waits) /\ sdl # <<>> /\ phase = "poll"
  BY DEF IInv, DataInv, DataType, PollKey, Polled
<1>2. Head(sdl) \in Waits /\ Head(sdl) = sdl[1] /\ 1 \in 1 .. Len(sdl)
  BY <1>1, HeadTailProperties, LenProperties, EmptySeq
<1>3. ~ Head(sdl).idle
  BY <1>1, <1>2 DEF IInv, IdleInv, Away
<1>4. Scancode(Head(sdl)) \in Mapped
  BY DEF PollKey, Accepted
<1>. QED  BY <1>2, <1>3, <1>4 DEF Stored, Waits, Key, EventOf

(* What PollKey does to the ring.                                          *)
LEMMA PollKeyRing ==
  ASSUME IInv, PollKey
  PROVE  Ring' = Append(Ring, Stored) /\ RingType' /\ Len(Ring) < LEN - 1
<1>1. RingType /\ ~ Overflow
  BY DEF IInv, DataInv, DataType, PollKey
<1>2. /\ key_queue' = [key_queue EXCEPT ![key_r] = Stored]
      /\ key_r' = Succ(key_r) /\ key_f' = key_f
  BY DEF PollKey, Stored
<1>3. Stored \in Key
  BY StoredFacts
<1>. QED  BY <1>1, <1>2, <1>3, RingPut

LEMMA PollKeyInv == ASSUME IInv, PollKey PROVE IInv'
<1>1. /\ Polled /\ Taken /\ UNCHANGED <<cpuVars, timerVars, guestVars>>
      /\ phase = "poll" /\ sdl # <<>> /\ sdl' = Tail(sdl) /\ presses' = presses
      /\ port' = port /\ seen' = seen /\ phase' = phase /\ cause' = cause
  BY DEF PollKey, Polled, Taken, cpuVars, guestVars
<1>2. /\ Stored \in Key /\ Stored.id = Head(sdl).id /\ ~ Stored.idle
      /\ Ring' = Append(Ring, Stored) /\ RingType'
  BY StoredFacts, PollKeyRing
<1>3. /\ Ring \in Seq(Key) /\ sdl \in Seq(Waits) /\ seen \in Nat /\ presses \in Nat
      /\ Apart(Ring, sdl, seen, presses)
  BY DEF IInv, DataInv, DataType, RingType, OrderInv
<1>4. DataType'
  BY <1>1, <1>2, <1>3, HeadTailProperties DEF IInv, DataInv, DataType
<1>5. OrderInv'
  <2>1. Apart(Append(Ring, Stored), Tail(sdl), seen, presses)
    BY <1>1, <1>2, <1>3, ApartMove
  <2>. QED  BY <1>1, <1>2, <2>1 DEF OrderInv
<1>6. PromptKeysDropped'
  <2>1. /\ Len(Append(Ring, Stored)) = Len(Ring) + 1 /\ Len(Ring) \in Nat
        /\ \A i \in 1 .. Len(Ring) : Append(Ring, Stored)[i] = Ring[i]
        /\ Append(Ring, Stored)[Len(Ring) + 1] = Stored
    BY <1>2, <1>3, AppendProperties, LenProperties
  <2>2. \A i \in 1 .. Len(Ring) + 1 : i \in 1 .. Len(Ring) \/ i = Len(Ring) + 1
    BY <2>1
  <2>. QED  BY <1>2, <2>1, <2>2 DEF IInv, DataInv, PromptKeysDropped
<1>7. IdleInv'
  BY <1>1, TakenIdle DEF IInv
<1>8. CtlType' /\ CauseInv' /\ OverflowOnlyWhenFull'
  BY <1>1 DEF IInv, CtlType, cpuVars, timerVars, CauseInv, OverflowOnlyWhenFull
<1>. QED  BY <1>4, <1>5, <1>6, <1>7, <1>8 DEF IInv, DataInv

LEMMA NextInv == IInv /\ [Next]_vars => IInv'
<1>. SUFFICES ASSUME IInv, [Next]_vars  PROVE IInv'
  OBVIOUS
<1>1. CASE UNCHANGED vars
  <2>1. DataInv' /\ Ring' = Ring
    BY <1>1, QuietData DEF vars, IInv
  <2>. QED
    BY <1>1, <2>1 DEF vars, cpuVars, sdlVars, timerVars, IInv, CtlType, IdleInv, CauseInv,
                      OverflowOnlyWhenFull
<1>2. CASE \E code \in Scancodes \cup {Quit} : Press(code)
  BY <1>2, PressInv
<1>3. CASE MisusePort \/ PollOverflow
  BY <1>3, DieInv DEF MisusePort, PollOverflow
<1>4. CASE Command \/ ExaminePort
  BY <1>4, CommandInv, ReadInv
<1>5. CASE Thread /\ ~ MisusePort /\ ~ PollOverflow
  BY <1>5, QuietInv, ReadInv, TakenInv, PollKeyInv DEF Thread, device_update
<1>6. CASE timer_sig_handler
  BY <1>6, QuietInv
<1>. QED  BY <1>1, <1>2, <1>3, <1>4, <1>5, <1>6 DEF Next, Thread, device_update

LEMMA Invariance == Spec => []IInv
BY InitInv, NextInv, PTL DEF Spec

-----------------------------------------------------------------------------
(* The variables keep their types; in particular, what is in the ring is a *)
(* key of keymap and never _KEY_NONE.                                      *)
THEOREM TypeCorrect == Spec => []TypeOK
<1>1. IInv => TypeOK
  BY TypeOKSplit DEF IInv, DataInv
<1>. QED  BY Invariance, <1>1, PTL

(* Key presses reach the port in their order, none twice, whatever the     *)
(* timer, the commands and the guest do.                                   *)
THEOREM OrderCorrect == Spec => []InOrder
<1>1. IInv => InOrder
  <2>. SUFFICES ASSUME IInv  PROVE Ordered(Ring, sdl, seen)
    BY DEF InOrder, Ordered
  <2>. QED  BY ApartIsOrdered DEF IInv, DataInv, DataType, RingType, OrderInv
<1>. QED  BY Invariance, <1>1, PTL

(* No key typed while the command loop waits gets into the key queue.      *)
THEOREM PromptCorrect == Spec => []PromptKeysDropped
<1>1. IInv => PromptKeysDropped
  BY DEF IInv, DataInv
<1>. QED  BY Invariance, <1>1, PTL

(* The key queue overflows only with LEN - 1 unread events.                *)
THEOREM OverflowCorrect == Spec => []OverflowOnlyWhenFull
<1>1. IInv => OverflowOnlyWhenFull
  BY DEF IInv
<1>. QED  BY Invariance, <1>1, PTL

-----------------------------------------------------------------------------
(* The ring implements KeyFifo.                                            *)

(* A read of the port is a step of KeyFifo.                                *)
LEMMA ReadRefines ==
  ASSUME IInv, i8042_data_io_handler
  PROVE  Fifo!Get \/ Fifo!GetNone
<1>1. CASE key_f = key_r
  <2>1. port' = NoEvent /\ Ring' = Ring
    BY <1>1, RingFrame DEF i8042_data_io_handler
  <2>2. Ring = <<>>
    <3>1. Count = 0
      BY <1>1 DEF Count, IInv, DataInv, DataType, RingType, Index
    <3>. QED  BY <3>1 DEF Ring
  <2>. QED  BY <2>1, <2>2 DEF Fifo!GetNone
<1>2. CASE key_f # key_r
  <2>1. /\ key_f' = Succ(key_f) /\ UNCHANGED <<key_queue, key_r>>
        /\ port' = key_queue[key_f] /\ RingType
    BY <1>2 DEF i8042_data_io_handler, IInv, DataInv, DataType
  <2>2. Ring # <<>> /\ key_queue[key_f] = Head(Ring) /\ Ring' = Tail(Ring)
    BY <1>2, <2>1, RingGet
  <2>. QED  BY <2>1, <2>2 DEF Fifo!Get
<1>. QED  BY <1>1, <1>2

(* send_key, when it stores an event, is a step of KeyFifo.                *)
LEMMA PollKeyRefines ==
  ASSUME IInv, PollKey
  PROVE  \E e \in EventOf(Mapped) : Fifo!Put(e)
<1>1. Stored \in EventOf(Mapped)
  BY StoredFacts DEF Key
<1>2. Fifo!Put(Stored)
  BY PollKeyRing DEF Fifo!Put, PollKey, guestVars
<1>. QED  BY <1>1, <1>2

(* Every step of Keyboard is a step of KeyFifo or leaves it unchanged.     *)
LEMMA NextRefines ==
  IInv /\ [Next]_vars => [Fifo!Next]_<<Ring, port>>
<1>. SUFFICES ASSUME IInv, [Next]_vars
              PROVE  Fifo!Next \/ UNCHANGED <<Ring, port>>
  OBVIOUS
<1>1. CASE i8042_data_io_handler
  BY <1>1, ReadRefines DEF Fifo!Next
<1>2. CASE PollKey
  BY <1>2, PollKeyRefines DEF Fifo!Next
<1>3. CASE ~ i8042_data_io_handler /\ ~ PollKey
  <2>1. UNCHANGED <<ringVars, guestVars>>
    BY <1>3 DEF Next, vars, Press, timer_sig_handler, Command, Thread, device_update,
       Enter, Exec, ReadPort, ExaminePort, WatchPort, MisusePort, Watch, Loop, TestFlag,
       ClearFlag, PollNone, PollQuit, PollDropped, PollOverflow, Die
  <2>. QED  BY <2>1, RingFrame DEF guestVars
<1>. QED  BY <1>1, <1>2, <1>3

(* The key queue is a first-in first-out buffer of LEN - 1 events, and a   *)
(* read of the port gives the oldest one, or _KEY_NONE when there is none. *)
THEOREM Refinement == Spec => FifoSpec
<1>1. Init => Fifo!Init
  <2>. SUFFICES ASSUME Init  PROVE Ring = <<>>
    BY DEF Init, Fifo!Init
  <2>1. Count = 0
    BY DEF Init, Count
  <2>. QED  BY <2>1 DEF Ring
<1>. QED  BY <1>1, Invariance, NextRefines, PTL DEF Spec, FifoSpec, Fifo!Spec
=============================================================================
