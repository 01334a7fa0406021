------------------------------- MODULE KeyFifo -------------------------------
(***************************************************************************)
(* What the key queue of nemu/src/device/keyboard.c promises the guest: a  *)
(* first-in first-out buffer of at most Room events, and a data port that  *)
(* a read refills with the oldest event, or with NoEvent when there is     *)
(* none.  Keyboard implements it with a ring and two indices.              *)
(***************************************************************************)
EXTENDS Naturals, Sequences

CONSTANTS Event,    \* the events a key press may leave in the queue
          NoEvent,  \* _KEY_NONE
          Room      \* events the queue holds

VARIABLES fifo, port

Init == fifo = <<>> /\ port = NoEvent

(* send_key.                                                               *)
Put(e) ==
  /\ Len(fifo) < Room
  /\ fifo' = Append(fifo, e)
  /\ UNCHANGED port

(* A read of the data port.                                                *)
Get ==
  /\ fifo # <<>>
  /\ port' = Head(fifo)
  /\ fifo' = Tail(fifo)

GetNone ==
  /\ fifo = <<>>
  /\ port' = NoEvent
  /\ UNCHANGED fifo

Next == (\E e \in Event : Put(e)) \/ Get \/ GetNone

Spec == Init /\ [][Next]_<<fifo, port>>
=============================================================================
