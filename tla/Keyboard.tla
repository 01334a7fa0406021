------------------------------ MODULE Keyboard ------------------------------
(***************************************************************************)
(* The way of a key press from the window to the guest, in the build with  *)
(* HAS_IOE: SDL's event queue, device_update (nemu/src/device/device.c),   *)
(* called after every instruction and enabled by a timer signal, send_key  *)
(* and the i8042 data port (nemu/src/device/keyboard.c).                   *)
(*                                                                         *)
(* Four parties take steps in any order: the user (Press), the timer       *)
(* signal, which interrupts the thread anywhere (timer_sig_handler), the   *)
(* user's commands (Command) and the thread itself, whose control is       *)
(* `phase':                                                                *)
(*   prompt   ui_mainloop waits in readline                                *)
(*   call     a command is about to call cpu_exec                          *)
(*   exec     cpu_exec is about to execute an instruction                  *)
(*   post     the instruction is done, watchpoints come next               *)
(*   update   device_update is about to test its flag                      *)
(*   clear    it has found the flag set and is about to clear it           *)
(*   poll     it is in its SDL_PollEvent loop                              *)
(*   loop     the condition at the end of cpu_exec's loop                  *)
(*   exited   exit(0), or main has returned                                *)
(*   dead     an Assert has failed                                         *)
(* The details of the commands and of the watchpoints are Monitor's.       *)
(***************************************************************************)
EXTENDS Integers, SequencesExt

CONSTANTS LEN,        \* KEY_QUEUE_LEN
          CODES,      \* entries of keymap (256, the range of uint8_t)
          Scancodes,  \* codes SDL may report; some are not below CODES
          Mapped,     \* indices at which keymap is not _KEY_NONE
          Quit,       \* the code that stands for SDL_QUIT
          NoEvent,    \* _KEY_NONE
          MaxPress    \* bound: key events in a behaviour

ASSUME KeyboardAssumption ==
  /\ LEN \in Nat \ {0, 1}
  /\ CODES \in Nat \ {0}
  /\ Scancodes \subseteq Nat
  /\ Mapped \subseteq 0 .. CODES - 1
  /\ Quit \notin Scancodes
  /\ MaxPress \in Nat

VARIABLES phase, cause,
          state,    \* nemu_state.state; "END" stands for NEMU_ABORT too
          n,        \* cpu_exec's argument: "once" or "forever"
          sdl,      \* SDL's queue of events not polled yet
          presses,  \* number of events so far; each carries its own as id
          armed,    \* the one-shot interval timer is set
          device_update_flag,
          key_queue, key_f, key_r,
          port,     \* i8042_data_port_base[0]
          seen      \* id of the last event read from it

cpuVars == <<phase, cause, state, n>>
sdlVars == <<sdl, presses>>
timerVars == <<armed, device_update_flag>>
ringVars == <<key_queue, key_f, key_r>>
guestVars == <<port, seen>>
vars == <<cpuVars, sdlVars, timerVars, ringVars, guestVars>>

(* An event: its number, its code, and whether it came while the command   *)
(* loop was waiting for the user.                                          *)
EventOf(Codes) == [id : 1 .. MaxPress, code : Codes, idle : BOOLEAN]

Alive == phase \notin {"exited", "dead"}

(* Bug of Succ: `(i + 1) % (KEY_QUEUE_LEN - 1)'.                           *)
SuccShort(i) == (i + 1) % (LEN - 1)

(* The index behind i in the ring.                                         *)
Succ(i) == (i + 1) % LEN

(* The events in the ring, oldest first: from key_f up to key_r.           *)
Count == IF key_f <= key_r THEN key_r - key_f ELSE LEN + key_r - key_f
Slot(i) == IF key_f + i <= LEN THEN key_f + i - 1 ELSE key_f + i - 1 - LEN
Ring == [i \in 1 .. Count |-> key_queue[Slot(i)]]

-----------------------------------------------------------------------------
Init ==
  /\ phase = "prompt" /\ cause = "none"
  /\ state = "STOP"
  /\ n = "forever"
  /\ sdl = <<>> /\ presses = 0
  /\ armed = TRUE /\ device_update_flag = FALSE
  /\ key_queue = [i \in 0 .. LEN - 1 |-> NoEvent]
  /\ key_f = 0 /\ key_r = 0
  /\ port = NoEvent /\ seen = 0

Die(where) ==
  /\ phase' = "dead"
  /\ cause' = where
  /\ UNCHANGED <<state, n, sdlVars, timerVars, ringVars, guestVars>>

(* The thread goes on at p.                                                *)
Goto(p) == phase' = p /\ UNCHANGED <<cause, n>>

-----------------------------------------------------------------------------
(* The window and the timer.                                               *)

(* A key goes down or up, or the window is closed.                         *)
Press(code) ==
  /\ Alive
  /\ presses < MaxPress
  /\ presses' = presses + 1
  /\ sdl' = Append(sdl, [id |-> presses + 1, code |-> code, idle |-> phase = "prompt"])
  /\ UNCHANGED <<cpuVars, timerVars, ringVars, guestVars>>

(* Bug of timer_sig_handler: setitimer is left out.                        *)
timer_sig_handler_once ==
  /\ Alive
  /\ armed
  /\ device_update_flag' = TRUE
  /\ armed' = FALSE
  /\ UNCHANGED <<cpuVars, sdlVars, ringVars, guestVars>>

(* SIGVTALRM.  The timer has no interval, the handler arms it again.       *)
timer_sig_handler ==
  /\ Alive
  /\ armed
  /\ device_update_flag' = TRUE
  /\ armed' = TRUE
  /\ UNCHANGED <<cpuVars, sdlVars, ringVars, guestVars>>

-----------------------------------------------------------------------------
(* The command loop and cpu_exec.                                          *)

(* Bug of ClearEvents: SDL's queue is left as it is.                       *)
ClearNothing == UNCHANGED sdlVars

(* sdl_clear_event_queue.                                                  *)
ClearEvents == sdl' = <<>> /\ UNCHANGED presses

(* Every command first clears SDL's queue; `c' and `si' then call          *)
(* cpu_exec, `q' leaves, the others come back.                             *)
Command ==
  /\ phase = "prompt"
  /\ ClearEvents
  /\ phase' \in {"prompt", "call", "exited"}
  /\ n' \in {"once", "forever"}
  /\ UNCHANGED <<cause, state, timerVars, ringVars, guestVars>>

(* The first switch of cpu_exec.  A refused `si' may call again.           *)
Enter ==
  /\ phase = "call"
  /\ IF state = "END" THEN Goto("prompt") /\ UNCHANGED state
                      ELSE Goto("exec") /\ state' = "RUNNING"
  /\ UNCHANGED <<sdlVars, timerVars, ringVars, guestVars>>

(* An instruction that does not touch the data port; it may end the guest. *)
Exec ==
  /\ phase = "exec"
  /\ Goto("post")
  /\ state' \in {state, "END"}
  /\ UNCHANGED <<sdlVars, timerVars, ringVars, guestVars>>

(* Bug of i8042_data_io_handler: key_f stays where it is.                  *)
i8042_again ==
  /\ key_f # key_r
  /\ port' = key_queue[key_f]
  /\ seen' = key_queue[key_f].id
  /\ UNCHANGED ringVars

(* i8042_data_io_handler for a read at offset 0: the oldest event, or      *)
(* none.                                                                   *)
i8042_data_io_handler ==
  \/ /\ key_f # key_r
     /\ port' = key_queue[key_f]
     /\ seen' = key_queue[key_f].id
     /\ key_f' = Succ(key_f)
     /\ UNCHANGED <<key_queue, key_r>>
  \/ /\ key_f = key_r
     /\ port' = NoEvent
     /\ UNCHANGED <<seen, ringVars>>

(* An instruction that reads the port; `x', `p' or `w' reading it for the  *)
(* user; check() reading it for a watchpoint.                              *)
ReadPort ==
  /\ phase = "exec"
  /\ i8042_data_io_handler
  /\ Goto("post")
  /\ UNCHANGED <<state, sdlVars, timerVars>>

ExaminePort ==
  /\ phase = "prompt"
  /\ ClearEvents
  /\ i8042_data_io_handler
  /\ UNCHANGED <<cpuVars, timerVars>>

WatchPort ==
  /\ phase = "post"
  /\ i8042_data_io_handler
  /\ UNCHANGED <<cpuVars, sdlVars, timerVars>>

(* A write to the port, or a read at another offset of it.                 *)
MisusePort == phase \in {"prompt", "exec", "post"} /\ Die("i8042")

(* check() may stop the machine, whatever the instruction did.             *)
Watch ==
  /\ phase = "post"
  /\ Goto("update")
  /\ state' \in {state, "STOP"}
  /\ UNCHANGED <<sdlVars, timerVars, ringVars, guestVars>>

(* The end of cpu_exec's loop, and its second switch.  A `si' that has     *)
(* instructions left calls again.                                          *)
Loop ==
  /\ phase = "loop"
  /\ IF state = "RUNNING" /\ n = "forever"
       THEN Goto("exec") /\ UNCHANGED state
       ELSE /\ state' = IF state = "RUNNING" THEN "STOP" ELSE state
            /\ Goto("prompt") \/ (n = "once" /\ Goto("call"))
  /\ UNCHANGED <<sdlVars, timerVars, ringVars, guestVars>>

-----------------------------------------------------------------------------
(* device_update.                                                          *)

TestFlag ==
  /\ phase = "update"
  /\ Goto(IF device_update_flag THEN "clear" ELSE "loop")
  /\ UNCHANGED <<state, sdlVars, timerVars, ringVars, guestVars>>

ClearFlag ==
  /\ phase = "clear"
  /\ device_update_flag' = FALSE
  /\ Goto("poll")
  /\ UNCHANGED <<state, sdlVars, armed, ringVars, guestVars>>

PollNone ==
  /\ phase = "poll" /\ sdl = <<>>
  /\ Goto("loop")
  /\ UNCHANGED <<state, sdlVars, timerVars, ringVars, guestVars>>

(* The event SDL_PollEvent returns.                                        *)
Polled == phase = "poll" /\ sdl # <<>>
Taken == sdl' = Tail(sdl) /\ UNCHANGED presses

PollQuit ==
  /\ Polled /\ Head(sdl).code = Quit
  /\ Taken
  /\ Goto("exited")
  /\ UNCHANGED <<state, timerVars, ringVars, guestVars>>

(* keysym.scancode, cut to the uint8_t that send_key takes.                *)
Scancode(e) == e.code % CODES

(* Bug of Accepted: the keymap is not asked.                               *)
AcceptedAll(e) == state = "RUNNING"

(* The test of send_key.                                                   *)
Accepted(e) == state = "RUNNING" /\ Scancode(e) \in Mapped

PollDropped ==
  /\ Polled /\ Head(sdl).code # Quit
  /\ ~ Accepted(Head(sdl))
  /\ Taken
  /\ UNCHANGED <<cpuVars, timerVars, ringVars, guestVars>>

(* Bug of Overflow: the Assert is left out.                                *)
OverflowNever == FALSE

(* The Assert of send_key: the ring is full with one slot unused.          *)
Overflow == Succ(key_r) = key_f

(* send_key stores the event and moves key_r.                              *)
PollKey ==
  /\ Polled /\ Head(sdl).code # Quit
  /\ Accepted(Head(sdl))
  /\ ~ Overflow
  /\ key_queue' = [key_queue EXCEPT ![key_r] = [Head(sdl) EXCEPT !.code = Scancode(Head(sdl))]]
  /\ key_r' = Succ(key_r)
  /\ Taken
  /\ UNCHANGED <<cpuVars, timerVars, key_f, guestVars>>

PollOverflow ==
  /\ Polled /\ Head(sdl).code # Quit
  /\ Accepted(Head(sdl))
  /\ Overflow
  /\ Die("overflow")

device_update ==
  TestFlag \/ ClearFlag \/ PollNone \/ PollQuit \/ PollDropped \/ PollKey \/ PollOverflow

Thread ==
  \/ Enter \/ Exec \/ ReadPort \/ WatchPort \/ Watch \/ device_update \/ Loop
  \/ phase # "prompt" /\ MisusePort

Next ==
  \/ \E code \in Scancodes \cup {Quit} : Press(code)
  \/ timer_sig_handler
  \/ Command \/ ExaminePort \/ (phase = "prompt" /\ MisusePort)
  \/ Thread

Spec == Init /\ [][Next]_vars

(* The thread is scheduled, and a timer that is armed expires: it counts   *)
(* the time of the thread, which never waits inside cpu_exec.              *)
FairSpec == Spec /\ WF_vars(Thread) /\ WF_vars(timer_sig_handler)

-----------------------------------------------------------------------------
Fifo == INSTANCE KeyFifo WITH fifo <- Ring, Event <- EventOf(Mapped), Room <- LEN - 1

(* Type invariant: what is in the ring is a key of keymap, never _KEY_NONE,*)
(* which the guest could not tell from an empty queue.                     *)
TypeOK ==
  /\ phase \in {"prompt", "call", "exec", "post", "update", "clear", "poll", "loop",
                "exited", "dead"}
  /\ cause \in {"none", "i8042", "overflow"}
  /\ state \in {"STOP", "RUNNING", "END"}
  /\ n \in {"once", "forever"}
  /\ sdl \in Seq(EventOf(Scancodes \cup {Quit}))
  /\ presses \in 0 .. MaxPress
  /\ armed \in BOOLEAN /\ device_update_flag \in BOOLEAN
  /\ key_queue \in [0 .. LEN - 1 -> EventOf(Mapped) \cup {NoEvent}]
  /\ key_f \in 0 .. LEN - 1 /\ key_r \in 0 .. LEN - 1
  /\ Ring \in Seq(EventOf(Mapped))
  /\ port \in EventOf(Mapped) \cup {NoEvent}
  /\ seen \in 0 .. MaxPress

(* Events come out of the port in the order of the key presses, none       *)
(* twice: the last one read, those in the ring and those in SDL's queue    *)
(* are in strictly ascending order.                                        *)
Ascending(s) == \A i, j \in 1 .. Len(s) : i < j => s[i].id < s[j].id
InOrder ==
  /\ Ascending(Ring \o sdl)
  /\ \A i \in 1 .. Len(Ring \o sdl) : seen < (Ring \o sdl)[i].id

(* The ring and its two indices implement the buffer of KeyFifo.           *)
FifoSpec == Fifo!Spec

(* A key typed while the command loop waits for the user (at the terminal, *)
(* not in the window of the guest) never gets to the guest: every command  *)
(* clears SDL's queue before cpu_exec can poll it.                         *)
PromptKeysDropped == \A i \in 1 .. Len(Ring) : ~ Ring[i].idle

(* NEMU dies of a key queue overflow only with LEN - 1 unread events.      *)
OverflowOnlyWhenFull == cause = "overflow" => Len(Ring) = LEN - 1

(* A key press is polled, however the signal and the test of the flag      *)
(* interleave, or the thread leaves cpu_exec.                              *)
Waiting(id) == \E i \in 1 .. Len(sdl) : sdl[i].id = id
EventsPolled ==
  \A id \in 1 .. MaxPress :
    Waiting(id) ~> (~ Waiting(id) \/ phase \in {"prompt", "exited", "dead"})
=============================================================================
