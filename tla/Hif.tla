-------------------------------- MODULE Hif ---------------------------------
(***************************************************************************)
(* The host interface of the WiFi chip, m2m_hif.c: how a packet of the     *)
(* chip gets from its receive buffer to the callback that handles it.      *)
(*                                                                         *)
(* The chip offers one packet at a time.  It sets a bit in a register and  *)
(* interrupts the host, and offers the next one when the host has written  *)
(* "RX done".  The interrupt only counts; the packet is handled when some  *)
(* call of the library handles events.  A callback may leave the packet in *)
(* the chip, to be read later, and then blocks the handling of events.     *)
(*                                                                         *)
(* Callbacks call functions that handle events in turn.  todo is what the  *)
(* calls in progress still have to do, innermost first.                    *)
(***************************************************************************)
EXTENDS Integers, Sequences

CONSTANTS
  MaxFailures   \* bound: how many accesses to the bus fail

VARIABLES
  u8Interrupt,          \* interrupts counted and not served
  enabled,              \* nm_bsp_interrupt_ctrl: whether the pin interrupts
  u8HifRXDone,          \* whether the packet being handled awaits its RX done
  hif_receive_blocked,  \* whether a packet was left in the chip
  todo,                 \* the pending calls
  queue,                \* the chip: packets it has for the host
  rx,                   \* the chip: the packet it offers, if any, as a sequence
  newInterrupt,         \* the chip: bit 0 of WIFI_HOST_RCV_CTRL_0
  failures,             \* how many accesses to the bus have failed
  lasting               \* whether one has that no later read makes up for

context == <<u8Interrupt, enabled, u8HifRXDone, hif_receive_blocked>>
faults == <<failures, lasting>>
hifVars == <<context, todo, queue, rx, newInterrupt, faults>>

ASSUME FailuresAssumption == MaxFailures \in Nat

-----------------------------------------------------------------------------
\* A pending call: what is to be done, and a number it needs.
Call(op, arg) == [op |-> op, arg |-> arg]
Events == Call("events", 0)

Running(op) == todo # << >> /\ Head(todo).op = op
Returns == todo' = Tail(todo)
GoesOnWith(calls) == todo' = calls \o Tail(todo)

\* An access succeeds or fails.  A failure to clear the interrupt, or to read
\* data, is made up for; one in handling a packet or making a request is not.
Recoverable == {"clear", "fill"}

Access(kind, ok) ==
  IF ok THEN UNCHANGED faults
        ELSE /\ failures < MaxFailures /\ failures' = failures + 1
             /\ lasting' = (lasting \/ kind \notin Recoverable)

-----------------------------------------------------------------------------
HifInit ==
  /\ u8Interrupt = 0 /\ enabled = TRUE
  /\ u8HifRXDone = FALSE /\ hif_receive_blocked = FALSE
  /\ todo = << >>
  /\ queue = << >> /\ rx = << >> /\ newInterrupt = FALSE
  /\ failures = 0 /\ lasting = FALSE

\* The chip offers the next packet; isr() counts the interrupt.
Offer ==
  /\ rx = << >> /\ queue # << >>
  /\ rx' = <<Head(queue)>> /\ queue' = Tail(queue)
  /\ newInterrupt' = TRUE
  /\ u8Interrupt' = IF enabled THEN u8Interrupt + 1 ELSE u8Interrupt
  /\ UNCHANGED <<enabled, u8HifRXDone, hif_receive_blocked, todo, faults>>

\* hif_set_rx_done(): the flags are reset before the chip is told, whether or
\* not it then can be.  The first mutant forgets to let the chip interrupt
\* again, the second one to let events be handled again.
hif_set_rx_done_NoEnable(kind, ok) ==
  /\ u8HifRXDone' = FALSE /\ hif_receive_blocked' = FALSE
  /\ Access(kind, ok)
  /\ rx' = IF ok THEN << >> ELSE rx
  /\ UNCHANGED <<u8Interrupt, enabled, queue, newInterrupt>>
hif_set_rx_done_StaysBlocked(kind, ok) ==
  /\ u8HifRXDone' = FALSE /\ enabled' = TRUE
  /\ Access(kind, ok)
  /\ rx' = IF ok THEN << >> ELSE rx
  /\ UNCHANGED <<u8Interrupt, hif_receive_blocked, queue, newInterrupt>>
hif_set_rx_done(kind, ok) ==
  /\ hif_receive_blocked' = FALSE
  /\ u8HifRXDone' = FALSE
  /\ enabled' = TRUE
  /\ Access(kind, ok)
  /\ rx' = IF ok THEN << >> ELSE rx
  /\ UNCHANGED <<u8Interrupt, queue, newInterrupt>>

-----------------------------------------------------------------------------
(***************************************************************************)
(* hif_handle_isr() and hif_isr(), from m2m_wifi_handle_events().          *)
(***************************************************************************)

\* The head of the loop: nothing is handled while a packet is left in the chip.
hif_handle_isr ==
  /\ Running("events")
  /\ IF hif_receive_blocked \/ u8Interrupt = 0
     THEN Returns /\ UNCHANGED u8Interrupt
     ELSE u8Interrupt' = u8Interrupt - 1 /\ GoesOnWith(<<Call("isr", 0), Events>>)
  /\ UNCHANGED <<enabled, u8HifRXDone, hif_receive_blocked,
                 queue, rx, newInterrupt, faults>>

\* The register shows no packet: a false interrupt, which is ignored.
FalseInterrupt ==
  /\ Running("isr") /\ ~newInterrupt
  /\ Returns
  /\ UNCHANGED <<context, queue, rx, newInterrupt, faults>>

\* The register could not be written: hif_handle_isr tries again.
ClearFails ==
  /\ Running("isr") /\ newInterrupt
  /\ enabled' = FALSE
  /\ Access("clear", FALSE)
  /\ UNCHANGED <<u8Interrupt, u8HifRXDone, hif_receive_blocked,
                 todo, queue, rx, newInterrupt>>

\* The bit is cleared and the packet's header read, for the callback to handle
\* it.  When the header cannot be read hif_handle_isr tries again, but the bit
\* is clear by now.
hif_isr(ok) ==
  /\ Running("isr") /\ newInterrupt
  /\ newInterrupt' = FALSE
  /\ u8HifRXDone' = TRUE
  /\ Access("header", ok)
  /\ IF ok THEN /\ enabled' = FALSE
                /\ GoesOnWith(<<Call("callback", 0), Call("isrEnd", 0)>>)
           ELSE enabled' = TRUE /\ UNCHANGED todo
  /\ UNCHANGED <<u8Interrupt, hif_receive_blocked, queue, rx>>

\* After the callback: a packet it neither finished nor left is finished now.
hif_isrEnd ==
  /\ Running("isrEnd")
  /\ IF ~hif_receive_blocked /\ u8HifRXDone
     THEN \E ok \in BOOLEAN :
            /\ hif_set_rx_done("done", ok)
            /\ IF ok THEN Returns ELSE GoesOnWith(<<Call("isr", 0)>>)
     ELSE Returns /\ UNCHANGED <<context, queue, rx, newInterrupt, faults>>

HifStep ==
  \/ hif_handle_isr \/ FalseInterrupt \/ ClearFails
  \/ (\E ok \in BOOLEAN : hif_isr(ok)) \/ hif_isrEnd

-----------------------------------------------------------------------------
\* hif_receive() of a packet, or of its first part only.  It fails when the chip
\* cannot be read, and for a whole packet, which ends with RX done, when that
\* cannot be written.
Received(whole) ==
  IF whole THEN hif_set_rx_done("done", TRUE)
           ELSE UNCHANGED <<context, queue, rx, newInterrupt, faults>>
ReceiveFails(whole) ==
  \/ /\ Access("reply", FALSE)
     /\ UNCHANGED <<context, queue, rx, newInterrupt>>
  \/ whole /\ hif_set_rx_done("done", FALSE)

-----------------------------------------------------------------------------
\* Every interrupt is counted, served, and leads to the packet it was raised
\* for: unless it is just being served, a packet the register shows has been
\* counted exactly once, and no interrupt is counted without a packet.  The
\* count, a byte, is changed by the interrupt and by hif_handle_isr; the chip
\* never interrupts while it is not 0.
InterruptMatchesPacket ==
  /\ newInterrupt => rx # << >>
  /\ u8Interrupt = IF newInterrupt /\ ~Running("isr") THEN 1 ELSE 0
=============================================================================
