------------------------------ MODULE UartSystem ------------------------------
(***************************************************************************)
(* A UART whose tx pin is wired to its rx pin, so that the sender is heard *)
(* by a receiver of exactly its speed, and the software that uses it: it   *)
(* sets the speed, enables the device, and puts bytes, gets them and reads *)
(* STATUS whenever it likes; or it puts bytes and disables the device or   *)
(* changes the speed at any moment.                                        *)
(***************************************************************************)
EXTENDS E1Uart

CONSTANT
  Softwares      (* what uses the device: the bytes it sends, the speeds   *)
                 (* it sets, whether it reads, and two bounds: accesses    *)
                 (* that meet an event of a queue, and changes of the      *)
                 (* speed and of UART_EN                                   *)

ASSUME SoftwareAssumption ==
  Softwares \subseteq [bytes : SUBSET [1 .. Bits -> Bit], speeds : SUBSET (Nat \ {0}),
                      reads : BOOLEAN, meets : Nat, changes : Nat]

(* With a period of one or two edges the receiver would look for the start *)
(* bit after it has gone (e1_uart.sv:209).                                 *)
ASSUME SpeedAssumption == \A s \in Softwares : \A d \in s.speeds : d >= 3

VARIABLES
  software,      (* what uses it in this behaviour                         *)
  changes,       (* changes of the speed and of UART_EN so far             *)
  garbled,       (* history: a change met a byte, and the line has not been *)
                 (* quiet since                                            *)
  unsent,        (* history: bytes accepted and not yet taken              *)
  flying,        (* history: bytes taken and not yet pushed                *)
  unread,        (* history: bytes pushed and not yet got                  *)
  dropped,       (* history: a byte was dropped since STATUS told of one   *)
  tx_met, rx_met,  (* history: accesses that met an event of their queue   *)
  status_met       (* history: a read of STATUS met an overrun             *)

historyVars == <<software, changes, garbled, unsent, flying, unread, dropped, tx_met, rx_met, status_met>>
vars == <<uartVars, historyVars>>

Init ==
  /\ UartInit
  /\ software \in Softwares /\ changes = 0 /\ garbled = FALSE
  /\ unsent = <<>> /\ flying = <<>> /\ unread = <<>> /\ dropped = FALSE
  /\ tx_met = 0 /\ rx_met = 0 /\ status_met = FALSE

Op(kind, val) == [kind |-> kind, val |-> val]

(* Nothing in STATUS tells software of the edge on which the sender takes  *)
(* a byte, the receiver pushes one, or finds the queue full.  From the     *)
(* first access that meets such an edge on, that queue, or the overrun     *)
(* flag, is not what software takes it for, and its history is closed.     *)
TxMeets(op) == Put(op) /\ tx_load_byte
RxMeets(op) == Got(op) /\ Pushes
StatusMeets(op) == op.kind = "getStatus" /\ rx_push_byte /\ rx_full

(* Nothing is on the line, on its way into it or on its way out.           *)
Quiet ==
  /\ tx_state = "IDLE" /\ ~tx_load_byte /\ tx = 1
  /\ rx_sync0 = 1 /\ rx_sync1 = 1 /\ rx_state = "IDLE" /\ ~rx_push_byte
Changes(op) ==
  \/ op.kind = "putControl" /\ op.val.en # uart_en
  \/ op.kind = "putBaud" /\ op.val # baud_div

History(op) ==
  /\ garbled' = (~Quiet' /\ (garbled \/ Changes(op)))
  /\ tx_met' = IF TxMeets(op) THEN tx_met + 1 ELSE tx_met
  /\ rx_met' = IF RxMeets(op) THEN rx_met + 1 ELSE rx_met
  /\ status_met' = (status_met \/ StatusMeets(op))
  /\ unsent' =
       LET left == IF tx_load_byte THEN Tail(unsent) ELSE unsent
       IN IF tx_met' # 0 THEN <<>>
          ELSE IF Put(op) THEN Append(left, op.val) ELSE left
  /\ flying' =
       LET left == IF rx_push_byte /\ flying # <<>> THEN Tail(flying) ELSE flying
       IN IF tx_load_byte' THEN Append(left, tx_fifo[tx_rd_ptr])
          ELSE IF garbled' \/ Quiet' THEN <<>> ELSE left
  /\ unread' =
       LET left == IF Got(op) THEN Tail(unread) ELSE unread
       IN IF rx_met' # 0 THEN <<>>
          ELSE IF Pushes THEN Append(left, rx_byte_val) ELSE left
  /\ dropped' = /\ ~status_met'
                /\ \/ rx_push_byte /\ rx_full
                   \/ dropped /\ ~(op.kind = "getStatus" /\ rx_overrun)

Edge(op) == /\ UartEdge(op, tx) /\ History(op)
            /\ tx_met' + rx_met' <= software.meets
            /\ UNCHANGED software

EnableIs(en) == Op("putControl", [en |-> en, tx_ie |-> FALSE, rx_ie |-> TRUE])

Sets(speed) == Edge(Op("putBaud", speed))
SetSpeed == /\ baud_div = 0 /\ \E d \in software.speeds : Sets(d)
            /\ UNCHANGED changes
Enable == ~uart_en /\ Edge(EnableIs(TRUE)) /\ UNCHANGED changes
Change == /\ changes < software.changes /\ changes' = changes + 1
          /\ \/ uart_en /\ Edge(EnableIs(FALSE))
             \/ baud_div # 0 /\ \E d \in software.speeds \ {baud_div} : Sets(d)
PutByte == (\E b \in software.bytes : Edge(Op("putData", b))) /\ UNCHANGED changes
GetByte == software.reads /\ Edge(Op("getData", 0)) /\ UNCHANGED changes
GetStatus == software.reads /\ Edge(Op("getStatus", 0)) /\ UNCHANGED changes
NoAccess == Edge(Op("none", 0)) /\ UNCHANGED changes

Next == SetSpeed \/ Enable \/ Change \/ PutByte \/ GetByte \/ GetStatus \/ NoAccess

Spec == Init /\ [][Next]_vars

(* The clock does not stop.  While the device runs, its baud counter moves  *)
(* on every edge, so that an edge is a step that changes something.        *)
Running == uart_en /\ baud_div # 0
FairSpec == Spec /\ (<>[]~Running \/ []<><<TRUE>>_vars)

-----------------------------------------------------------------------------
(* The bytes a queue holds, oldest first.                                  *)
Held(fifo, ptr, count) ==
  [i \in 1 .. count |-> fifo[(ptr + i - 1) % FifoDepth]]

(* "DATA write -> enqueue TX byte, DATA read -> dequeue RX byte": every    *)
(* byte accepted is in its queue until the sender takes it, and every byte *)
(* pushed until software gets it, in order, as long as no access met the   *)
(* other end of that queue (e1_uart.sv:9, 279-324).                        *)
QueuesRight ==
  /\ tx_met = 0 => Held(tx_fifo, tx_rd_ptr, tx_count) = unsent
  /\ rx_met = 0 => Held(rx_fifo, rx_rd_ptr, rx_count) = unread

(* What a collision costs: each leaves one byte more between the pointers  *)
(* of its queue than the count knows of (e1_uart.sv:285-292, 308-318).     *)
OneByteEach ==
  /\ (tx_rd_ptr + tx_count + tx_met) % FifoDepth = tx_wr_ptr
  /\ (rx_rd_ptr + rx_count + rx_met) % FifoDepth = rx_wr_ptr

(* When the stop bit is due the receiver has assembled the oldest byte     *)
(* sent: eight bits, in order, each sampled while it was on the line.  What *)
(* it then pushes is not that byte: the stop bit is shifted in too, so     *)
(* that software gets bits 1 to 7 of the byte sent, a place lower, and a 1 *)
(* for bit 7 (see ByteReceivedIsByteSent).  A change of the speed or of    *)
(* UART_EN while a byte is on the line garbles what is there until the     *)
(* line has been quiet, and nothing after that                             *)
(* (e1_uart.sv:95, 118-162, 194-242).                                      *)
ShiftedOnceTooOften ==
  ~garbled =>
    /\ rx_state = "STOP" => flying # <<>> /\ rx_shift = Head(flying)
    /\ rx_push_byte => flying # <<>> /\ rx_byte_val = ShiftIn(Head(flying), 1)

(* Nothing happens to a byte received that software is not told of: one    *)
(* that waits to be read keeps the interrupt up, and one dropped for want  *)
(* of room shows in STATUS until software has read of it                   *)
(* (e1_uart.sv:14-15, 307-310, 320-322, 342).                              *)
ReceptionTold == /\ uart_en /\ rx_ie /\ unread # <<>> => irq
                 /\ dropped => rx_overrun

(* For every byte accepted by a device that stays enabled a byte is        *)
(* pushed, also after its speed was changed or it was disabled, unless a   *)
(* change garbled it.  Which bits are pushed is ShiftedOnceTooOften.       *)
EveryByteHeard ==
  unsent # <<>> /\ Running ~> rx_push_byte \/ garbled \/ ~Running

(* Bytes keep their order and their number on the way through the queues   *)
(* and along the line, what becomes of their bits there is exactly the one *)
(* shift too many, and software is told of each.                           *)
BytesAccountedFor ==
  QueuesRight /\ OneByteEach /\ ShiftedOnceTooOften /\ ReceptionTold

(* "Basic 8N1 UART", "DATA write -> enqueue TX byte, read -> dequeue RX    *)
(* byte", "RX shift reg has a complete byte ready to enqueue"              *)
(* (e1_uart.sv:3, 9, 84): the byte enqueued is the byte that was sent.     *)
(* The code pushes one from which bit 0 is gone (e1_uart.sv:241).          *)
ByteReceivedIsByteSent == rx_push_byte /\ ~garbled => rx_byte_val = Head(flying)
=============================================================================
