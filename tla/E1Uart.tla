-------------------------------- MODULE E1Uart --------------------------------
(***************************************************************************)
(* The UART of rtl/peripherals/e1_uart.sv.  A byte is a sequence of Bits   *)
(* bits, least significant first.  One step is one rising edge of clk; its *)
(* parameters are the register access of that edge,                        *)
(*    op   [kind, val], kind one of "none", "putData", "getData",          *)
(*         "getStatus", "putControl" and "putBaud",                        *)
(* and the level of the rx pin.                                            *)
(***************************************************************************)
EXTENDS Integers, Sequences

CONSTANTS
  FifoDepth,     (* 16 in the RTL                                          *)
  Bits           (* 8 in the RTL                                           *)

ASSUME UartAssumption == FifoDepth \in Nat \ {0} /\ Bits \in Nat \ {0}

Bit == {0, 1}
Slots == 0 .. FifoDepth - 1
Zeros == [i \in 1 .. Bits |-> 0]
Ones == [i \in 1 .. Bits |-> 1]

VARIABLES
  uart_en, tx_ie, rx_ie, baud_div, baud_cnt,
  tx_state, tx_shift, tx_bit_cnt, tx, tx_load_byte,
  tx_fifo, tx_wr_ptr, tx_rd_ptr, tx_count,
  rx_sync0, rx_sync1, rx_state, rx_shift, rx_bit_cnt, rx_baud_cnt,
  rx_push_byte, rx_byte_val,
  rx_fifo, rx_wr_ptr, rx_rd_ptr, rx_count, rx_overrun

controlVars == <<uart_en, tx_ie, rx_ie, baud_div>>
senderVars == <<tx_state, tx_shift, tx_bit_cnt, tx, tx_load_byte>>
txQueueVars == <<tx_fifo, tx_wr_ptr, tx_rd_ptr, tx_count>>
receiverVars == <<rx_state, rx_shift, rx_bit_cnt, rx_baud_cnt, rx_push_byte,
                  rx_byte_val>>
rxQueueVars == <<rx_fifo, rx_wr_ptr, rx_rd_ptr, rx_count, rx_overrun>>
uartVars == <<controlVars, baud_cnt, senderVars, txQueueVars, rx_sync0,
              rx_sync1, receiverVars, rxQueueVars>>

UartInit ==
  /\ uart_en = FALSE /\ tx_ie = FALSE /\ rx_ie = FALSE /\ baud_div = 0
  /\ baud_cnt = 0
  /\ tx_state = "IDLE" /\ tx_shift = Ones /\ tx_bit_cnt = 0 /\ tx = 1
  /\ tx_load_byte = FALSE
  /\ tx_fifo = [s \in Slots |-> Zeros]
  /\ tx_wr_ptr = 0 /\ tx_rd_ptr = 0 /\ tx_count = 0
  /\ rx_sync0 = 1 /\ rx_sync1 = 1
  /\ rx_state = "IDLE" /\ rx_shift = Zeros /\ rx_bit_cnt = 0
  /\ rx_baud_cnt = 0 /\ rx_push_byte = FALSE /\ rx_byte_val = Zeros
  /\ rx_fifo = [s \in Slots |-> Zeros]
  /\ rx_wr_ptr = 0 /\ rx_rd_ptr = 0 /\ rx_count = 0 /\ rx_overrun = FALSE

tx_full == tx_count = FifoDepth
tx_empty == tx_count = 0
rx_full == rx_count = FifoDepth
rx_empty == rx_count = 0
irq == uart_en /\ ((~rx_empty /\ rx_ie) \/ (tx_empty /\ tx_ie))

ShiftIn(b, bit) == Append(Tail(b), bit)
After(ptr) == (ptr + 1) % FifoDepth
CountWidth == 2 * FifoDepth

-----------------------------------------------------------------------------
(* The baud generator, and the registers that set it.                      *)
baud_tickLate ==   \* mutant of baud_tick: compares with the period itself
  uart_en /\ baud_div # 0 /\ baud_cnt = baud_div
baud_tick == uart_en /\ baud_div # 0 /\ baud_cnt = 0

BaudCounter ==
  baud_cnt' = IF ~uart_en \/ baud_div = 0 THEN 0
              ELSE IF baud_cnt = 0 THEN baud_div - 1 ELSE baud_cnt - 1

Control(op) ==
  \/ /\ op.kind = "putControl"
     /\ uart_en' = op.val.en /\ tx_ie' = op.val.tx_ie /\ rx_ie' = op.val.rx_ie
     /\ UNCHANGED baud_div
  \/ /\ op.kind = "putBaud" /\ baud_div' = op.val
     /\ UNCHANGED <<uart_en, tx_ie, rx_ie>>
  \/ op.kind \notin {"putControl", "putBaud"} /\ UNCHANGED controlVars

-----------------------------------------------------------------------------
(* The sender.                                                             *)
TakeByte ==
  /\ tx_state = "IDLE" /\ ~tx_empty /\ baud_tick
  /\ tx_state' = "START" /\ tx_shift' = tx_fifo[tx_rd_ptr]
  /\ tx_load_byte' = TRUE /\ tx' = 1
  /\ UNCHANGED tx_bit_cnt

StartBit ==
  /\ tx_state = "START" /\ tx' = 0 /\ tx_load_byte' = FALSE
  /\ IF baud_tick THEN tx_state' = "DATA" /\ tx_bit_cnt' = 0
                  ELSE UNCHANGED <<tx_state, tx_bit_cnt>>
  /\ UNCHANGED tx_shift

DataBitEarly ==   \* mutant of DataBit: stops a bit short
  /\ tx_state = "DATA" /\ tx' = Head(tx_shift) /\ tx_load_byte' = FALSE
  /\ IF baud_tick
     THEN /\ tx_shift' = ShiftIn(tx_shift, 1)
          /\ IF tx_bit_cnt + 1 = Bits - 1
             THEN tx_state' = "STOP" /\ UNCHANGED tx_bit_cnt
             ELSE tx_bit_cnt' = tx_bit_cnt + 1 /\ UNCHANGED tx_state
     ELSE UNCHANGED <<tx_state, tx_shift, tx_bit_cnt>>

DataBit ==
  /\ tx_state = "DATA" /\ tx' = Head(tx_shift) /\ tx_load_byte' = FALSE
  /\ IF baud_tick
     THEN /\ tx_shift' = ShiftIn(tx_shift, 1)
          /\ IF tx_bit_cnt = Bits - 1
             THEN tx_state' = "STOP" /\ UNCHANGED tx_bit_cnt
             ELSE tx_bit_cnt' = tx_bit_cnt + 1 /\ UNCHANGED tx_state
     ELSE UNCHANGED <<tx_state, tx_shift, tx_bit_cnt>>

StopOrIdle ==
  /\ \/ tx_state = "STOP"
     \/ tx_state = "IDLE" /\ (tx_empty \/ ~baud_tick)
  /\ tx' = 1 /\ tx_load_byte' = FALSE
  /\ tx_state' = IF baud_tick THEN "IDLE" ELSE tx_state
  /\ UNCHANGED <<tx_shift, tx_bit_cnt>>

Sender == TakeByte \/ StartBit \/ DataBit \/ StopOrIdle

(* The queue in front of it.  When a byte is put on the edge that takes    *)
(* one, the later assignment to tx_count stands: it is decremented.        *)
Put(op) == op.kind = "putData" /\ ~tx_full

TxQueueOverfull(op) ==   \* mutant of TxQueue: puts into a full queue too
  /\ tx_fifo' = IF op.kind = "putData" THEN [tx_fifo EXCEPT ![tx_wr_ptr] = op.val]
                                       ELSE tx_fifo
  /\ tx_wr_ptr' = IF op.kind = "putData" THEN After(tx_wr_ptr) ELSE tx_wr_ptr
  /\ tx_rd_ptr' = IF tx_load_byte THEN After(tx_rd_ptr) ELSE tx_rd_ptr
  /\ tx_count' = IF tx_load_byte THEN (tx_count - 1) % CountWidth
                 ELSE IF Put(op) THEN tx_count + 1 ELSE tx_count

TxQueue(op) ==
  /\ tx_fifo' = IF Put(op) THEN [tx_fifo EXCEPT ![tx_wr_ptr] = op.val] ELSE tx_fifo
  /\ tx_wr_ptr' = IF Put(op) THEN After(tx_wr_ptr) ELSE tx_wr_ptr
  /\ tx_rd_ptr' = IF tx_load_byte THEN After(tx_rd_ptr) ELSE tx_rd_ptr
  /\ tx_count' = IF tx_load_byte THEN (tx_count - 1) % CountWidth
                 ELSE IF Put(op) THEN tx_count + 1 ELSE tx_count

-----------------------------------------------------------------------------
(* The receiver, behind two flip-flops.                                    *)
Synchronise(rx) == rx_sync0' = rx /\ rx_sync1' = rx_sync0

SeeStart ==
  /\ rx_state = "IDLE" /\ rx_push_byte' = FALSE
  /\ IF uart_en /\ baud_div # 0 /\ rx_sync1 = 0
     THEN rx_baud_cnt' = baud_div \div 2 /\ rx_state' = "START"
     ELSE rx_baud_cnt' = 0 /\ UNCHANGED rx_state
  /\ UNCHANGED <<rx_shift, rx_bit_cnt, rx_byte_val>>

CountDown ==
  /\ rx_state # "IDLE" /\ rx_baud_cnt # 0
  /\ rx_baud_cnt' = rx_baud_cnt - 1 /\ rx_push_byte' = FALSE
  /\ UNCHANGED <<rx_state, rx_shift, rx_bit_cnt, rx_byte_val>>

(* baud_div - 1 is a 32-bit difference; it is taken while a byte is        *)
(* received, when software has set baud_div.                               *)
ConfirmStart ==
  /\ rx_state = "START" /\ rx_baud_cnt = 0 /\ rx_push_byte' = FALSE
  /\ IF rx_sync1 = 0
     THEN rx_state' = "DATA" /\ rx_baud_cnt' = baud_div - 1 /\ rx_bit_cnt' = 0
     ELSE rx_state' = "IDLE" /\ UNCHANGED <<rx_baud_cnt, rx_bit_cnt>>
  /\ UNCHANGED <<rx_shift, rx_byte_val>>

SampleBit ==
  /\ rx_state = "DATA" /\ rx_baud_cnt = 0 /\ rx_push_byte' = FALSE
  /\ rx_shift' = ShiftIn(rx_shift, rx_sync1)
  /\ rx_baud_cnt' = baud_div - 1
  /\ IF rx_bit_cnt = Bits - 1
     THEN rx_state' = "STOP" /\ UNCHANGED rx_bit_cnt
     ELSE rx_bit_cnt' = rx_bit_cnt + 1 /\ UNCHANGED rx_state
  /\ UNCHANGED rx_byte_val

(* The byte is complete in rx_shift by now.  The stop bit is shifted in    *)
(* too: bit 0 is lost, every other bit is a place too low.                 *)
PushByte ==
  /\ rx_state = "STOP" /\ rx_baud_cnt = 0
  /\ rx_byte_val' = ShiftIn(rx_shift, rx_sync1)
  /\ rx_push_byte' = TRUE /\ rx_state' = "IDLE"
  /\ UNCHANGED <<rx_shift, rx_bit_cnt, rx_baud_cnt>>

Receiver == SeeStart \/ CountDown \/ ConfirmStart \/ SampleBit \/ PushByte

(* The queue behind it.  Here too the later assignment stands: a read on   *)
(* the edge of a push decrements the count, and a read of STATUS on the    *)
(* edge of an overrun clears the flag.                                     *)
Got(op) == op.kind = "getData" /\ ~rx_empty
Pushes == rx_push_byte /\ ~rx_full

RxQueueSilent(op) ==   \* mutant of RxQueue: an overrun is not flagged
  /\ rx_fifo' = IF Pushes THEN [rx_fifo EXCEPT ![rx_wr_ptr] = rx_byte_val]
                          ELSE rx_fifo
  /\ rx_wr_ptr' = IF Pushes THEN After(rx_wr_ptr) ELSE rx_wr_ptr
  /\ rx_rd_ptr' = IF Got(op) THEN After(rx_rd_ptr) ELSE rx_rd_ptr
  /\ rx_count' = IF Got(op) THEN (rx_count - 1) % CountWidth
                 ELSE IF Pushes THEN rx_count + 1 ELSE rx_count
  /\ UNCHANGED rx_overrun

RxQueueWraps(op) ==   \* mutant of RxQueue: a push overwrites when full
  /\ rx_fifo' = IF rx_push_byte THEN [rx_fifo EXCEPT ![rx_wr_ptr] = rx_byte_val]
                                ELSE rx_fifo
  /\ rx_wr_ptr' = IF rx_push_byte THEN After(rx_wr_ptr) ELSE rx_wr_ptr
  /\ rx_rd_ptr' = IF Got(op) THEN After(rx_rd_ptr) ELSE rx_rd_ptr
  /\ rx_count' = IF Got(op) THEN (rx_count - 1) % CountWidth
                 ELSE IF Pushes THEN rx_count + 1 ELSE rx_count
  /\ rx_overrun' = (op.kind # "getStatus"
                      /\ (rx_overrun \/ (rx_push_byte /\ rx_full)))

RxQueue(op) ==
  /\ rx_fifo' = IF Pushes THEN [rx_fifo EXCEPT ![rx_wr_ptr] = rx_byte_val]
                          ELSE rx_fifo
  /\ rx_wr_ptr' = IF Pushes THEN After(rx_wr_ptr) ELSE rx_wr_ptr
  /\ rx_rd_ptr' = IF Got(op) THEN After(rx_rd_ptr) ELSE rx_rd_ptr
  /\ rx_count' = IF Got(op) THEN (rx_count - 1) % CountWidth
                 ELSE IF Pushes THEN rx_count + 1 ELSE rx_count
  /\ rx_overrun' = (op.kind # "getStatus"
                      /\ (rx_overrun \/ (rx_push_byte /\ rx_full)))

UartEdge(op, rx) ==
  /\ BaudCounter /\ Control(op)
  /\ Sender /\ TxQueue(op)
  /\ Synchronise(rx) /\ Receiver /\ RxQueue(op)
=============================================================================
