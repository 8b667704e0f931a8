------------------------------ MODULE Transport ------------------------------
(***************************************************************************)
(* The ring buffers between the micro-ROS client and a serial port         *)
(* (modules/libmicroros/microros_transports): "serial", which this         *)
(* firmware is built with, and the alternative "usb" over CDC ACM.         *)
(* Reception is the same code in both: the interrupt handler empties the   *)
(* FIFO of the hardware into in_ringbuf, the client reads from there.      *)
(* "usb" also sends through a ring, "serial" byte by byte.  The two rings  *)
(* of "usb" are given one memory.  A full FIFO holds the agent back, so    *)
(* nothing is lost on the wire.                                            *)
(***************************************************************************)
EXTENDS Integers, FiniteSetsExt

CONSTANTS
  Transports,    \* the ones to look at
  RING_BUF_SIZE,
  BufferSize,    \* sizeof(buffer) of the handler
  FifoSize,      \* of the hardware, in either direction
  Windows,       \* bytes the agent may send ahead of the client's reads
  ReadLength,    \* len of a read
  WriteLengths,  \* len of a write
  Timeout,       \* timeout of a read in milliseconds
  Attempts       \* how often "serial" is opened until the agent answers

ASSUME TransportsAssumption == Transports \subseteq {"serial", "usb"}
ASSUME SizesAssumption ==
  {RING_BUF_SIZE, BufferSize, FifoSize, ReadLength, Timeout, Attempts}
    \cup Windows \cup WriteLengths \subseteq Nat \ {0}

Cells == 0..RING_BUF_SIZE - 1
\* Bytes are numbered by their sender, modulo more than can be under way.
Numbers == RING_BUF_SIZE + FifoSize + 1
Senders == {"client", "agent"}

VARIABLES
  transport, window,
  memory,      \* uart_in_buffer and uart_out_buffer
  in, out,     \* the rings: index of the next byte to get, bytes held
  fifo,        \* bytes of the agent in the hardware
  device,      \* bytes of the client in the hardware
  received,    \* per sender: number of the byte to be received next
  garbled,     \* a byte was received that is not the one sent, or none was
  rx_enabled, tx_enabled,   \* the interrupts
  in_callback, \* uart_fifo_callback runs
  pc,          \* the client: "closed", "opening", "idle", "write", "poll",
               \* "locked", "got"
  spent_time,
  opened       \* attempts to open

rings == <<memory, in, out, received, garbled>>
irq == <<rx_enabled, tx_enabled>>
client == <<pc, spent_time, opened>>
build == <<transport, window>>
hardware == <<fifo, device>>
vars == <<build, rings, hardware, irq, in_callback, client>>

\* zephyr_transport_open of serial-usb initialises in_ringbuf with the other
\* one's memory.
InBuffer == IF transport = "usb" THEN "uart_out_buffer" ELSE "uart_in_buffer"

Empty == [get |-> 0, held |-> 0]
Init ==
  /\ transport \in Transports /\ window \in Windows
  /\ memory = [b \in {"uart_in_buffer", "uart_out_buffer"} |->
                 [c \in Cells |-> <<"client", 0>>]]
  /\ in = Empty /\ out = Empty /\ fifo = 0 /\ device = 0
  /\ received = [s \in Senders |-> 0] /\ garbled = FALSE
  /\ rx_enabled = FALSE /\ tx_enabled = FALSE /\ in_callback = FALSE
  /\ pc = "closed" /\ spent_time = 0 /\ opened = 0

-----------------------------------------------------------------------------
(* Zephyr's ring_buf. *)

Space(ring) == RING_BUF_SIZE - ring.held
Grown(ring, n) == [ring EXCEPT !.held = @ + n]

Shrunk(ring, n) == [get |-> (ring.get + n) % RING_BUF_SIZE, held |-> ring.held - n]

\* memory after n bytes of a sender, the first of that number, are put.
Put(mem, buffer, ring, n, sender, first) ==
  [mem EXCEPT ![buffer] = [c \in Cells |->
    LET i == (c - ring.get - ring.held) % RING_BUF_SIZE
    IN IF i < n THEN <<sender, (first + i) % Numbers>> ELSE @[c]]]

\* The next n bytes of a ring are those of the sender that come next.
Expected(mem, buffer, ring, n, sender) ==
  \A i \in 0..n - 1 :
    mem[buffer][(ring.get + i) % RING_BUF_SIZE] =
      <<sender, (received[sender] + i) % Numbers>>

-----------------------------------------------------------------------------
(* The hardware and uart_fifo_callback, which the client cannot interrupt. *)

AgentSends ==
  /\ fifo < FifoSize /\ in.held + fifo < window
  /\ fifo' = fifo + 1
  /\ UNCHANGED <<build, rings, device, irq, in_callback, client>>

HostTakes ==
  /\ device > 0
  /\ device' = device - 1
  /\ UNCHANGED <<build, rings, fifo, irq, in_callback, client>>

RxReady == rx_enabled /\ fifo > 0
TxReady == tx_enabled /\ device < FifoSize
Pending == RxReady \/ TxReady

CallbackEnter ==
  /\ ~in_callback /\ Pending
  /\ in_callback' = TRUE
  /\ UNCHANGED <<build, rings, hardware, irq, client>>

CallbackReturn ==
  /\ in_callback /\ ~Pending
  /\ in_callback' = FALSE
  /\ UNCHANGED <<build, rings, hardware, irq, client>>

\* Mutant: the handler reads whole buffers only.
RxLengthWhole ==
  IF rx_enabled /\ Space(in) >= BufferSize THEN Min({BufferSize, fifo}) ELSE 0

\* What a turn of the handler reads, with a full ring nothing.
RxLength == IF rx_enabled THEN Min({Space(in), BufferSize, fifo}) ELSE 0

\* The number of the first byte in the FIFO.
NextRx == (received["agent"] + in.held) % Numbers

\* rb_len bytes leave the ring for the device, which keeps those it has room
\* for; what uart_fifo_fill answers is not looked at.
Fill(mem, rb_len) ==
  LET room == FifoSize - device IN
  /\ garbled' = (\/ garbled \/ rb_len > room
                  \/ ~Expected(mem, "uart_out_buffer", out, rb_len, "client"))
  /\ out' = Shrunk(out, rb_len)
  /\ device' = device + Min({rb_len, room})
  /\ received' = [received EXCEPT !["client"] = (@ + rb_len) % Numbers]

RbLen == Min({out.held, BufferSize})

\* Mutant: the transmit interrupt is disabled with the last bytes still there.
TransmitOnce(mem) ==
  \/ TxReady /\ tx_enabled' = FALSE /\ Fill(mem, RbLen)
  \/ ~TxReady /\ UNCHANGED <<tx_enabled, device, out, received, garbled>>

\* Transmission of at most a buffer; with nothing to send its interrupt is
\* disabled.
Transmit(mem) ==
  \/ TxReady /\ RbLen > 0 /\ Fill(mem, RbLen) /\ UNCHANGED tx_enabled
  \/ /\ TxReady /\ RbLen = 0 /\ tx_enabled' = FALSE
     /\ UNCHANGED <<device, out, received, garbled>>
  \/ ~TxReady /\ UNCHANGED <<tx_enabled, device, out, received, garbled>>

\* Mutant: what does not fit into the ring is put over the bytes held.
CallbackTurnBlindly ==
  /\ in_callback /\ Pending
  /\ LET rx == Min({BufferSize, fifo})
         mem == Put(memory, InBuffer, in, rx, "agent", NextRx) IN
     /\ memory' = mem
     /\ in' = [in EXCEPT !.held = Min({@ + rx, RING_BUF_SIZE})]
     /\ fifo' = fifo - rx
     /\ Transmit(mem)
  /\ UNCHANGED <<build, rx_enabled, in_callback, client>>

\* One turn of the loop: reception, then transmission.
CallbackTurn ==
  /\ in_callback /\ Pending
  /\ LET rx == RxLength
         mem == Put(memory, InBuffer, in, rx, "agent", NextRx) IN
     /\ memory' = mem
     /\ in' = Grown(in, rx) /\ fifo' = fifo - rx
     /\ Transmit(mem)
  /\ UNCHANGED <<build, rx_enabled, in_callback, client>>

Callback == CallbackEnter \/ CallbackTurn \/ CallbackReturn

-----------------------------------------------------------------------------
(* The client in the main thread; it stands still while the handler runs. *)

\* "serial" is opened again until the agent answers, with the interrupt of the
\* last attempt still enabled, and drops what waits in the ring; a second
\* attempt of "usb" fails before it comes to the rings (Startup).
OpenRings ==
  /\ ~in_callback /\ pc \in {"closed", "idle"}
  /\ opened < IF transport = "usb" THEN 1 ELSE Attempts
  /\ opened' = opened + 1
  /\ in' = Empty /\ out' = Empty
  /\ received' = [received EXCEPT !["agent"] = NextRx]
  /\ pc' = "opening"
  /\ UNCHANGED <<build, memory, garbled, hardware, irq, in_callback, spent_time>>

OpenInterrupt ==
  /\ ~in_callback /\ pc = "opening"
  /\ rx_enabled' = TRUE
  /\ pc' = "idle"
  /\ UNCHANGED <<build, rings, hardware, tx_enabled, in_callback, spent_time, opened>>

zephyr_transport_open == OpenRings \/ OpenInterrupt

\* What does not fit is not put; the caller is told how much was.
WriteBegin ==
  /\ ~in_callback /\ pc = "idle" /\ transport = "usb"
  /\ \E len \in WriteLengths :
       LET wrote == Min({len, Space(out)}) IN
       /\ memory' = Put(memory, "uart_out_buffer", out, wrote, "client",
                        received["client"] + out.held)
       /\ out' = Grown(out, wrote)
  /\ tx_enabled' = TRUE
  /\ pc' = "write"
  /\ UNCHANGED <<build, in, received, garbled, hardware, rx_enabled, in_callback,
                 spent_time, opened>>

\* Polled every 5 ms.
WriteReturn ==
  /\ ~in_callback /\ pc = "write"
  /\ pc' = IF out.held = 0 THEN "idle" ELSE pc
  /\ UNCHANGED <<build, rings, hardware, irq, in_callback, spent_time, opened>>

ReadBegin ==
  /\ ~in_callback /\ pc = "idle"
  /\ pc' = "poll" /\ spent_time' = 0
  /\ UNCHANGED <<build, rings, hardware, irq, in_callback, opened>>

\* A sleep of a millisecond: an interrupt that waits is served in it.
ReadPoll ==
  /\ ~in_callback /\ ~Pending
  /\ pc = "poll" /\ in.held = 0 /\ spent_time < Timeout
  /\ spent_time' = spent_time + 1
  /\ UNCHANGED <<build, rings, hardware, irq, in_callback, pc, opened>>

ReadLock ==
  /\ ~in_callback /\ pc = "poll" /\ (in.held > 0 \/ spent_time = Timeout)
  /\ rx_enabled' = FALSE /\ pc' = "locked"
  /\ UNCHANGED <<build, rings, hardware, tx_enabled, in_callback, spent_time, opened>>

ReadGet ==
  /\ ~in_callback /\ pc = "locked"
  /\ LET len == Min({ReadLength, in.held}) IN
     /\ garbled' = (garbled \/ ~Expected(memory, InBuffer, in, len, "agent"))
     /\ in' = Shrunk(in, len)
     /\ received' = [received EXCEPT !["agent"] = (@ + len) % Numbers]
  /\ pc' = "got"
  /\ UNCHANGED <<build, memory, out, hardware, irq, in_callback, spent_time, opened>>

\* Mutant: the interrupt stays disabled after an empty read.
ReadUnlockSometimes ==
  /\ ~in_callback /\ pc = "got"
  /\ rx_enabled' = (spent_time < Timeout)
  /\ pc' = "idle"
  /\ UNCHANGED <<build, rings, hardware, tx_enabled, in_callback, spent_time, opened>>

ReadUnlock ==
  /\ ~in_callback /\ pc = "got"
  /\ rx_enabled' = TRUE
  /\ pc' = "idle"
  /\ UNCHANGED <<build, rings, hardware, tx_enabled, in_callback, spent_time, opened>>

Read == ReadBegin \/ ReadPoll \/ ReadLock \/ ReadGet \/ ReadUnlock

Next ==
  \/ AgentSends \/ HostTakes \/ Callback
  \/ zephyr_transport_open \/ WriteBegin \/ WriteReturn \/ Read

Spec == Init /\ [][Next]_vars
\* The hardware interrupts, the host takes what it is sent; a session is
\* opened; writes and reads go on, and the executor reads in every turn of its
\* loop, however much it writes.
FairSpec ==
  /\ Spec /\ WF_vars(Callback) /\ WF_vars(HostTakes)
  /\ WF_vars(WriteReturn) /\ WF_vars(Read) /\ SF_vars(ReadBegin)
  /\ WF_vars(pc # "idle" /\ zephyr_transport_open)

-----------------------------------------------------------------------------
(* Properties. *)

TypeOK ==
  /\ transport \in Transports /\ window \in Windows
  /\ memory \in [{"uart_in_buffer", "uart_out_buffer"} ->
                   [Cells -> Senders \X (0..Numbers - 1)]]
  /\ {in, out} \subseteq [get : Cells, held : 0..RING_BUF_SIZE]
  /\ fifo \in 0..FifoSize /\ device \in 0..FifoSize
  /\ received \in [Senders -> 0..Numbers - 1]
  /\ {garbled, rx_enabled, tx_enabled, in_callback} \subseteq BOOLEAN
  /\ pc \in {"closed", "opening", "idle", "write", "poll", "locked", "got"}
  /\ spent_time \in 0..Timeout /\ opened \in 0..Attempts

\* "serial": the client receives what the agent sent, every byte once and in
\* order, however much the agent sends ahead and however often the transport is
\* opened: between FIFO, handler, ring and reads nothing is lost or written over.
SentIsReceived == transport = "serial" => ~garbled

\* docu/src/tops_mes.md: the master subscribes to the feedback, "vice versa" it
\* publishes the commands: the bytes of both directions arrive as they were sent.
BytesAreWhole == ~garbled

\* An agent that sends no more ahead than the ring holds.
Paced == window <= RING_BUF_SIZE

\* A write returns, as long as the agent sends no more ahead than the ring
\* holds: the handler never leaves bytes behind that nothing sends.  A window
\* beyond the ring keeps the handler from returning (MainComesRound), and with
\* it the poll of a write.
WritesReturnIfPaced == Paced => (pc = "write" ~> pc = "idle")

UnderWay == {(received["agent"] + i) % Numbers : i \in 0..in.held + fifo - 1}
InFifo == {(NextRx + i) % Numbers : i \in 0..fifo - 1}

\* Every byte of such an agent is read, or dropped by a new session.
BytesArrive ==
  Paced => \A b \in 0..Numbers - 1 : b \in InFifo ~> b \notin UnderWay

\* docu/src/tops_mes.md: the feedback is published "regularly in one second
\* intervals": the thread that publishes it comes round again and again.
MainComesRound == []<><<ReadBegin>>_vars
ComesRoundIfPaced == Paced => MainComesRound
=============================================================================
