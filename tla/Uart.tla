--------------------------------- MODULE Uart ---------------------------------
(***************************************************************************)
(* The PL011 that the hypervisor passes through to the guest, the guest's  *)
(* driver for it (guest/xv6/kernel/uart.c), and uart_init of the           *)
(* hypervisor, which every secondary CPU runs while the guest boots.       *)
(*                                                                         *)
(* Bytes written with uartputc are numbered in the order in which they     *)
(* enter uart_tx_buf; a byte of uartputc_sync, which takes no lock, is 0.  *)
(* The device transmits from a FIFO and raises TX when the FIFO falls to   *)
(* its trigger level.                                                      *)
(***************************************************************************)
EXTENDS Integers, Sequences, FiniteSets

CONSTANTS
    Writer,         \* processes in uartputc
    Secondary,      \* CPUs that run uart_init of the hypervisor
    SyncCpu,        \* CPUs in uartputc_sync
    BufSize,        \* UART_TX_BUF_SIZE
    FifoSize,
    Trigger,        \* level of the transmit FIFO at which TX is raised
    MaxOut,         \* bound: bytes given to uartputc
    MaxIn           \* bound: keys pressed

None == "nobody"
Intr == "uartintr"

ASSUME UartAssumption ==
    /\ BufSize \in Nat \ {0} /\ FifoSize \in Nat \ {0} /\ Trigger \in 0 .. FifoSize - 1
    /\ MaxOut \in Nat /\ MaxIn \in Nat
    /\ None \notin Writer /\ Intr \notin Writer

VARIABLES
    cr,         \* UART enabled
    imsc,       \* interrupt mask
    ris,        \* raw interrupt status
    fifo,       \* transmit FIFO
    rx,         \* bytes in the receive FIFO
    out,        \* bytes transmitted
    buf,        \* uart_tx_buf from uart_tx_r to uart_tx_w
    wrote,      \* bytes that entered buf
    lock,       \* uart_tx_lock
    pc,         \* the writers, the interrupt handler and uartputc_sync
    init,       \* step of uartinit and of each uart_init
    typed       \* keys pressed

device == <<cr, imsc, ris, fifo, rx, out>>
vars == <<device, buf, wrote, lock, pc, init, typed>>

Proc == Writer \cup {Intr} \cup SyncCpu

TypeOK ==
    /\ cr \in BOOLEAN
    /\ imsc \subseteq {"RX", "TX"} /\ ris \subseteq {"RX", "TX"}
    /\ Len(fifo) <= FifoSize /\ Len(buf) <= BufSize
    /\ rx \in 0 .. MaxIn /\ wrote \in 0 .. MaxOut
    /\ lock \in Writer \cup {Intr, None}
    /\ pc \in [Proc -> {"idle", "putc", "asleep", "woken", "start", "send",
                       "release", "lock", "icr", "room", "done"}]
    /\ init \in [Secondary \cup {"guest"} -> 0 .. 4]

Init ==
    /\ cr = TRUE /\ imsc = {"RX"} /\ ris = {}
    /\ fifo = <<>> /\ rx = 0 /\ out = <<>>
    /\ buf = <<>> /\ wrote = 0 /\ lock = None
    /\ pc = [p \in Proc |-> "idle"]
    /\ init = [c \in Secondary \cup {"guest"} |-> 0]
    /\ typed = 0

Goto(p, l) == pc' = [pc EXCEPT ![p] = l]

GuestUp == init["guest"] = 4
-----------------------------------------------------------------------------
(* The device                                                              *)

\* A full FIFO drops the byte.
WriteDR(b) ==
    /\ fifo' = IF Len(fifo) < FifoSize THEN Append(fifo, b) ELSE fifo
    /\ ris' = IF Len(fifo) + 1 > Trigger THEN ris \ {"TX"} ELSE ris

Transmit ==
    /\ cr /\ fifo # <<>>
    /\ out' = Append(out, Head(fifo))
    /\ fifo' = Tail(fifo)
    /\ ris' = IF Len(fifo) - 1 = Trigger THEN ris \cup {"TX"} ELSE ris
    /\ UNCHANGED <<cr, imsc, rx, buf, wrote, lock, pc, init, typed>>

KeyPress ==
    /\ cr /\ typed < MaxIn
    /\ rx' = rx + 1
    /\ ris' = ris \cup {"RX"}
    /\ typed' = typed + 1
    /\ UNCHANGED <<cr, imsc, fifo, out, buf, wrote, lock, pc, init>>
-----------------------------------------------------------------------------
(* uartinit of the guest, uart_init of the hypervisor: CR and IMSC off, CR *)
(* and IMSC on again; the hypervisor wants receive interrupts only.        *)

InitStep(c, mask) ==
    /\ init[c] < 4
    /\ cr' = CASE init[c] = 0 -> FALSE [] init[c] = 2 -> TRUE [] OTHER -> cr
    /\ imsc' = CASE init[c] = 1 -> {} [] init[c] = 3 -> mask [] OTHER -> imsc
    /\ init' = [init EXCEPT ![c] = @ + 1]
    /\ UNCHANGED <<ris, fifo, rx, out, buf, wrote, lock, pc, typed>>

GuestInit == InitStep("guest", {"RX", "TX"})

HypInit(c) == InitStep(c, {"RX"})
-----------------------------------------------------------------------------
(* uartputc                                                                *)

Acquire(p, from, to) ==
    /\ pc[p] = from
    /\ lock = None
    /\ lock' = p
    /\ Goto(p, to)

Pending == Cardinality({w \in Writer : pc[w] \in {"putc", "asleep", "woken"}})

Putc(w) ==
    /\ GuestUp /\ wrote + Pending < MaxOut
    /\ Acquire(w, "idle", "putc")
    /\ UNCHANGED <<device, buf, wrote, init, typed>>

Store(w) ==
    /\ pc[w] = "putc"
    /\ Len(buf) < BufSize
    /\ buf' = Append(buf, wrote + 1)
    /\ wrote' = wrote + 1
    /\ Goto(w, "start")
    /\ UNCHANGED <<device, lock, init, typed>>

\* sleep(&uart_tx_r, &uart_tx_lock), and the lock again after wakeup.
Sleep(w) ==
    /\ pc[w] = "putc"
    /\ Len(buf) = BufSize
    /\ lock' = None
    /\ Goto(w, "asleep")
    /\ UNCHANGED <<device, buf, wrote, init, typed>>

Wake(w) ==
    /\ Acquire(w, "woken", "putc")
    /\ UNCHANGED <<device, buf, wrote, init, typed>>
-----------------------------------------------------------------------------
(* uartstart, called with the lock held                                    *)

\* The flag register says that the FIFO has room.
RoomForByte(p) ==
    /\ pc[p] = "start"
    /\ buf # <<>> /\ Len(fifo) < FifoSize
    /\ Goto(p, "send")
    /\ UNCHANGED <<device, buf, wrote, lock, init, typed>>

\* Sleepers are woken whenever a byte leaves the buffer.
Wakeup(p) ==
    pc' = [q \in Proc |-> CASE q = p -> "start"
                            [] pc[q] = "asleep" -> "woken"
                            [] OTHER -> pc[q]]

\* The newest byte.
SendLast(p) ==
    /\ pc[p] = "send"
    /\ WriteDR(buf[Len(buf)])
    /\ buf' = SubSeq(buf, 1, Len(buf) - 1)
    /\ Wakeup(p)
    /\ UNCHANGED <<cr, imsc, rx, out, wrote, lock, init, typed>>

\* The oldest byte of the buffer goes to the data register.
SendByte(p) ==
    /\ pc[p] = "send"
    /\ WriteDR(Head(buf))
    /\ buf' = Tail(buf)
    /\ Wakeup(p)
    /\ UNCHANGED <<cr, imsc, rx, out, wrote, lock, init, typed>>

\* Empty, or the FIFO is full: "it will interrupt when it's ready".
StartDone(p) ==
    /\ pc[p] = "start"
    /\ buf = <<>> \/ Len(fifo) = FifoSize
    /\ Goto(p, "release")
    /\ UNCHANGED <<device, buf, wrote, lock, init, typed>>

Release(p) ==
    /\ pc[p] = "release"
    /\ lock' = None
    /\ Goto(p, IF p = Intr THEN "icr" ELSE "idle")
    /\ UNCHANGED <<device, buf, wrote, init, typed>>
-----------------------------------------------------------------------------
(* uartintr                                                                *)

\* Read what was received until the receive FIFO is empty.
TakeIntr ==
    /\ pc[Intr] = "idle" /\ GuestUp
    /\ imsc \cap ris # {}
    /\ rx' = 0
    /\ Goto(Intr, "lock")
    /\ UNCHANGED <<cr, imsc, ris, fifo, out, buf, wrote, lock, init, typed>>

IntrLock ==
    /\ Acquire(Intr, "lock", "start")
    /\ UNCHANGED <<device, buf, wrote, init, typed>>

\* Both interrupts are cleared, at the very end.
ClearIcr ==
    /\ pc[Intr] = "icr"
    /\ ris' = {}
    /\ Goto(Intr, "idle")
    /\ UNCHANGED <<cr, imsc, fifo, rx, out, buf, wrote, lock, init, typed>>
-----------------------------------------------------------------------------
(* uartputc_sync: wait until there is room, then write, without the lock.  *)

SyncCheck(c) ==
    /\ pc[c] = "idle" /\ GuestUp
    /\ Len(fifo) < FifoSize
    /\ Goto(c, "room")
    /\ UNCHANGED <<device, buf, wrote, lock, init, typed>>

SyncWrite(c) ==
    /\ pc[c] = "room"
    /\ WriteDR(0)
    /\ Goto(c, "done")
    /\ UNCHANGED <<cr, imsc, rx, out, buf, wrote, lock, init, typed>>

Device == Transmit \/ KeyPress
Writers(w) == Putc(w) \/ Store(w) \/ Sleep(w) \/ Wake(w)
Driver(p) == RoomForByte(p) \/ SendByte(p) \/ StartDone(p) \/ Release(p)
Interrupt == TakeIntr \/ IntrLock \/ ClearIcr
Sync(c) == SyncCheck(c) \/ SyncWrite(c)

Next ==
    \/ Device \/ GuestInit \/ Interrupt
    \/ \E c \in Secondary : HypInit(c)
    \/ \E w \in Writer : Writers(w)
    \/ \E p \in Writer \cup {Intr} : Driver(p)
    \/ \E c \in SyncCpu : Sync(c)

Spec == Init /\ [][Next]_vars

-----------------------------------------------------------------------------
\* The bytes of uartputc in s, in their order.
Buffered(s) == SelectSeq(s, LAMBDA b : b # 0)

\* Bytes given to uartputc are transmitted in the order in which they entered
\* the buffer, each at most once, across the buffer, the FIFO and the wire, and
\* none is lost, except that a byte kernel printf writes to the device without
\* the lock may cost one.
OutputInOrder ==
    LET s == Buffered(out \o fifo \o buf)
    IN /\ \A i, j \in 1 .. Len(s) : i < j => s[i] < s[j]
       /\ wrote - Len(s) <= Cardinality({c \in SyncCpu : pc[c] = "done"})
==============================================================================
