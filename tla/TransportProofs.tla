--------------------------- MODULE TransportProofs ---------------------------
(***************************************************************************)
(* Reception of "serial", proved for all sizes of ring, buffer, FIFO and   *)
(* reads, for every window of the agent and any number of attempts to      *)
(* open.                                                                   *)
(*                                                                         *)
(* The bytes the ring holds are the next ones of the agent (InOK), and     *)
(* nothing is ever sent through the other ring.  Of "usb" no more than the *)
(* types can be proved: its rings lie in one memory.                       *)
(***************************************************************************)
EXTENDS Transport, TLAPS

InOK == Expected(memory, InBuffer, in, in.held, "agent")
Whole == InOK /\ ~garbled /\ ~tx_enabled

IInv == TypeOK /\ (transport = "serial" => Whole)

-----------------------------------------------------------------------------
(* Remainders. *)

\* The remainder is determined by its range.
LEMMA RemainderUnique ==
  ASSUME NEW n \in Nat \ {0}, NEW x \in Int, NEW k \in Int, NEW r \in 0..n - 1,
         x = n * k + r
  PROVE  x % n = r
<1> DEFINE q == x \div n
           m == x % n
<1>1. q \in Int /\ m \in 0..n - 1 /\ x = n * q + m
  OBVIOUS
<1> HIDE DEF q, m
<1>2. n * (q - k) = r - m
  BY <1>1
<1>3. q - k >= 1 => n * (q - k) >= n
  BY <1>1
<1>4. q - k <= -1 => n * (q - k) <= -n
  BY <1>1
<1>5. q = k
  BY <1>1, <1>2, <1>3, <1>4
<1>6. m = r
  BY <1>1, <1>5
<1> QED
  BY <1>6 DEF m

\* A summand may be reduced before.
LEMMA RemainderOfSum ==
  ASSUME NEW n \in Nat \ {0}, NEW a \in Int, NEW b \in Int
  PROVE  ((a % n) + b) % n = (a + b) % n
<1> DEFINE qa == a \div n
           ra == a % n
           qs == (ra + b) \div n
           rs == (ra + b) % n
<1>1. qa \in Int /\ ra \in 0..n - 1 /\ a = n * qa + ra
  OBVIOUS
<1>2. qs \in Int /\ rs \in 0..n - 1 /\ ra + b = n * qs + rs
  BY <1>1
<1> HIDE DEF qa, ra, qs, rs
<1>3. a + b = n * (qa + qs) + rs /\ a + b \in Int /\ qa + qs \in Int
  BY <1>1, <1>2
<1>4. (a + b) % n = rs
  BY <1>1, <1>2, <1>3, RemainderUnique
<1> QED
  BY <1>4 DEF ra, rs

-----------------------------------------------------------------------------
(* Sizes, and the least of a few numbers. *)

LEMMA Sizes ==
  /\ RING_BUF_SIZE \in Nat \ {0} /\ BufferSize \in Nat \ {0} /\ FifoSize \in Nat \ {0}
  /\ ReadLength \in Nat \ {0} /\ Timeout \in Nat \ {0} /\ Attempts \in Nat \ {0}
  /\ Numbers \in Nat \ {0} /\ WriteLengths \subseteq Nat /\ Windows \subseteq Nat
  BY SizesAssumption DEF Numbers

LEMMA LeastOfTwo ==
  ASSUME NEW a \in Nat, NEW b \in Nat
  PROVE  Min({a, b}) = IF a <= b THEN a ELSE b
<1>1. \E x \in {a, b} : \A y \in {a, b} : x <= y
  OBVIOUS
<1>2. Min({a, b}) \in {a, b} /\ \A y \in {a, b} : Min({a, b}) <= y
  BY <1>1 DEF Min
<1> QED
  BY <1>2

LEMMA LeastOfThree ==
  ASSUME NEW a \in Nat, NEW b \in Nat, NEW c \in Nat
  PROVE  /\ Min({a, b, c}) \in Nat
         /\ Min({a, b, c}) <= a /\ Min({a, b, c}) <= b /\ Min({a, b, c}) <= c
<1>1. \E x \in {a, b, c} : \A y \in {a, b, c} : x <= y
  OBVIOUS
<1>2. Min({a, b, c}) \in {a, b, c} /\ \A y \in {a, b, c} : Min({a, b, c}) <= y
  BY <1>1 DEF Min
<1> QED
  BY <1>2

-----------------------------------------------------------------------------
(* The rings. *)

\* A byte of a ring lies as far behind the end of it as its number tells.
LEMMA Distance ==
  ASSUME NEW get \in Cells, NEW held \in 0..RING_BUF_SIZE, NEW i \in Cells
  PROVE  LET c == (get + i) % RING_BUF_SIZE IN
         /\ c \in Cells
         /\ (c - get - held) % RING_BUF_SIZE =
              IF i >= held THEN i - held ELSE RING_BUF_SIZE + i - held
<1> DEFINE n == RING_BUF_SIZE
           c == (get + i) % n
           d == IF i >= held THEN i - held ELSE n + i - held
<1>1. n \in Nat \ {0} /\ get \in 0..n - 1 /\ held \in 0..n /\ i \in 0..n - 1
  BY Sizes DEF Cells
<1>2. d \in 0..n - 1
  BY <1>1
<1>3. c = IF get + i < n THEN get + i ELSE get + i - n
  <2>1. CASE get + i < n
    <3>1. get + i = n * 0 + (get + i) /\ get + i \in 0..n - 1
      BY <1>1, <2>1
    <3> QED
      BY <1>1, <2>1, <3>1, RemainderUnique
  <2>2. CASE ~(get + i < n)
    <3>1. get + i = n * 1 + (get + i - n) /\ get + i - n \in 0..n - 1
      BY <1>1, <2>2
    <3> QED
      BY <1>1, <2>2, <3>1, RemainderUnique
  <2> QED
    BY <2>1, <2>2
<1>4. \E k \in Int : c - get - held = n * k + d
  <2>1. \/ c - get - held = n * 0 + d
        \/ c - get - held = n * (-1) + d
        \/ c - get - held = n * (-2) + d
    BY <1>1, <1>3
  <2> QED
    BY <2>1
<1>5. c - get - held \in Int /\ c \in 0..n - 1
  BY <1>1, <1>3
<1> HIDE DEF n, c, d
<1>6. (c - get - held) % n = d
  BY <1>1, <1>2, <1>4, <1>5, RemainderUnique
<1> QED
  BY <1>5, <1>6 DEF Cells, n, c, d

\* What the next bytes of a ring are depends on its memory alone.
Holds(cells, get, n, sender, first) ==
  \A i \in 0..n - 1 :
    cells[(get + i) % RING_BUF_SIZE] = <<sender, (first + i) % Numbers>>

\* n bytes put after those a ring holds are held with them.
LEMMA PutHolds ==
  ASSUME NEW cells \in [Cells -> Senders \X (0..Numbers - 1)],
         NEW get \in Cells, NEW held \in 0..RING_BUF_SIZE,
         NEW n \in 0..RING_BUF_SIZE - held, NEW sender, NEW first \in Nat,
         Holds(cells, get, held, sender, first),
         NEW number \in Nat, number % Numbers = (first + held) % Numbers
  PROVE  Holds([c \in Cells |->
                  LET i == (c - get - held) % RING_BUF_SIZE
                  IN IF i < n THEN <<sender, (number + i) % Numbers>> ELSE cells[c]],
               get, held + n, sender, first)
<1> DEFINE new == [c \in Cells |->
                     LET i == (c - get - held) % RING_BUF_SIZE
                     IN IF i < n THEN <<sender, (number + i) % Numbers>> ELSE cells[c]]
<1> SUFFICES Holds(new, get, held + n, sender, first)
  OBVIOUS
<1> HIDE DEF new
<1> SUFFICES ASSUME NEW j \in 0..held + n - 1
             PROVE  new[(get + j) % RING_BUF_SIZE] = <<sender, (first + j) % Numbers>>
  BY DEF Holds
<1>1. j \in Cells
  BY Sizes DEF Cells
<1> DEFINE c == (get + j) % RING_BUF_SIZE
           i == (c - get - held) % RING_BUF_SIZE
<1>2. /\ c \in Cells
      /\ i = IF j >= held THEN j - held ELSE RING_BUF_SIZE + j - held
  BY <1>1, Distance
<1>3. new[c] = IF i < n THEN <<sender, (number + i) % Numbers>> ELSE cells[c]
  BY <1>2 DEF new
<1> HIDE DEF c, i
<1>4. CASE j >= held
  <2>1. i < n /\ i = j - held /\ i \in Int
    BY <1>2, <1>4
  <2>2. number \in Int /\ first + held \in Int /\ first + held + i = first + j
    BY <2>1
  <2>3. ((number % Numbers) + i) % Numbers = (number + i) % Numbers
    BY <2>1, <2>2, RemainderOfSum, Sizes, Zenon
  <2>4. (((first + held) % Numbers) + i) % Numbers = (first + held + i) % Numbers
    BY <2>1, <2>2, RemainderOfSum, Sizes, Zenon
  <2> QED
    BY <1>3, <2>1, <2>2, <2>3, <2>4 DEF c
<1>5. CASE ~(j >= held)
  <2>1. ~(i < n)
    BY <1>2, <1>5, Sizes
  <2>2. j \in 0..held - 1
    BY <1>5
  <2> QED
    BY <1>3, <2>1, <2>2 DEF Holds, c
<1> QED
  BY <1>4, <1>5 DEF c

\* After n bytes are taken out the rest is held.
LEMMA RestHolds ==
  ASSUME NEW cells, NEW get \in Cells, NEW held \in 0..RING_BUF_SIZE, NEW n \in 0..held,
         NEW sender, NEW first \in Nat, Holds(cells, get, held, sender, first)
  PROVE  Holds(cells, (get + n) % RING_BUF_SIZE, held - n, sender, (first + n) % Numbers)
<1> SUFFICES ASSUME NEW i \in 0..held - n - 1
             PROVE  cells[(((get + n) % RING_BUF_SIZE) + i) % RING_BUF_SIZE] =
                      <<sender, (((first + n) % Numbers) + i) % Numbers>>
  BY DEF Holds
<1>1. (((get + n) % RING_BUF_SIZE) + i) % RING_BUF_SIZE = (get + (n + i)) % RING_BUF_SIZE
  <2>1. get + n \in Int /\ i \in Int /\ get + n + i = get + (n + i)
    BY DEF Cells
  <2>2. (((get + n) % RING_BUF_SIZE) + i) % RING_BUF_SIZE = (get + n + i) % RING_BUF_SIZE
    BY <2>1, RemainderOfSum, Sizes, Zenon
  <2> QED
    BY <2>1, <2>2
<1>2. (((first + n) % Numbers) + i) % Numbers = (first + (n + i)) % Numbers
  <2>1. first + n \in Int /\ i \in Int /\ first + n + i = first + (n + i)
    OBVIOUS
  <2>2. (((first + n) % Numbers) + i) % Numbers = (first + n + i) % Numbers
    BY <2>1, RemainderOfSum, Sizes, Zenon
  <2> QED
    BY <2>1, <2>2
<1>3. n + i \in 0..held - 1
  OBVIOUS
<1> QED
  BY <1>1, <1>2, <1>3 DEF Holds

Rings == [get : Cells, held : 0..RING_BUF_SIZE]
Cell == Senders \X (0..Numbers - 1)
Memories == [{"uart_in_buffer", "uart_out_buffer"} -> [Cells -> Cell]]

\* What Put does to a buffer.
LEMMA PutTyped ==
  ASSUME NEW mem \in Memories, NEW buffer \in {"uart_in_buffer", "uart_out_buffer"},
         NEW ring \in Rings, NEW n \in Nat, NEW sender \in Senders, NEW number \in Nat
  PROVE  /\ Put(mem, buffer, ring, n, sender, number) \in Memories
         /\ Put(mem, buffer, ring, n, sender, number)[buffer] =
              [c \in Cells |->
                 LET i == (c - ring.get - ring.held) % RING_BUF_SIZE
                 IN IF i < n THEN <<sender, (number + i) % Numbers>>
                    ELSE mem[buffer][c]]
<1> DEFINE Index(c) == (c - ring.get - ring.held) % RING_BUF_SIZE
           Byte(i) == <<sender, (number + i) % Numbers>>
           new == [c \in Cells |-> IF Index(c) < n THEN Byte(Index(c)) ELSE mem[buffer][c]]
<1>1. Put(mem, buffer, ring, n, sender, number) = [mem EXCEPT ![buffer] = new]
  BY DEF Put
<1>2. mem[buffer] \in [Cells -> Cell]
  BY DEF Memories
<1>3. \A c \in Cells : Index(c) \in Nat
  BY Sizes DEF Cells, Rings
<1>4. \A i \in Nat : Byte(i) \in Cell
  BY Sizes DEF Cell
<1> HIDE DEF Index, Byte
<1>5. new \in [Cells -> Cell]
  BY <1>2, <1>3, <1>4
<1>6. [mem EXCEPT ![buffer] = new] \in Memories /\ [mem EXCEPT ![buffer] = new][buffer] = new
  BY <1>5 DEF Memories
<1> QED
  BY <1>1, <1>6 DEF Index, Byte

\* With no bytes it does nothing.
LEMMA PutNothing ==
  ASSUME NEW mem \in Memories, NEW buffer \in {"uart_in_buffer", "uart_out_buffer"},
         NEW ring \in Rings, NEW sender \in Senders, NEW number \in Nat
  PROVE  Put(mem, buffer, ring, 0, sender, number) = mem
<1> DEFINE Index(c) == (c - ring.get - ring.held) % RING_BUF_SIZE
           Byte(i) == <<sender, (number + i) % Numbers>>
           new == [c \in Cells |-> IF Index(c) < 0 THEN Byte(Index(c)) ELSE mem[buffer][c]]
<1>1. Put(mem, buffer, ring, 0, sender, number) = [mem EXCEPT ![buffer] = new]
  BY DEF Put
<1>2. mem[buffer] \in [Cells -> Cell]
  BY DEF Memories
<1>3. \A c \in Cells : Index(c) \in Nat
  BY Sizes DEF Cells, Rings
<1> HIDE DEF Index, Byte
<1>4. new = mem[buffer]
  BY <1>2, <1>3
<1> HIDE DEF new
<1> QED
  BY <1>1, <1>4 DEF Memories

\* A ring from which n bytes are taken, or to which n are added.
LEMMA RingTyped ==
  ASSUME NEW ring \in Rings
  PROVE  /\ \A n \in 0..ring.held :
              /\ Shrunk(ring, n) \in Rings
              /\ Shrunk(ring, n).get = (ring.get + n) % RING_BUF_SIZE
              /\ Shrunk(ring, n).held = ring.held - n
         /\ \A n \in 0..Space(ring) :
              /\ Grown(ring, n) \in Rings
              /\ Grown(ring, n).get = ring.get /\ Grown(ring, n).held = ring.held + n
         /\ Space(ring) \in Nat
<1>1. ring.get \in Cells /\ ring.held \in 0..RING_BUF_SIZE
  BY DEF Rings
<1>2. ASSUME NEW n \in 0..ring.held
      PROVE  /\ Shrunk(ring, n) \in Rings
             /\ Shrunk(ring, n).get = (ring.get + n) % RING_BUF_SIZE
             /\ Shrunk(ring, n).held = ring.held - n
  <2>1. (ring.get + n) % RING_BUF_SIZE \in Cells /\ ring.held - n \in 0..RING_BUF_SIZE
    BY <1>1, Sizes DEF Cells
  <2> QED
    BY <2>1 DEF Shrunk, Rings
<1>3. Space(ring) \in Nat
  BY <1>1, Sizes DEF Space
<1>4. ASSUME NEW n \in 0..Space(ring)
      PROVE  /\ Grown(ring, n) \in Rings
             /\ Grown(ring, n).get = ring.get /\ Grown(ring, n).held = ring.held + n
  BY <1>1, Sizes DEF Grown, Rings, Space
<1> QED
  BY <1>2, <1>3, <1>4

-----------------------------------------------------------------------------
(* The invariant, in terms of Holds. *)

LEMMA InHolds == InOK <=> Holds(memory[InBuffer], in.get, in.held, "agent", received["agent"])
  BY DEF InOK, Expected, Holds

LEMMA Typed ==
  ASSUME TypeOK
  PROVE  /\ memory \in Memories /\ in \in Rings /\ out \in Rings
         /\ in.get \in Cells /\ in.held \in 0..RING_BUF_SIZE
         /\ out.get \in Cells /\ out.held \in 0..RING_BUF_SIZE
         /\ fifo \in Nat /\ transport \in {"serial", "usb"}
         /\ received["agent"] \in 0..Numbers - 1 /\ received["client"] \in 0..Numbers - 1
         /\ InBuffer \in {"uart_in_buffer", "uart_out_buffer"}
  BY TransportsAssumption DEF TypeOK, Memories, Cell, Rings, Senders, InBuffer

\* The first bytes of a ring are those that come next, too.
LEMMA FirstHold ==
  ASSUME NEW cells, NEW get, NEW held \in Nat, NEW n \in 0..held, NEW sender,
         NEW first, Holds(cells, get, held, sender, first)
  PROVE  Holds(cells, get, n, sender, first)
<1> SUFFICES ASSUME NEW i \in 0..n - 1
             PROVE  cells[(get + i) % RING_BUF_SIZE] = <<sender, (first + i) % Numbers>>
  BY DEF Holds
<1>1. i \in 0..held - 1
  OBVIOUS
<1> QED
  BY <1>1 DEF Holds

\* An empty ring holds nothing wrong.
LEMMA EmptyHolds ==
  ASSUME NEW cells, NEW get, NEW sender, NEW first
  PROVE  Holds(cells, get, 0, sender, first)
  BY DEF Holds

LEMMA Starts == Init => IInv
<1> SUFFICES ASSUME Init PROVE IInv
  OBVIOUS
<1>1. Empty \in Rings /\ in = Empty /\ out = Empty /\ in.held = 0
  BY Sizes DEF Init, Empty, Rings, Cells
<1>2. memory \in Memories /\ received \in [Senders -> 0..Numbers - 1]
  BY Sizes DEF Init, Memories, Cell, Senders
<1>3. /\ fifo \in 0..FifoSize /\ device \in 0..FifoSize
      /\ spent_time \in 0..Timeout /\ opened \in 0..Attempts
  BY Sizes DEF Init
<1>4. TypeOK
  BY <1>1, <1>2, <1>3 DEF Init, TypeOK, Memories, Cell, Rings
<1>5. Whole
  BY <1>1, EmptyHolds, InHolds DEF Init, Whole
<1> QED
  BY <1>4, <1>5 DEF IInv

-----------------------------------------------------------------------------
(* The types, of both transports. *)

\* Transmission takes no more than the ring holds and the device has room for.
LEMMA TransmitTyped ==
  ASSUME TypeOK, NEW mem, Transmit(mem)
  PROVE  /\ out' \in Rings /\ received' \in [Senders -> 0..Numbers - 1]
         /\ received'["agent"] = received["agent"] /\ device' \in 0..FifoSize
         /\ tx_enabled' \in BOOLEAN /\ garbled' \in BOOLEAN
<1>1. /\ out \in Rings /\ out.held \in Nat
      /\ received \in [Senders -> 0..Numbers - 1] /\ received["client"] \in Nat
      /\ device \in 0..FifoSize /\ garbled \in BOOLEAN /\ tx_enabled \in BOOLEAN
  BY Typed, Sizes DEF TypeOK
<1>2. RbLen \in 0..out.held /\ RbLen \in Nat
  BY <1>1, LeastOfTwo, Sizes DEF RbLen
<1>3. CASE Fill(mem, RbLen) /\ tx_enabled' \in BOOLEAN
  <2>1. /\ out' = Shrunk(out, RbLen)
        /\ device' = device + Min({RbLen, FifoSize - device})
        /\ received' = [received EXCEPT !["client"] = (@ + RbLen) % Numbers]
        /\ garbled' \in BOOLEAN
    BY <1>1, <1>3 DEF Fill
  <2>2. out' \in Rings
    BY <1>1, <1>2, <2>1, RingTyped
  <2>3. device' \in 0..FifoSize
    <3>1. FifoSize - device \in Nat
      BY <1>1, Sizes
    <3>2. /\ Min({RbLen, FifoSize - device}) \in Nat
          /\ Min({RbLen, FifoSize - device}) <= FifoSize - device
      BY <1>2, <3>1, LeastOfTwo
    <3> QED
      BY <1>1, <2>1, <3>2, Sizes
  <2>4. (received["client"] + RbLen) % Numbers \in 0..Numbers - 1
    BY <1>1, <1>2, Sizes
  <2> QED
    BY <1>1, <1>3, <2>1, <2>2, <2>3, <2>4 DEF Senders
<1>4. CASE tx_enabled' \in BOOLEAN /\ UNCHANGED <<device, out, received, garbled>>
  BY <1>1, <1>4
<1> QED
  BY <1>1, <1>3, <1>4 DEF Transmit

\* What a turn of the handler puts: the bytes that come next, as many as fit.
LEMMA TurnPuts ==
  ASSUME TypeOK
  PROVE  /\ RxLength \in 0..Space(in) /\ RxLength <= fifo /\ NextRx \in 0..Numbers - 1
         /\ NextRx % Numbers = (received["agent"] + in.held) % Numbers
<1>1. /\ in \in Rings /\ in.held \in Nat /\ fifo \in Nat /\ received["agent"] \in Nat
      /\ Space(in) \in Nat
  BY Typed, RingTyped, Sizes
<1>2. RxLength \in 0..Space(in) /\ RxLength <= fifo
  BY <1>1, LeastOfThree, Sizes DEF RxLength
<1>3. NextRx \in 0..Numbers - 1
  BY <1>1, Sizes DEF NextRx
<1>4. NextRx = Numbers * 0 + NextRx
  BY <1>3, Sizes
<1>5. NextRx % Numbers = NextRx
  BY <1>3, <1>4, RemainderUnique, Sizes
<1> QED
  BY <1>2, <1>3, <1>5 DEF NextRx

LEMMA TurnTyped == TypeOK /\ CallbackTurn => TypeOK'
<1> SUFFICES ASSUME TypeOK, CallbackTurn PROVE TypeOK'
  OBVIOUS
<1> DEFINE mem == Put(memory, InBuffer, in, RxLength, "agent", NextRx)
<1>1. /\ UNCHANGED <<transport, window, rx_enabled, in_callback, pc, spent_time, opened>>
      /\ memory' = mem /\ in' = Grown(in, RxLength) /\ fifo' = fifo - RxLength
      /\ Transmit(mem)
  BY DEF CallbackTurn, build, client
<1>2. /\ memory \in Memories /\ in \in Rings /\ fifo \in 0..FifoSize
      /\ InBuffer \in {"uart_in_buffer", "uart_out_buffer"} /\ "agent" \in Senders
  BY Typed DEF TypeOK, Senders
<1>3. /\ RxLength \in 0..Space(in) /\ RxLength \in Nat /\ RxLength <= fifo
      /\ NextRx \in Nat
  BY <1>2, TurnPuts, RingTyped, Sizes
<1>4. memory' \in Memories
  BY <1>1, <1>2, <1>3, PutTyped
<1> HIDE DEF mem
<1>5. /\ out' \in Rings /\ received' \in [Senders -> 0..Numbers - 1]
      /\ device' \in 0..FifoSize /\ tx_enabled' \in BOOLEAN /\ garbled' \in BOOLEAN
  BY <1>1, TransmitTyped
<1>6. in' \in Rings /\ fifo' \in 0..FifoSize
  BY <1>1, <1>2, <1>3, RingTyped, Sizes
<1> QED
  BY <1>1, <1>4, <1>5, <1>6 DEF TypeOK, Memories, Cell, Rings

LEMMA OpenTyped == TypeOK /\ OpenRings => TypeOK'
<1> SUFFICES ASSUME TypeOK, OpenRings PROVE TypeOK'
  OBVIOUS
<1>1. Empty \in [get : Cells, held : 0..RING_BUF_SIZE]
  BY Sizes DEF Empty, Cells
<1>2. opened' \in 0..Attempts
  BY Sizes DEF TypeOK, OpenRings
<1>3. NextRx \in 0..Numbers - 1
  BY TurnPuts
<1> QED
  BY <1>1, <1>2, <1>3 DEF TypeOK, OpenRings, build, hardware, irq

LEMMA WriteTyped == TypeOK /\ WriteBegin => TypeOK'
<1> SUFFICES ASSUME TypeOK, WriteBegin PROVE TypeOK'
  OBVIOUS
<1>1. PICK len \in WriteLengths :
        LET wrote == Min({len, Space(out)}) IN
        /\ memory' = Put(memory, "uart_out_buffer", out, wrote, "client",
                         received["client"] + out.held)
        /\ out' = Grown(out, wrote)
  BY DEF WriteBegin
<1> DEFINE wrote == Min({len, Space(out)})
           number == received["client"] + out.held
<1>2. /\ memory \in Memories /\ out \in Rings /\ number \in Nat
      /\ "client" \in Senders
  BY Typed, Sizes DEF Senders
<1>3. wrote \in 0..Space(out) /\ wrote \in Nat
  <2>1. Space(out) \in Nat /\ len \in Nat
    BY <1>2, RingTyped, Sizes
  <2> QED
    BY <2>1, LeastOfTwo
<1>4. memory' = Put(memory, "uart_out_buffer", out, wrote, "client", number)
      /\ out' = Grown(out, wrote)
  BY <1>1
<1> HIDE DEF wrote, number
<1>5. memory' \in Memories /\ out' \in Rings
  BY <1>2, <1>3, <1>4, PutTyped, RingTyped
<1> QED
  BY <1>5 DEF TypeOK, WriteBegin, build, hardware, Memories, Cell, Rings

LEMMA GetTyped == TypeOK /\ ReadGet => TypeOK'
<1> SUFFICES ASSUME TypeOK, ReadGet PROVE TypeOK'
  OBVIOUS
<1> DEFINE len == Min({ReadLength, in.held})
<1>1. in \in Rings /\ in.held \in Nat /\ received["agent"] \in Nat
  BY Typed, Sizes
<1>2. len \in 0..in.held /\ len \in Nat
  BY <1>1, LeastOfTwo, Sizes
<1>3. /\ garbled' \in BOOLEAN /\ in' = Shrunk(in, len)
      /\ received' = [received EXCEPT !["agent"] = (@ + len) % Numbers]
  BY DEF ReadGet, TypeOK
<1> HIDE DEF len
<1>4. in' \in Rings
  BY <1>1, <1>2, <1>3, RingTyped
<1>5. received' \in [Senders -> 0..Numbers - 1]
  <2>1. (received["agent"] + len) % Numbers \in 0..Numbers - 1
    BY <1>1, <1>2, Sizes
  <2> QED
    BY <1>3, <2>1 DEF TypeOK
<1> QED
  BY <1>3, <1>4, <1>5 DEF TypeOK, ReadGet, build, hardware, irq, Rings

\* The steps that touch neither rings nor memory.
Apart ==
  \/ AgentSends \/ HostTakes \/ CallbackEnter \/ CallbackReturn \/ OpenInterrupt
  \/ WriteReturn \/ ReadBegin \/ ReadPoll \/ ReadLock \/ ReadUnlock \/ UNCHANGED vars

LEMMA ApartTyped ==
  ASSUME TypeOK, Apart
  PROVE  /\ TypeOK'
         /\ UNCHANGED <<transport, memory, in, out, received, garbled, tx_enabled>>
<1>1. UNCHANGED <<transport, window, memory, in, out, received, garbled>>
  BY DEF Apart, AgentSends, HostTakes, CallbackEnter, CallbackReturn, OpenInterrupt,
     WriteReturn, ReadBegin, ReadPoll, ReadLock, ReadUnlock, vars, build, rings
<1>2. tx_enabled' = tx_enabled /\ opened' = opened
  BY DEF Apart, AgentSends, HostTakes, CallbackEnter, CallbackReturn, OpenInterrupt,
     WriteReturn, ReadBegin, ReadPoll, ReadLock, ReadUnlock, vars, irq, client
<1>3. rx_enabled' \in BOOLEAN /\ in_callback' \in BOOLEAN
  BY DEF TypeOK, Apart, AgentSends, HostTakes, CallbackEnter, CallbackReturn,
     OpenInterrupt, WriteReturn, ReadBegin, ReadPoll, ReadLock, ReadUnlock, vars, irq
<1>4. pc' \in {"closed", "opening", "idle", "write", "poll", "locked", "got"}
  BY DEF TypeOK, Apart, AgentSends, HostTakes, CallbackEnter, CallbackReturn,
     OpenInterrupt, WriteReturn, ReadBegin, ReadPoll, ReadLock, ReadUnlock, vars, client
<1>5. fifo' \in 0..FifoSize /\ device' \in 0..FifoSize
  <2>1. CASE AgentSends \/ HostTakes
    BY <2>1, Sizes DEF TypeOK, AgentSends, HostTakes
  <2>2. CASE ~(AgentSends \/ HostTakes)
    BY <2>2 DEF TypeOK, Apart, CallbackEnter, CallbackReturn, OpenInterrupt,
       WriteReturn, ReadBegin, ReadPoll, ReadLock, ReadUnlock, vars, hardware
  <2> QED
    BY <2>1, <2>2
<1>6. spent_time' \in 0..Timeout
  <2>1. CASE ReadPoll \/ ReadBegin
    BY <2>1, Sizes DEF TypeOK, ReadPoll, ReadBegin
  <2>2. CASE ~(ReadPoll \/ ReadBegin)
    BY <2>2 DEF TypeOK, Apart, AgentSends, HostTakes, CallbackEnter, CallbackReturn,
       OpenInterrupt, WriteReturn, ReadLock, ReadUnlock, vars, client
  <2> QED
    BY <2>1, <2>2
<1> QED
  BY <1>1, <1>2, <1>3, <1>4, <1>5, <1>6 DEF TypeOK

LEMMA Steps ==
  [Next]_vars => Apart \/ CallbackTurn \/ OpenRings \/ WriteBegin \/ ReadGet
  BY DEF Next, Callback, Read, zephyr_transport_open, Apart

LEMMA GoesTyped == TypeOK /\ [Next]_vars => TypeOK'
  BY Steps, ApartTyped, TurnTyped, OpenTyped, WriteTyped, GetTyped

-----------------------------------------------------------------------------
(* "serial": each step keeps the ring right. *)

Serial == transport = "serial"

\* A turn of the handler: what it puts follows what the ring holds, and falls
\* on none of the bytes held.
LEMMA TurnKeeps == Serial /\ TypeOK /\ Whole /\ CallbackTurn => Whole'
<1> SUFFICES ASSUME Serial, TypeOK, Whole, CallbackTurn PROVE Whole'
  OBVIOUS
<1> DEFINE rx == RxLength
           mem == Put(memory, InBuffer, in, rx, "agent", NextRx)
<1>1. /\ transport' = transport /\ memory' = mem /\ in' = Grown(in, rx) /\ Transmit(mem)
  BY DEF CallbackTurn, build
<1>2. /\ memory \in Memories /\ in \in Rings /\ in.get \in Cells
      /\ in.held \in 0..RING_BUF_SIZE /\ received["agent"] \in Nat
      /\ "agent" \in Senders /\ InBuffer \in {"uart_in_buffer", "uart_out_buffer"}
  BY Typed, Sizes DEF Senders
<1>3. /\ rx \in 0..Space(in) /\ rx \in Nat /\ NextRx \in Nat
      /\ NextRx % Numbers = (received["agent"] + in.held) % Numbers
  BY <1>2, TurnPuts, RingTyped, Sizes
<1>4. ~tx_enabled' /\ ~garbled' /\ received' = received
  BY <1>1 DEF Transmit, TxReady, Whole
<1> HIDE DEF rx
<1>5. mem[InBuffer] =
        [c \in Cells |->
           LET i == (c - in.get - in.held) % RING_BUF_SIZE
           IN IF i < rx THEN <<"agent", (NextRx + i) % Numbers>>
              ELSE memory[InBuffer][c]]
  BY <1>2, <1>3, PutTyped
<1> HIDE DEF mem
<1>6. Holds(mem[InBuffer], in.get, in.held + rx, "agent", received["agent"])
  <2>1. rx \in 0..RING_BUF_SIZE - in.held
    BY <1>3 DEF Space
  <2>2. memory[InBuffer] \in [Cells -> Senders \X (0..Numbers - 1)]
    BY <1>2 DEF Memories, Cell
  <2>3. Holds(memory[InBuffer], in.get, in.held, "agent", received["agent"])
    BY InHolds DEF Whole
  <2> QED
    BY <1>2, <1>3, <1>5, <2>1, <2>2, <2>3, PutHolds
<1>7. in'.get = in.get /\ in'.held = in.held + rx
  BY <1>1, <1>2, <1>3, RingTyped
<1>8. InBuffer' = InBuffer
  BY <1>1 DEF InBuffer
<1>9. InOK'
  BY <1>1, <1>4, <1>6, <1>7, <1>8 DEF InOK, Expected, Holds
<1> QED
  BY <1>4, <1>9 DEF Whole

\* An attempt to open starts with an empty ring; what is still in the FIFO comes
\* next.
LEMMA OpenKeeps == Serial /\ Whole /\ OpenRings => Whole'
<1> SUFFICES ASSUME Serial, Whole, OpenRings PROVE Whole'
  OBVIOUS
<1>1. in'.held = 0 /\ garbled' = garbled /\ tx_enabled' = tx_enabled
  BY DEF OpenRings, Empty, irq
<1> QED
  BY <1>1 DEF Whole, InOK, Expected

\* A read gets the next bytes of the ring.
LEMMA GetKeeps == Serial /\ TypeOK /\ Whole /\ ReadGet => Whole'
<1> SUFFICES ASSUME Serial, TypeOK, Whole, ReadGet PROVE Whole'
  OBVIOUS
<1> DEFINE len == Min({ReadLength, in.held})
<1>1. /\ UNCHANGED <<transport, memory, tx_enabled>>
      /\ garbled' = (garbled \/ ~Expected(memory, InBuffer, in, len, "agent"))
      /\ in' = Shrunk(in, len)
      /\ received' = [received EXCEPT !["agent"] = (@ + len) % Numbers]
  BY DEF ReadGet, build, irq
<1>2. /\ in \in Rings /\ in.held \in 0..RING_BUF_SIZE /\ in.held \in Nat /\ in.get \in Cells
      /\ received \in [Senders -> 0..Numbers - 1] /\ received["agent"] \in Nat
  BY Typed, Sizes DEF TypeOK
<1>3. len \in 0..in.held
  BY <1>2, LeastOfTwo, Sizes
<1> HIDE DEF len
<1>4. Holds(memory[InBuffer], in.get, in.held, "agent", received["agent"])
  BY InHolds DEF Whole
<1>5. ~garbled'
  <2>1. Holds(memory[InBuffer], in.get, len, "agent", received["agent"])
    BY <1>2, <1>3, <1>4, FirstHold
  <2>2. Expected(memory, InBuffer, in, len, "agent")
    BY <2>1 DEF Expected, Holds
  <2> QED
    BY <1>1, <2>2 DEF Whole
<1>6. in'.get = (in.get + len) % RING_BUF_SIZE /\ in'.held = in.held - len
  BY <1>1, <1>2, <1>3, RingTyped
<1>7. received'["agent"] = (received["agent"] + len) % Numbers
  BY <1>1, <1>2 DEF Senders
<1>8. Holds(memory[InBuffer], in'.get, in'.held, "agent", received'["agent"])
  BY <1>2, <1>3, <1>4, <1>6, <1>7, RestHolds
<1>9. InBuffer' = InBuffer
  BY <1>1 DEF InBuffer
<1>10. InOK'
  BY <1>1, <1>8, <1>9 DEF InOK, Expected, Holds
<1> QED
  BY <1>1, <1>5, <1>10 DEF Whole

LEMMA ApartKeeps == TypeOK /\ Whole /\ Apart => Whole'
<1> SUFFICES ASSUME TypeOK, Whole, Apart PROVE Whole'
  OBVIOUS
<1>1. UNCHANGED <<transport, memory, in, received, garbled, tx_enabled>>
  BY ApartTyped
<1>2. InBuffer' = InBuffer
  BY <1>1 DEF InBuffer
<1> QED
  BY <1>1, <1>2 DEF Whole, InOK, Expected

LEMMA Goes == IInv /\ [Next]_vars => IInv'
<1> SUFFICES ASSUME IInv, [Next]_vars PROVE IInv'
  OBVIOUS
<1>1. TypeOK'
  BY GoesTyped DEF IInv
<1>2. transport' = transport
  BY Steps, ApartTyped DEF IInv, CallbackTurn, OpenRings, WriteBegin, ReadGet, build
<1>3. ASSUME Serial PROVE Whole'
  <2>1. TypeOK /\ Whole /\ ~WriteBegin
    BY <1>3 DEF IInv, Serial, WriteBegin
  <2> QED
    BY <1>3, <2>1, Steps, ApartKeeps, TurnKeeps, OpenKeeps, GetKeeps
<1> QED
  BY <1>1, <1>2, <1>3 DEF IInv, Serial

LEMMA Keeps == Spec => []IInv
<1>1. IInv /\ [Next]_vars => IInv'
  BY Goes
<1> QED
  BY <1>1, Starts, PTL DEF Spec

-----------------------------------------------------------------------------
(* The theorems. *)

\* "serial": no byte of the agent is lost, doubled or written over on its way to
\* the client, for every size of ring, buffer, FIFO and read, for an agent that
\* sends any number of bytes ahead, and however often the transport is opened
\* with the interrupt of the attempt before still enabled.
THEOREM NothingGarbled == Spec => []SentIsReceived
<1>1. IInv => SentIsReceived
  BY DEF IInv, Whole, SentIsReceived
<1> QED
  BY <1>1, Keeps, PTL

\* Rings, FIFOs and counters keep their ranges in both transports: with a full
\* ring the handler puts nothing, and what is taken out was held.
THEOREM TypeCorrect == Spec => []TypeOK
<1>1. IInv => TypeOK
  BY DEF IInv
<1> QED
  BY <1>1, Keeps, PTL
=============================================================================
