--------------------------------- MODULE Slip -------------------------------
(***************************************************************************)
(* The serial line to the radio (slip.c): slip_output_v4 writes a datagram *)
(* between two END bytes, slip_rx_task makes datagrams of bytes again and  *)
(* hands them to lwIP.  The line has no flow control and no checksum: now  *)
(* and then a byte is lost or arrives as another one, and there may be no  *)
(* buffer for a datagram.  The other end is taken to speak as this one.    *)
(***************************************************************************)
EXTENDS Naturals, Sequences, FiniteSets, SequencesExt

CONSTANTS
  Byte, SLIP_END, SLIP_ESC, SLIP_ESC_END, SLIP_ESC_ESC,
  SLIP_BUF_SIZE,
  Datagram,        (* the datagrams there are, none longer than the MTU     *)
  MaxAccidents     (* bound: bytes lost or changed, buffers missing         *)

SlipAssumption ==
  /\ {SLIP_END, SLIP_ESC, SLIP_ESC_END, SLIP_ESC_ESC} \subseteq Byte
  /\ Cardinality({SLIP_END, SLIP_ESC, SLIP_ESC_END, SLIP_ESC_ESC}) = 4
  /\ \A d \in Datagram : d \in Seq(Byte) /\ d # <<>> /\ Len(d) <= SLIP_BUF_SIZE
  /\ IsFiniteSet(Datagram)
  /\ SLIP_BUF_SIZE \in Nat /\ MaxAccidents \in Nat

VARIABLES
  sent,            (* the datagrams lwIP sends, one after the other         *)
  uart,            (* bytes on the line                                     *)
  slip_rx,         (* rxbuf and escaped of slip_rx_task                     *)
  input,           (* history: what netif->input was given                  *)
  accidents        (* history: how often something went wrong               *)

vars == <<sent, uart, slip_rx, input, accidents>>

EncodeByte(b) ==
  CASE b = SLIP_END -> <<SLIP_ESC, SLIP_ESC_END>>
    [] b = SLIP_ESC -> <<SLIP_ESC, SLIP_ESC_ESC>>
    [] OTHER -> <<b>>

Escaped(d) == FlattenSeq([i \in DOMAIN d |-> EncodeByte(d[i])])

\* Mutant: no END in front of a datagram.
OutputOneEnd(d) == Escaped(d) \o <<SLIP_END>>

\* slip_output_v4.
Output(d) == <<SLIP_END>> \o Escaped(d) \o <<SLIP_END>>

Empty == [rxbuf |-> <<>>, escaped |-> FALSE]

Init ==
  /\ sent \in {q \in [DOMAIN SetToSeq(Datagram) -> Datagram] : IsInjective(q)}
  /\ uart = FlattenSeq([i \in DOMAIN sent |-> Output(sent[i])])
  /\ slip_rx = Empty
  /\ input = <<>> /\ accidents = 0

Unescaped(b) ==
  CASE b = SLIP_ESC_END -> SLIP_END
    [] b = SLIP_ESC_ESC -> SLIP_ESC
    [] OTHER -> b

\* A byte beyond the buffer is dropped, the datagram goes on.
Store(b) ==
  LET byte == IF slip_rx.escaped THEN Unescaped(b) ELSE b
  IN  [rxbuf   |-> IF Len(slip_rx.rxbuf) < SLIP_BUF_SIZE
                   THEN Append(slip_rx.rxbuf, byte) ELSE slip_rx.rxbuf,
       escaped |-> FALSE]

\* slip_rx_task, one byte.
RxByte(b) ==
  \/ /\ b = SLIP_END
     /\ slip_rx' = Empty
     /\ input' = IF slip_rx.rxbuf = <<>> THEN input ELSE Append(input, slip_rx.rxbuf)
  \/ /\ b = SLIP_ESC
     /\ slip_rx' = [slip_rx EXCEPT !.escaped = TRUE]
     /\ UNCHANGED input
  \/ /\ b \notin {SLIP_END, SLIP_ESC}
     /\ slip_rx' = Store(b)
     /\ UNCHANGED input

Receive ==
  /\ uart # <<>>
  /\ uart' = Tail(uart)
  /\ RxByte(Head(uart))
  /\ UNCHANGED <<sent, accidents>>

Accident == accidents < MaxAccidents /\ accidents' = accidents + 1

\* A byte arrives as another one.
ReceiveNoise ==
  /\ uart # <<>> /\ Accident
  /\ uart' = Tail(uart)
  /\ \E b \in Byte : RxByte(b)
  /\ UNCHANGED sent

LoseByte ==
  /\ uart # <<>> /\ Accident
  /\ uart' = Tail(uart)
  /\ UNCHANGED <<sent, slip_rx, input>>

\* pbuf_alloc fails, or lwIP's queue is full.
NoBuffer ==
  /\ uart # <<>> /\ Head(uart) = SLIP_END /\ slip_rx.rxbuf # <<>> /\ Accident
  /\ uart' = Tail(uart)
  /\ slip_rx' = Empty
  /\ UNCHANGED <<sent, input>>

Next == Receive \/ ReceiveNoise \/ LoseByte \/ NoBuffer
Spec == Init /\ [][Next]_vars
-----------------------------------------------------------------------------
TypeOK ==
  /\ uart \in Seq(Byte)
  /\ slip_rx \in [rxbuf : Seq(Byte), escaped : BOOLEAN]
  /\ Len(slip_rx.rxbuf) <= SLIP_BUF_SIZE
  /\ input \in Seq(Seq(Byte)) /\ accidents \in 0..MaxAccidents

(* The line recovers: whatever byte is lost or changed, inside a datagram,  *)
(* in an escape or in a delimiter, and although two datagrams run together  *)
(* overrun rxbuf, it costs no more than one datagram and adds no more than  *)
(* one; the others arrive whole (slip.c, the END in front of a datagram and *)
(* the reset of the receiver at each END).                                  *)
OneAccidentOneDatagram ==
  uart = <<>> =>
    /\ Cardinality({i \in DOMAIN sent : sent[i] \notin ToSet(input)}) <= accidents
    /\ Len(input) <= Len(sent) + accidents
    /\ accidents = 0 => input = sent
=============================================================================
