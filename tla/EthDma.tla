------------------------------- MODULE EthDma -------------------------------
(***************************************************************************)
(* The Ethernet DMA and the driver's two rings of descriptors.  A            *)
(* descriptor belongs to the DMA or to the program (its OWN bit); a frame    *)
(* fits into one (ETH_RX_BUF_SIZE, ETH_TX_BUF_SIZE are 1524).                *)
(***************************************************************************)
EXTENDS Naturals, FiniteSets

CONSTANTS
    RxBufs,         \* ETH_RXBUFNB
    TxBufs          \* ETH_TXBUFNB

ASSUME RingAssumption == RxBufs \in Nat \ {0} /\ TxBufs \in Nat \ {0}

VARIABLES
    rx,             \* receiving: ring, DMA's and driver's descriptor, RBUS and RS
    tx              \* sending: ring, DMA's and driver's descriptor, TBUS

dmaVars == <<rx, tx>>

RxSlots == 0 .. RxBufs - 1
TxSlots == 0 .. TxBufs - 1

DmaInit ==
    /\ rx = [own |-> [i \in RxSlots |-> TRUE], at |-> 0, next |-> 0, rbus |-> FALSE, rs |-> FALSE]
    /\ tx = [own |-> [i \in TxSlots |-> FALSE], at |-> 0, next |-> 0, tbus |-> FALSE]

-----------------------------------------------------------------------------
(* The hardware.                                                             *)

(* A frame arrives: it is stored and the interrupt flag set, or it is lost. *)
Arrived ==
    IF rx.own[rx.at]
      THEN [rx EXCEPT !.own[rx.at] = FALSE, !.at = (@ + 1) % RxBufs, !.rs = TRUE]
      ELSE [rx EXCEPT !.rbus = TRUE]

(* A frame is sent; without one the DMA stops until it is told to look again. *)
Transmit ==
    /\ ~tx.tbus
    /\ tx' = IF tx.own[tx.at]
               THEN [tx EXCEPT !.own[tx.at] = FALSE, !.at = (@ + 1) % TxBufs]
               ELSE [tx EXCEPT !.tbus = TRUE]

-----------------------------------------------------------------------------
(* The driver.                                                               *)

(* ETH_GetRxPktSize of the driver's descriptor. *)
FrameWaits == ~rx.own[rx.next]

(* low_level_input: the descriptor goes back to the DMA whether or not there was
   memory for the frame, and a DMA without descriptors is told. *)
LowLevelInput ==
    [rx EXCEPT !.own[rx.next] = TRUE, !.next = (@ + 1) % RxBufs, !.rbus = FALSE]

ClearFlag == [rx EXCEPT !.rs = FALSE]

(* The test of low_level_output. *)
TxFree == ~tx.own[tx.next]

(* HAL_ETH_TransmitFrame hands the descriptor over... *)
TransmitFrame == [tx EXCEPT !.own[tx.next] = TRUE, !.next = (@ + 1) % TxBufs]

(* ... and then tells a DMA that has stopped. *)
PollDemand == [tx EXCEPT !.tbus = FALSE]

-----------------------------------------------------------------------------
DmaTypeOK ==
    /\ rx \in [own : [RxSlots -> BOOLEAN], at : RxSlots, next : RxSlots,
               rbus : BOOLEAN, rs : BOOLEAN]
    /\ tx \in [own : [TxSlots -> BOOLEAN], at : TxSlots, next : TxSlots, tbus : BOOLEAN]

Held == Cardinality({i \in RxSlots : ~rx.own[i]})
Busy == Cardinality({i \in TxSlots : tx.own[i]})

(* The frames not taken lie from the driver's descriptor up to the DMA's, the frames
   not sent from the DMA's up to the driver's. *)
InOrder ==
    /\ rx.at = (rx.next + Held) % RxBufs
    /\ \A i \in 0 .. Held - 1 : ~rx.own[(rx.next + i) % RxBufs]
    /\ tx.next = (tx.at + Busy) % TxBufs
    /\ \A i \in 0 .. Busy - 1 : tx.own[(tx.at + i) % TxBufs]
=============================================================================
