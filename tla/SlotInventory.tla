---------------------------- MODULE SlotInventory ----------------------------
(***************************************************************************)
(* What an A/B update scheme promises about the firmware it keeps, without *)
(* saying how: one slot is in force and holds a complete firmware, the     *)
(* other is a spare.  Only the spare is ever withdrawn or filled, only     *)
(* with firmware for the same board, and the slot in force changes only to *)
(* a spare that is filled.                                                 *)
(***************************************************************************)
EXTENDS FwSlots

VARIABLES
    inForce,  \* the slot in force
    stock     \* stock[s]: the complete firmware slot s offers, if any

stockVars == << inForce, stock >>

StockInit ==
    /\ inForce = "a"
    /\ stock = [s \in Slot |-> IF s = "a" THEN FactoryImage ELSE NoImage]

Withdraw ==
    /\ stock' = [stock EXCEPT ![Other(inForce)] = NoImage]
    /\ UNCHANGED inForce

Fill(img) ==
    /\ stock[Other(inForce)] = NoImage
    /\ Compatible(img, stock[inForce])
    /\ stock' = [stock EXCEPT ![Other(inForce)] = img]
    /\ UNCHANGED inForce

Switch ==
    /\ stock[Other(inForce)] \in Images
    /\ inForce' = Other(inForce)
    /\ UNCHANGED stock

StockNext == Withdraw \/ Switch \/ \E img \in Images : Fill(img)

StockSpec == StockInit /\ [][StockNext]_stockVars
=============================================================================
