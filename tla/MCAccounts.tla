------------------------------ MODULE MCAccounts ------------------------------
(* What belongs to users.  The front door, the address book, the payment     *)
(* screenshots and the seller profiles share no state: a behaviour exercises *)
(* one of them, while the others stay as they start.  Of two orders one has a *)
(* legacy screenshot, whose name later files may have; there are two members *)
(* of staff and one would-be seller.                                         *)
EXTENDS FrontDoor, AddressBook, Screenshots, Sellers, TLC

CONSTANTS old, new, camera, photo, s1, s2
MCLegacyName == old :> camera

VARIABLE side
mcVars == <<doorVars, bookVars, fileVars, sellerVars, side>>

MCInit ==
  /\ DoorInit /\ BookInit /\ FilesInit /\ SellersInit
  /\ side \in {"door", "book", "files", "sellers"}
MCNext ==
  /\ UNCHANGED side
  /\ \/ side = "door" /\ DoorNext /\ UNCHANGED <<bookVars, fileVars, sellerVars>>
     \/ side = "book" /\ BookNext /\ UNCHANGED <<doorVars, fileVars, sellerVars>>
     \/ side = "files" /\ FilesNext /\ UNCHANGED <<doorVars, bookVars, sellerVars>>
     \/ side = "sellers" /\ SellersNext /\ UNCHANGED <<doorVars, bookVars, fileVars>>
MCSpec == MCInit /\ [][MCNext]_mcVars

\* Every variable of the four keeps its type.
TypeOK == DoorTypeOK /\ BookTypeOK /\ FilesTypeOK /\ SellersTypeOK
=============================================================================
