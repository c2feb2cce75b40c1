------------------------------ MODULE FlatMemory ------------------------------
(* What a program may assume of memory: every byte address of it has a cell,  *)
(* several addresses may share one, and an access of one, two or four bytes   *)
(* is that many accesses of the bytes from the address, brought down to a     *)
(* multiple of its size, upwards.  A load goes to one register, and to none   *)
(* when it goes to register 0.                                                *)
EXTENDS Integers

CONSTANTS Cells,     \* the cells of memory
          Constant,  \* those of them no store changes
          Home,      \* the cell of each address,
          NoCell     \*   and what stands for none

Byte == 0..255

VARIABLES contents,  \* of each cell
          request,   \* the access the program asks for, or None
          registers, \* the bytes of each register, low first
          exchanged  \* what the program is told of an exchange

vars == <<contents, request, registers, exchanged>>

None      == [op |-> "none"]
Elsewhere == [op |-> "elsewhere"]   \* anything but an access of memory

Sizes     == {1, 2, 4}
Numbers   == 0..31
Register  == [1..4 -> Byte]
Registers == [Numbers -> Register]
Orders    == {<<2, 1, 3, 4>>, <<3, 4, 1, 2>>}   \* low bytes swapped, halves swapped
Requests ==
  {None, Elsewhere}
    \cup [op : {"load"}, at : DOMAIN Home, size : Sizes, signed : BOOLEAN, reg : Numbers]
    \cup [op : {"store"}, at : DOMAIN Home, size : Sizes, reg : Numbers]
    \cup [op : {"exchange"}, at : DOMAIN Home, size : {4}, reg : Numbers]
    \cup [op : {"rearrange"}, order : Orders, reg : Numbers]

-----------------------------------------------------------------------------
Address(k) == request.at - (request.at % request.size) + k - 1

Shown(k) == IF Home[Address(k)] = NoCell THEN 0 ELSE contents[Home[Address(k)]]

\* The bytes above those read are zero, or the sign of the highest.
Filler(signed) == IF signed /\ Shown(request.size) >= 128 THEN 255 ELSE 0

Read(signed) == [k \in 1..4 |-> IF k <= request.size THEN Shown(k) ELSE Filler(signed)]

\* Two bytes may share a cell, which the higher keeps.
Written(bytes) ==
  [cell \in Cells |->
     LET reaching == {k \in 1..request.size : Home[Address(k)] = cell}
     IN  IF cell \in Constant \/ reaching = {} THEN contents[cell]
         ELSE bytes[CHOOSE k \in reaching : \A j \in reaching : j <= k]]

Put(bytes) == [registers EXCEPT ![request.reg] = IF request.reg = 0 THEN @ ELSE bytes]

-----------------------------------------------------------------------------
Ask == /\ request = None
       /\ request' \in Requests \ {None}
       /\ registers' \in Registers
       /\ UNCHANGED <<contents, exchanged>>

Load == /\ request.op = "load"
        /\ registers' = Put(Read(request.signed))
        /\ UNCHANGED <<contents, exchanged>>

Store == /\ request.op = "store"
         /\ contents' = Written(registers[request.reg])
         /\ UNCHANGED <<registers, exchanged>>

\* The register always gets what was there.
Exchange == /\ request.op = "exchange"
            /\ exchanged' = (registers[request.reg] = Read(FALSE))
            /\ contents' = IF exchanged' THEN Written(registers[30]) ELSE contents
            /\ registers' = Put(Read(FALSE))

Rearrange == /\ request.op = "rearrange"
             /\ registers' = Put([k \in 1..4 |-> registers[request.reg][request.order[k]]])
             /\ UNCHANGED <<contents, exchanged>>

Pass == /\ request.op = "elsewhere"
        /\ registers' \in Registers
        /\ exchanged' \in BOOLEAN
        /\ UNCHANGED contents

Answer == /\ Load \/ Store \/ Exchange \/ Rearrange \/ Pass
          /\ request' = None

Init == /\ contents \in [Cells -> Byte]
        /\ request \in Requests
        /\ registers \in Registers
        /\ exchanged \in BOOLEAN

Next == Ask \/ Answer

Spec == Init /\ [][Next]_vars
=============================================================================
