------------------------------ MODULE MCSlice ------------------------------
(* Three slices that may share; two states that differ in addresses only   *)
(* are one.                                                                *)
EXTENDS SliceStore

Addresses == 1 .. Cardinality(Name) + 1

Shape == <<[x \in Name |-> <<mem[mag[x].ptr], mag[x].lo, mag[x].hi>>],
           {p \in Name \X Name : mag[p[1]].ptr = mag[p[2]].ptr}>>
=============================================================================
