--------------------------- MODULE MCAddressSpace ---------------------------
(***************************************************************************)
(* TLC instances of AddressSpace: where the image lies (in the range of the *)
(* heaps, in that of the regions, over the TLS pages of two workers), and   *)
(* the protections a guest asks for.                                        *)
(***************************************************************************)
EXTENDS AddressSpace

SomeImages == {{6}, {8}, {1, 2}}
SomeProtections == {READ, ALL}
=============================================================================
