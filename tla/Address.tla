-------------------------------- MODULE Address --------------------------------
(* The order of addresses by which the server's map of connections finds them *)
(* (Address.h).  The four bytes that CAddress keeps for its text are left out: *)
(* no comparison looks at them.                                               *)
EXTENDS Naturals

CAddress == [address : Nat, port : Nat]

CAddressCompare_AddressOnly(lhs, rhs) == lhs.address < rhs.address

\* CAddressCompare, the order of the map: the same host's higher ports first.
CAddressCompare(lhs, rhs) ==
  \/ lhs.address < rhs.address
  \/ lhs.address = rhs.address /\ lhs.port > rhs.port

\* A std::map takes two keys for one when neither is before the other.
Equivalent(lhs, rhs) == ~CAddressCompare(lhs, rhs) /\ ~CAddressCompare(rhs, lhs)
=============================================================================
