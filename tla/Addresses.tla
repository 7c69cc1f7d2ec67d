----------------------------- MODULE Addresses -----------------------------
(***************************************************************************)
(* Addresses as the handlers see them.  The chain stores ID addresses; a   *)
(* user may give the key address of an account instead, and a handler has  *)
(* to resolve it with StateLookupID before it compares.                    *)
(***************************************************************************)
CONSTANTS
  Id,          \* ID addresses; the chain stores only these
  Key,         \* key addresses, which users may give instead
  IdOf,        \* StateLookupID: the ID of an address, NoAddr if it has none
  NoAddr       \* address.Undef

Address == Id \cup Key

ASSUME AddressAssumption ==
  /\ NoAddr \notin Address
  /\ Id \cap Key = {}
  /\ IdOf \in [Address -> Id \cup {NoAddr}]
  /\ \A i \in Id : IdOf[i] = i
=============================================================================
