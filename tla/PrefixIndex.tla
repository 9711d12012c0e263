---------------------------- MODULE PrefixIndex ----------------------------
(***************************************************************************)
(* The lookup of an address in an allow or block list (PrefixIndex of      *)
(* gate/src/runtime.rs).  An address is a number of Width bits, a network  *)
(* an address with the length of its prefix; a list of the other family    *)
(* never matches and is left out.                                          *)
(***************************************************************************)
EXTENDS Integers, Sequences, FiniteSets

CONSTANTS
  Width,       \* 32, or 128
  Small        \* lists up to this long are scanned: 8

ASSUME WidthAssumption == Width \in Nat /\ Small \in Nat

Address == 0..(2^Width - 1)
Net == [addr : Address, bits : 0..Width]

\* The address with the bits after the prefix cleared.
Masked(addr, bits) == addr - (addr % 2^(Width - bits))

\* IpNet::contains()
Covers(net, addr) == Masked(addr, net.bits) = Masked(net.addr, net.bits)

InList(nets, addr) == \E i \in DOMAIN nets : Covers(nets[i], addr)

\* Mutant: a host address in the list is indexed as it stands.
IndexUnmasked(nets) ==
  [bits \in {nets[i].bits : i \in DOMAIN nets} |->
     {nets[i].addr : i \in {j \in DOMAIN nets : nets[j].bits = bits}}]

\* PrefixIndex::new(): for every length of a prefix, the networks that have it.
Index(nets) ==
  [bits \in {nets[i].bits : i \in DOMAIN nets} |->
     {Masked(nets[i].addr, bits) : i \in {j \in DOMAIN nets : nets[j].bits = bits}}]

\* PrefixIndex::contains()
Contains(nets, addr) ==
  IF Len(nets) <= Small THEN InList(nets, addr)
  ELSE \E bits \in DOMAIN Index(nets) : Masked(addr, bits) \in Index(nets)[bits]
=============================================================================
