----------------------------- MODULE MacAddress -----------------------------
(***************************************************************************)
(* The two places that add a link's MACAddrOffSet to the base address:     *)
(* EthLink_GetMacAddr, for the address of an untagged device and for what  *)
(* the data model reports, and Vlan_SetMacAddr, for a tagged device.  Both *)
(* add in 64 bits and print the sum in hexadecimal; they differ in which   *)
(* twelve digits they take when the sum has more.                          *)
(***************************************************************************)
EXTENDS Integers

CONSTANTS
  Base,      \* the base address of the box, as a number
  Radix,     \* 16
  MacSpan,   \* the number of addresses, 2^48
  Surplus    \* 64-bit words per address, 2^16

ASSUME MacAssumption ==
  /\ MacSpan \in Nat \ {0}
  /\ Surplus \in Nat \ {0}
  /\ Base \in 0..(MacSpan - 1)
  /\ Radix \in Nat /\ Radix > 1

WordSpan == MacSpan * Surplus

\* A mutant of Sum: the offset is left out.
SumOfBase(offset) == Base % WordSpan

\* "number + MACAddrOffSet": a negative offset is extended to 64 bits, and the sum
\* wraps around.
Sum(offset) == (Base + offset) % WordSpan

\* EthLink_GetMacAddr prints "%012llx" and takes the first twelve digits.
LinkMac(offset) ==
  LET n == Sum(offset)
  IN  IF n < MacSpan THEN n
      ELSE LET digits == {k \in 1..Surplus : n \div Radix^k < MacSpan}
           IN  n \div Radix^(CHOOSE k \in digits : \A m \in digits : k <= m)

\* A mutant of VlanMac: the first twelve digits of the sixteen.
VlanMacFirst(offset) == Sum(offset) \div Surplus

\* Vlan_SetMacAddr prints "%016llx" and takes the last twelve.
VlanMac(offset) == Sum(offset) % MacSpan

\* The offsets that stay among the addresses.
InRange(offset) == Base + offset \in 0..(MacSpan - 1)
=============================================================================
