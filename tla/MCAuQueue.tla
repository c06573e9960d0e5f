----------------------------- MODULE MCAuQueue ------------------------------
(* Instances of AuQueue for TLC: three slots and six AUs, or two slots and  *)
(* four, in bursts of up to two, so that the ring fills, wraps and drops    *)
(* twice while the decode thread holds a slot; only the first AU is a key   *)
(* frame and the third is too big for a slot.                               *)
EXTENDS AuQueue

MCIdr == {1}
MCLarge == {3}
=============================================================================
