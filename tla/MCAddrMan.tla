----------------------------- MODULE MCAddrMan -----------------------------
(***************************************************************************)
(* AddrMan with three addresses, two new buckets, one tried bucket.  The    *)
(* bucket of an address depends on the source, so that an address may be   *)
(* in both.                                                                *)
(***************************************************************************)
EXTENDS AddrMan

ThreeAddresses == {"a", "b", "c"}
TwoSources == {"s", "t"}
TwoNewBuckets == {1, 2}
OneTriedBucket == {1}

SpreadNew ==
    [a \in ThreeAddresses |-> [s \in TwoSources |-> IF (a \in {"a", "b"}) = (s = "s") THEN 1 ELSE 2]]
SpreadTried == [a \in ThreeAddresses |-> 1]
=============================================================================
