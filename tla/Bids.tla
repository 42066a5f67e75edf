-------------------------------- MODULE Bids --------------------------------
(***************************************************************************)
(* Bid.cpp: the byte strings that name keys and nodes.  The constructor    *)
(* from an int puts the low byte first, as to_bytes finds it in memory;    *)
(* the comparisons go from the first byte to the last, and those with an   *)
(* int take the first bytes for a number with the high byte first.         *)
(***************************************************************************)
EXTENDS Integers, FiniteSetsExt

CONSTANTS Base,      \* values of a byte; 256
          IntBytes,  \* sizeof(int); 4
          IdSize,    \* ID_SIZE; 16
          Ints       \* ints that keys are made of; none is negative

ASSUME BidAssumption ==
  /\ Base \in Nat \ {0, 1}
  /\ IntBytes \in Nat \ {0}
  /\ IdSize \in Nat /\ IdSize >= IntBytes

Byte    == 0 .. Base - 1
Indices == 0 .. IdSize - 1
Bid     == [Indices -> Byte]

\* n >> i bytes; nothing masks it to a byte.
Shifted(n, i) ==
  LET shift[k \in 0 .. i] == IF k = 0 THEN n ELSE shift[k - 1] \div Base
  IN  shift[i]

ASSUME IntsAssumption ==
  /\ Ints \subseteq Nat /\ 0 \in Ints
  /\ \A n \in Ints : Shifted(n, IntBytes) = 0

\* Mistake: an int is copied as a byte.
FromByte(n) == [i \in Indices |-> IF i = 0 THEN n % Base ELSE 0]

\* Bid::Bid(int)
FromInt(n) == [i \in Indices |-> IF i < IntBytes THEN Shifted(n, i) % Base ELSE 0]

\* Bid::operator=(int): bytes take the low bits of what they are given.
AssignedInt(n) ==
  [i \in Indices |-> IF i < IntBytes THEN Shifted(n, IntBytes - 1 - i) % Base ELSE 0]

\* Bid::operator==(int), != (int)
EqualsInt(id, n) == \A i \in 0 .. IntBytes - 1 : id[IntBytes - 1 - i] = Shifted(n, i)

\* Mistake: only the bytes of an int are compared.
DifferingInInt(a, b) == {i \in Indices : i < IntBytes /\ a[i] # b[i]}

\* The bytes the loops of the comparisons look at.
Differing(a, b) == {i \in Indices : a[i] # b[i]}

\* Bid::operator<, <=, >, >=, ==: the first byte that differs decides.
Less(a, b) ==
  /\ Differing(a, b) # {}
  /\ a[Min(Differing(a, b))] < b[Min(Differing(a, b))]

LessOrEqual(a, b) ==
  Differing(a, b) # {} => a[Min(Differing(a, b))] < b[Min(Differing(a, b))]

Greater(a, b) ==
  /\ Differing(a, b) # {}
  /\ a[Min(Differing(a, b))] > b[Min(Differing(a, b))]

GreaterOrEqual(a, b) ==
  Differing(a, b) # {} => a[Min(Differing(a, b))] > b[Min(Differing(a, b))]

Equal(a, b) == Differing(a, b) = {}

\* Mistake: the carry stops one byte early.
CarryingShort(id) == {i \in Indices : i > 0 /\ \A j \in Indices : j > i => id[j] = Base - 1}

\* The bytes operator++ adds one to: the last, and every one before it as long
\* as the one behind becomes 0.
Carrying(id) == {i \in Indices : \A j \in Indices : j > i => id[j] = Base - 1}

\* Bid::operator++
Incremented(id) == [i \in Indices |-> IF i \in Carrying(id) THEN (id[i] + 1) % Base ELSE id[i]]
=============================================================================
