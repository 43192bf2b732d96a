------------------------------- MODULE VarInt -------------------------------
(* writeVarInt, getVarIntSize and readVarInt of searcher/src/index.cpp: a    *)
(* number is written in groups of seven bits, the lowest first, and every    *)
(* byte but the last has its top bit set. Radix is 128 in the code; smaller  *)
(* instances make long encodings out of small numbers.                       *)
EXTENDS Integers, Sequences

CONSTANT Radix

ASSUME VarIntAssumption == Radix \in Nat \ {0, 1}

\* (error) a group of seven zero bits ends the number
MoreStrictly(byte) == byte > Radix

\* a byte is below 2 * Radix; its top bit says that another byte follows
More(byte) == byte >= Radix

writeVarInt[value \in Nat] ==
  IF value >= Radix
    THEN <<(value % Radix) + Radix>> \o writeVarInt[value \div Radix]
    ELSE <<value>>

getVarIntSize[value \in Nat] ==
  IF value >= Radix THEN 1 + getVarIntSize[value \div Radix] ELSE 1

\* the number that starts at position p of a sequence of bytes, and the
\* position after it
readVarInt(bytes, p) ==
  LET last == CHOOSE q \in p .. Len(bytes) :
                ~More(bytes[q]) /\ \A r \in p .. q - 1 : More(bytes[r])
      value[q \in p .. last] ==
        (bytes[q] % Radix) + (IF q = last THEN 0 ELSE Radix * value[q + 1])
  IN  [value |-> value[p], next |-> last + 1]
=============================================================================
