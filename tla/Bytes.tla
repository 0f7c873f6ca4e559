-------------------------------- MODULE Bytes --------------------------------
(***************************************************************************)
(* Buffers of the native engine: sequences of bytes with offsets from 0,   *)
(* as the parsers of dns.c and tls.c read them.                            *)
(***************************************************************************)
EXTENDS Integers, Sequences

CONSTANT Radix  \* values of a byte (256): the modulus of a uint8_t

ASSUME RadixAssumption == Radix \in Nat \ {0, 1}

Byte == 0..(Radix - 1)

\* The byte at offset i; beyond the buffer anything may be read, here 0.
At(data, i) == IF i \in 0..(Len(data) - 1) THEN data[i + 1] ELSE 0

\* Two bytes in network order.
Word(data, i) == At(data, i) * Radix + At(data, i + 1)

\* The n bytes from offset i.
Copy(data, i, n) == [k \in 1..n |-> At(data, i + k - 1)]

Larger(a, b) == IF a > b THEN a ELSE b

\* What functions for strings see of a buffer: it ends at the first zero.
CString(s) ==
  LET zeros == {i \in DOMAIN s : s[i] = 0}
  IN  IF zeros = {} THEN s
      ELSE SubSeq(s, 1, (CHOOSE i \in zeros : \A j \in zeros : i <= j) - 1)

=============================================================================
