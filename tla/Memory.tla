------------------------------- MODULE Memory -------------------------------
(***************************************************************************)
(* memory.c: a flat byte memory accessed by byte, half word and word.      *)
(*                                                                         *)
(* The memory "m" is a function from addresses to bytes.  Its size is the  *)
(* power of two 2^MemBits (2^17 in the code), so an address is in bounds   *)
(* when it has no bit at MemBits or above.                                 *)
(***************************************************************************)
EXTENDS Words

CONSTANTS MemBits,      \* 17 in the code
          BigEndian     \* is_big_endian of memory_create

ASSUME MemoryAssumption == MemBits \in Nat \ {0} /\ BigEndian \in BOOLEAN

Byte == SUBSET (0..7)
MemAddress == SUBSET (0..(MemBits - 1))
MemoryContent == [MemAddress -> Byte]

\* The address of the byte at distance i of an access, and the bounds test
\* of an access of n bytes: it looks at the last byte only, computed modulo
\* 2^32.
ByteAddress(address, i) == Add(address, FromNat(i))

\* Mutant: the test takes the byte after the last.
InBoundsOffByOne(address, n) == ByteAddress(address, n) \in MemAddress

InBounds(address, n) == ByteAddress(address, n - 1) \in MemAddress

\* The bounds test passes and some byte lies outside the array all the same.
Wild(address, n) ==
    InBounds(address, n) /\ \E i \in 0..(n - 1) : ByteAddress(address, i) \notin MemAddress

\* The byte at distance i of a value of n bytes.
Lane(n, i) == IF BigEndian THEN n - 1 - i ELSE i

\* Mutant: the byte is shifted down and not cut to 8 bits.
ByteOfUncut(value, lane) == lsr(value, 8 * lane)

ByteOf(value, lane) == get_bits(value, 8 * lane + 7, 8 * lane)

\* memory_read_byte, memory_read_half, memory_read_word, for n = 1, 2, 4:
\* the value of a read that is in bounds.
memory_read(m, address, n) ==
    {b \in Bits : \E i \in 0..(n - 1) :
        /\ ByteAddress(address, i) \in MemAddress
        /\ (b - 8 * Lane(n, i)) \in m[ByteAddress(address, i)]}

\* The memory after a set of pairs <<address, byte>> has been stored.
StoreBytes(m, bytes) ==
    [a \in MemAddress |->
        IF \E b \in bytes : b[1] = a THEN (CHOOSE b \in bytes : b[1] = a)[2] ELSE m[a]]

\* Mutant: writes are little endian whatever the memory is.
BytesOfLittleEndian(address, n, value) ==
    {<<ByteAddress(address, i), ByteOf(value, i)>> : i \in 0..(n - 1)}

BytesOf(address, n, value) ==
    {<<ByteAddress(address, i), ByteOf(value, Lane(n, i))>> : i \in 0..(n - 1)}

\* memory_write_byte, memory_write_half, memory_write_word.
memory_write(m, address, n, value) ==
    IF InBounds(address, n) THEN StoreBytes(m, BytesOf(address, n, value)) ELSE m

=============================================================================
