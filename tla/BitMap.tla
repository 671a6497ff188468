------------------------------- MODULE BitMap -------------------------------
(***************************************************************************)
(* The bit maps of a MINIX file system (src/fs/super.c) as sets of bits in *)
(* use.  A search starts at the word that holds the origin and wraps       *)
(* around once.  Bit 0 is in use for ever, its number means "no bit".      *)
(***************************************************************************)
EXTENDS Integers

NO_BIT == 0

(* The bits of a map of n bits.                                            *)
Bits(n) == 0 .. n - 1

Lowest(S) == CHOOSE b \in S : \A c \in S : b <= c

(* The first bit of the word of the origin, which is not trusted.          *)
WordStart(n, origin, word) ==
  IF origin \in Bits(n) THEN (origin \div word) * word ELSE 0

(* The bit alloc_bit finds in map, which has n bits in words of word bits: *)
(* the first free one from the origin's word on, or else the first of all. *)
alloc_bit(map, n, origin, word) ==
  LET free == Bits(n) \ map
      after == { b \in free : b >= WordStart(n, origin, word) }
  IN  IF free = {} THEN NO_BIT
      ELSE IF after # {} THEN Lowest(after) ELSE Lowest(free)

(* s_zsearch and s_isearch: what the next search may skip is in use.       *)
SkipsNoFree(map, search) == \A b \in 0 .. search - 1 : b \in map
=============================================================================
