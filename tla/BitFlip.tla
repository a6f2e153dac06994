-------------------------------- MODULE BitFlip --------------------------------
(***************************************************************************)
(* The masks of err_injector/injector.cu. A word, a register number and an *)
(* address are the sets of their one bits, bit 0 the lowest.               *)
(***************************************************************************)
EXTENDS Integers

Xor(a, b) == (a \ b) \cup (b \ a)

\* Mutant: 2 instead of 3.
FlipMaskOfTwo(bfm) ==
    IF bfm \in {"FLIP_TWO_BITS", "WARP_FLIP_TWO_BITS"} THEN {1} ELSE {0}

\* The int constants 1 and 3, that the bit-flip models shift.
FlipMask(bfm) ==
    IF bfm \in {"FLIP_TWO_BITS", "WARP_FLIP_TWO_BITS"} THEN {0, 1} ELSE {0}

\* (T) mask << n for an unsigned T of width bits, n < width.
Shift(mask, n, width) == {b + n : b \in mask} \cap 0..(width - 1)

\* mask << n for a signed int, converted to a word of width bits: the sign bit
\* spreads. Shifting by the width of int or more is undefined: the GPU's shift
\* yields zero, one that takes the count modulo the width does not.
IntShift(mask, n, intBits, width) ==
    LET Extended(k) == LET low == Shift(mask, k, intBits)
                       IN IF intBits - 1 \in low THEN low \cup intBits..(width - 1) ELSE low
    IN IF n < intBits THEN {Extended(n)} ELSE {{}, Extended(n % intBits)}

\* inject_store128_error_t, on two halves of half bits. At the top bit of the
\* lower half the rest of the pair is shifted by -1 in the upper half.
QuadShift(mask, n, half) ==
    LET Upper(bits) == {b + half : b \in bits} IN
    CASE n >= half                     -> {Upper(Shift(mask, n - half, half))}
      [] n = half - 1 /\ mask # {0}    -> {{n}, {n} \cup Upper({half - 1})}
      [] OTHER                         -> {Shift(mask, n, half)}

\* get_inj_mask: the seed, a fraction, becomes the integer 0 on the call, so the
\* lowest bit of the mask is chosen.
InjMask(mask) == {CHOOSE b \in mask : \A c \in mask : b <= c}
=============================================================================
