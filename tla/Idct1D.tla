------------------------------- MODULE Idct1D --------------------------------
(***************************************************************************)
(* The one-dimensional transforms of src/lib/jpegli/idct.cc, as pure       *)
(* operators on vectors (functions 0..N-1 -> Val), and the textbook        *)
(* inverse DCT they must compute.                                          *)
(*                                                                         *)
(* A vector stands for one lane of the kernel's SIMD registers: the code   *)
(* transforms up to eight independent columns at once (Lanes(d8)), and     *)
(* each lane computes exactly the operator given here.                     *)
(***************************************************************************)
EXTENDS IdctField, Sequences

(***************************************************************************)
(* FastPathTransform: the factorised IDCT of sizes 1, 2, 4 and 8.          *)
(***************************************************************************)

(* WcMultipliers<N>::kMultipliers[i] = 1 / (2 cos((i + 0.5) pi / N)). *)
WcTab == [N \in {2, 4, 8} |-> [i \in 0..3 |-> Inv(TwoCos(4 * N, 2 * i + 1))]]
Wc(N, i) == WcTab[N][i]

(* ForwardEvenOdd<N>: rows 0, 2, 4, .. to the first half of tmp, rows     *)
(* 1, 3, 5, .. to the second half.                                         *)
ForwardEvenOdd(N, v) ==
  [i \in 0..N-1 |-> IF i < N \div 2 THEN v[2 * i]
                                    ELSE v[2 * (i - N \div 2) + 1]]

(* f[1] + .. + f[n] in the field, summed by halving the range (lo, hi]   *)
(* so that the recursion is as deep as log n and not n: the sums nest     *)
(* inside one another (the box average of 64 terms of 8-term sums).       *)
SumTo(f, n) ==
  LET s[r \in (0..n) \X (0..n)] ==
        IF r[2] <= r[1] THEN 0
        ELSE IF r[2] = r[1] + 1 THEN Add(0, f[r[2]])
        ELSE LET m == (r[1] + r[2]) \div 2 IN Add(s[<<r[1], m>>], s[<<m, r[2]>>])
  IN  s[<<0, n>>]

(* Mutant: the loop of BTranspose run upwards, so that every step adds     *)
(* the already updated coeff[i-1] (prefix sums).                           *)
BTransposeAscending(N, w) ==
  [i \in 0..N-1 |-> IF i = 0 THEN Mul(w[0], Sqrt2)
                    ELSE SumTo([j \in 1..i + 1 |-> w[j - 1]], i + 1)]

(* BTranspose<N>: for i = N-1 down to 1, coeff[i] += coeff[i-1]; then     *)
(* coeff[0] *= sqrt(2).  Running i downwards makes every step read the    *)
(* coeff[i-1] of before the loop.                                          *)
BTranspose(N, w) ==
  [i \in 0..N-1 |-> IF i = 0 THEN Mul(w[0], Sqrt2) ELSE Add(w[i], w[i - 1])]

(* MultiplyAndAdd<N>: out[i] = even[i] + wc[i] odd[i] and                 *)
(* out[N-1-i] = even[i] - wc[i] odd[i], for i < N/2.                      *)
MultiplyAndAdd(N, even, odd) ==
  [k \in 0..N-1 |->
     IF k < N \div 2 THEN Add(even[k], Mul(Wc(N, k), odd[k]))
     ELSE Sub(even[N - 1 - k], Mul(Wc(N, N - 1 - k), odd[N - 1 - k]))]

(* IDCT1DImpl<N> for N > 2: split, transform both halves with             *)
(* IDCT1DImpl<N/2> (Sub1D), the odd one after BTranspose, and recombine.    *)
Butterfly(N, Sub1D(_), v) ==
  LET h   == N \div 2
      tmp == ForwardEvenOdd(N, v)
  IN  MultiplyAndAdd(N, Sub1D([i \in 0..h-1 |-> tmp[i]]),
                        Sub1D(BTranspose(h, [i \in 0..h-1 |-> tmp[h + i]])))

IDCT1DImpl1(v) == v
IDCT1DImpl2(v) == [k \in 0..1 |-> IF k = 0 THEN Add(v[0], v[1]) ELSE Sub(v[0], v[1])]
IDCT1DImpl4(v) == Butterfly(4, IDCT1DImpl2, v)
IDCT1DImpl8(v) == Butterfly(8, IDCT1DImpl4, v)

(***************************************************************************)
(* GeneralTransform: Compute1dIDCT(in, out, N) for N in 3, 5, 6, 7, 9..16. *)
(* Each case is the same even/odd scheme with its own table of terms:      *)
(*   even_j = in[0] + sum_m  c * in[2m]      (m = 1..)                     *)
(*   odd_j  =         sum_m  c * in[2m - 1]  (m = 1..)                     *)
(*   out[j] = even_j + odd_j, out[N-1-j] = even_j - odd_j, and for odd N   *)
(*   out[(N-1)/2] = even_(N-1)/2.                                          *)
(* A term is Plus(j) for +kC<N>[j], Minus(j) for -kC<N>[j], or Zero where  *)
(* the code's expression leaves that input out.                            *)
(***************************************************************************)
Plus(j)  == <<1, j>>
Minus(j) == <<-1, j>>
Zero     == <<0, 0>>

(* Mutant: a switch that lacks the cases 13 and 15. *)
GeneralSizesMissing == {3, 5, 6, 7, 9, 10, 11, 12, 14, 16}

GeneralSizes == {3, 5, 6, 7, 9, 10, 11, 12, 13, 14, 15, 16}

(* kC<N>[j] = sqrt(2) cos(j pi / (2N)). *)
(* Mutant: a wrong literal in kC12 (entry 10) and in kC13 (entry 9). *)
KCTabTypo ==
  [N \in GeneralSizes |-> [j \in 0..15 |->
     IF <<N, j>> \in {<<12, 10>>, <<13, 9>>} THEN SqrtTwoCos(N, j + 1) ELSE SqrtTwoCos(N, j)]]

KCTab == [N \in GeneralSizes |-> [j \in 0..15 |-> SqrtTwoCos(N, j)]]
KC(N, j) == KCTab[N][j]

(* The cases of Compute1dIDCT's switch: row j of even lists the terms of *)
(* even_j, row j of odd those of odd_j.                                   *)
Case3 ==
  [even |-> << <<Plus(2)>>,
               <<Minus(0)>> >>,
   odd  |-> << <<Plus(1)>> >>]

Case5 ==
  [even |-> << <<Plus(2), Plus(4)>>,
               <<Minus(4), Minus(2)>>,
               <<Minus(0), Plus(0)>> >>,
   odd  |-> << <<Plus(1), Plus(3)>>,
               <<Plus(3), Minus(1)>> >>]

Case6 ==
  [even |-> << <<Plus(2), Plus(4)>>,
               <<Zero, Minus(0)>>,
               <<Minus(2), Plus(4)>> >>,
   odd  |-> << <<Plus(1), Plus(3), Plus(5)>>,
               <<Plus(3), Minus(3), Minus(3)>>,
               <<Plus(5), Minus(3), Plus(1)>> >>]

Case7 ==
  [even |-> << <<Plus(2), Plus(4), Plus(6)>>,
               <<Plus(6), Minus(2), Minus(4)>>,
               <<Minus(4), Minus(6), Plus(2)>>,
               <<Minus(0), Plus(0), Minus(0)>> >>,
   odd  |-> << <<Plus(1), Plus(3), Plus(5)>>,
               <<Plus(3), Minus(5), Minus(1)>>,
               <<Plus(5), Minus(1), Plus(3)>> >>]

Case9 ==
  [even |-> << <<Plus(2), Plus(4), Plus(6)>>,
               <<Plus(6), Minus(6), Minus(0)>>,
               <<Minus(8), Minus(2), Plus(6)>>,
               <<Minus(4), Plus(8), Plus(6)>>,
               <<Minus(0), Plus(0), Minus(0)>> >>,
   odd  |-> << <<Plus(1), Plus(3), Plus(5), Plus(7)>>,
               <<Plus(3), Zero, Minus(3), Minus(3)>>,
               <<Plus(5), Minus(3), Minus(7), Plus(1)>>,
               <<Plus(7), Minus(3), Plus(1), Minus(5)>> >>]

Case10 ==
  [even |-> << <<Plus(2), Plus(4), Plus(6)>>,
               <<Plus(6), Minus(8), Minus(2)>>,
               <<Zero, Minus(0)>>,
               <<Minus(6), Minus(8), Plus(2)>>,
               <<Minus(2), Plus(4), Minus(6)>> >>,
   odd  |-> << <<Plus(1), Plus(3), Plus(5), Plus(7)>>,
               <<Plus(3), Plus(9), Minus(5), Minus(1)>>,
               <<Plus(5), Minus(5), Minus(5), Plus(5)>>,
               <<Plus(7), Minus(1), Plus(5), Plus(9)>>,
               <<Plus(9), Minus(7), Plus(5), Minus(3)>> >>]

Case11 ==
  [even |-> << <<Plus(2), Plus(4), Plus(6)>>,
               <<Plus(6), Minus(10), Minus(4)>>,
               <<Plus(10), Minus(2), Minus(8)>>,
               <<Minus(8), Minus(6), Plus(2)>>,
               <<Minus(4), Plus(8), Plus(10)>>,
               <<Minus(0), Plus(0), Minus(0)>> >>,
   odd  |-> << <<Plus(1), Plus(3), Plus(5), Plus(7)>>,
               <<Plus(3), Plus(9), Minus(7), Minus(1)>>,
               <<Plus(5), Minus(7), Minus(3), Plus(9)>>,
               <<Plus(7), Minus(1), Plus(9), Plus(5)>>,
               <<Plus(9), Minus(5), Plus(1), Minus(3)>> >>]

Case12 ==
  [even |-> << <<Plus(2), Plus(4), Plus(6)>>,
               <<Plus(6), Zero, Minus(6)>>,
               <<Plus(10), Minus(4), Minus(6)>>,
               <<Minus(10), Minus(4), Plus(6)>>,
               <<Minus(6), Zero, Plus(6)>>,
               <<Minus(2), Plus(4), Minus(6)>> >>,
   odd  |-> << <<Plus(1), Plus(3), Plus(5), Plus(7)>>,
               <<Plus(3), Plus(9), Minus(9), Minus(3)>>,
               <<Plus(5), Minus(9), Minus(1), Minus(11)>>,
               <<Plus(7), Minus(3), Minus(11), Plus(1)>>,
               <<Plus(9), Minus(3), Plus(3), Minus(9)>>,
               <<Plus(11), Minus(9), Plus(7), Minus(5)>> >>]

Case13 ==
  [even |-> << <<Plus(2), Plus(4), Plus(6)>>,
               <<Plus(6), Plus(12), Minus(8)>>,
               <<Plus(10), Minus(6), Minus(4)>>,
               <<Minus(12), Minus(2), Plus(10)>>,
               <<Minus(8), Minus(10), Plus(2)>>,
               <<Minus(4), Plus(8), Minus(12)>>,
               <<Minus(0), Plus(0), Minus(0)>> >>,
   odd  |-> << <<Plus(1), Plus(3), Plus(5), Plus(7)>>,
               <<Plus(3), Plus(9), Minus(11), Minus(5)>>,
               <<Plus(5), Minus(11), Minus(1), Minus(9)>>,
               <<Plus(7), Minus(5), Minus(9), Plus(3)>>,
               <<Plus(9), Minus(1), Plus(7), Plus(11)>>,
               <<Plus(11), Minus(7), Plus(3), Minus(1)>> >>]

Case14 ==
  [even |-> << <<Plus(2), Plus(4), Plus(6)>>,
               <<Plus(6), Plus(12), Minus(10)>>,
               <<Plus(10), Minus(8), Minus(2)>>,
               <<Zero, Minus(0)>>,
               <<Minus(10), Minus(8), Plus(2)>>,
               <<Minus(6), Plus(12), Plus(10)>>,
               <<Minus(2), Plus(4), Minus(6)>> >>,
   odd  |-> << <<Plus(1), Plus(3), Plus(5), Plus(7)>>,
               <<Plus(3), Plus(9), Minus(13), Minus(7)>>,
               <<Plus(5), Minus(13), Minus(3), Minus(7)>>,
               <<Plus(7), Minus(7), Minus(7), Plus(7)>>,
               <<Plus(9), Minus(1), Plus(11), Plus(7)>>,
               <<Plus(11), Minus(5), Plus(1), Minus(7)>>,
               <<Plus(13), Minus(11), Plus(9), Minus(7)>> >>]

Case15 ==
  [even |-> << <<Plus(2), Plus(4), Plus(6)>>,
               <<Plus(6), Plus(12), Minus(12)>>,
               <<Plus(10), Minus(10), Minus(0)>>,
               <<Plus(14), Minus(2), Minus(12)>>,
               <<Minus(12), Minus(6), Plus(6)>>,
               <<Minus(8), Minus(14), Plus(6)>>,
               <<Minus(4), Plus(8), Minus(12)>>,
               <<Minus(0), Plus(0), Minus(0)>> >>,
   odd  |-> << <<Plus(1), Plus(3), Plus(5), Plus(7)>>,
               <<Plus(3), Plus(9), Zero, Minus(9)>>,
               <<Plus(5), Zero, Minus(5), Minus(5)>>,
               <<Plus(7), Minus(9), Minus(5), Plus(11)>>,
               <<Plus(9), Minus(3), Zero, Plus(3)>>,
               <<Plus(11), Minus(3), Plus(5), Minus(13)>>,
               <<Plus(13), Minus(9), Plus(5), Minus(1)>> >>]

Case16 ==
  [even |-> << <<Plus(2), Plus(4), Plus(6)>>,
               <<Plus(6), Plus(12), Minus(14)>>,
               <<Plus(10), Minus(12), Minus(2)>>,
               <<Plus(14), Minus(4), Minus(10)>>,
               <<Minus(14), Minus(4), Plus(10)>>,
               <<Minus(10), Minus(12), Plus(2)>>,
               <<Minus(6), Plus(12), Plus(14)>>,
               <<Minus(2), Plus(4), Minus(6)>> >>,
   odd  |-> << <<Plus(1), Plus(3), Plus(5), Plus(7)>>,
               <<Plus(3), Plus(9), Plus(15), Minus(11)>>,
               <<Plus(5), Plus(15), Minus(7), Minus(3)>>,
               <<Plus(7), Minus(11), Minus(3), Plus(15)>>,
               <<Plus(9), Minus(5), Minus(13), Plus(1)>>,
               <<Plus(11), Minus(1), Plus(9), Plus(13)>>,
               <<Plus(13), Minus(7), Plus(1), Minus(5)>>,
               <<Plus(15), Minus(13), Plus(11), Minus(9)>> >>]

(* switch (N): the case of each supported size (the others abort). *)
Case == [N \in GeneralSizes |-> CASE N = 3 -> Case3 [] N = 5 -> Case5 [] N = 6 -> Case6
                                [] N = 7 -> Case7 [] N = 9 -> Case9 [] N = 10 -> Case10
                                [] N = 11 -> Case11 [] N = 12 -> Case12
                                [] N = 13 -> Case13 [] N = 14 -> Case14
                                [] N = 15 -> Case15 [] N = 16 -> Case16]

(* The value of one term t applied to in[k]; a Zero term reads nothing. *)
TermVal(N, t, in, k) ==
  IF t[1] = 0 THEN 0 ELSE Mul(IF t[1] = 1 THEN KC(N, t[2]) ELSE Negate(KC(N, t[2])), in[k])

EvenSum(N, j, in) ==
  LET row == Case[N].even[j + 1]
  IN  Add(in[0], SumTo([m \in 1..Len(row) |-> TermVal(N, row[m], in, 2 * m)], Len(row)))

OddSum(N, j, in) ==
  LET row == Case[N].odd[j + 1]
  IN  SumTo([m \in 1..Len(row) |-> TermVal(N, row[m], in, 2 * m - 1)], Len(row))

(* Compute1dIDCT(in, out, N) for a supported N: in has min(N, 8) entries. *)
Compute1dIDCT(in, N) ==
  [x \in 0..N-1 |->
     IF x < N \div 2 THEN Add(EvenSum(N, x, in), OddSum(N, x, in))
     ELSE IF N - 1 - x < N \div 2
          THEN Sub(EvenSum(N, N - 1 - x, in), OddSum(N, N - 1 - x, in))
          ELSE EvenSum(N, x, in)]

(***************************************************************************)
(* The reference: the N-point inverse DCT with the kernel's scaling,       *)
(*   out[x] = in[0] + sum_{u >= 1} sqrt(2) cos((2x+1) u pi / (2N)) in[u],  *)
(* over the inputs that exist (u < min(N, 8)).                             *)
(***************************************************************************)
RefCoef(N, x, u) == IF u = 0 THEN 1 ELSE SqrtTwoCos(N, (2 * x + 1) * u)

RefIDCT(in, N) ==
  LET K == IF N < 8 THEN N ELSE 8
  IN  [x \in 0..N-1 |-> SumTo([u \in 1..K |-> Mul(RefCoef(N, x, u - 1), in[u - 1])], K)]
=============================================================================
