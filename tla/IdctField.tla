------------------------------ MODULE IdctField ------------------------------
(***************************************************************************)
(* The number system the inverse-DCT model computes in.                    *)
(*                                                                         *)
(* The kernel (src/lib/jpegli/idct.cc) computes in single-precision        *)
(* floats with irrational constants: sqrt(2), 1/(2cos((i+0.5)pi/N)) and    *)
(* sqrt(2)cos(j pi/(2N)).  TLC cannot compute with reals, so the model     *)
(* replaces the floats by the prime field GF(P), chosen so that it holds   *)
(* a root of unity zeta of order Order.  Every cosine the kernel needs is  *)
(* then an exact field element, 2cos(2 pi k/m) = zeta_m^k + zeta_m^-k, and *)
(* every algebraic identity between these constants that holds over the   *)
(* complex numbers holds in GF(P).  The model therefore checks the         *)
(* STRUCTURE of the computation (which input is combined with which        *)
(* constant, with which sign, in which order, at which address) exactly,   *)
(* and leaves rounding out.                                                *)
(*                                                                         *)
(* NaN stands for a float that is not finite or not determined: a          *)
(* non-finite table entry, or a scratch cell nobody wrote.  Every          *)
(* arithmetic operation propagates it, as IEEE arithmetic does for NaN.    *)
(***************************************************************************)
EXTENDS Integers

CONSTANTS
  P,      \* the prime modulus
  Root,   \* a root of unity of order exactly Order in GF(P)
  Order   \* the order of Root; every root the model needs divides it

ASSUME FieldAssumption ==
  /\ P \in Nat /\ P > 2
  /\ P <= 46340     \* (P-1)*(P-1) fits TLC's 32-bit integers
  /\ \A d \in 2..215 : d < P => P % d # 0   \* prime, as 215^2 > 46340

NaN == -1

(* A float of the kernel: a residue modulo P, or NaN. *)
Val == {NaN} \cup 0..P-1

ToVal(i) == i % P

(* Residues of GF(P); anything else behaves as NaN. *)
Fin == 0..P-1

Add(a, b) == IF a \in Fin /\ b \in Fin THEN (a + b) % P ELSE NaN
Sub(a, b) == IF a \in Fin /\ b \in Fin THEN (a - b) % P ELSE NaN
Mul(a, b) == IF a \in Fin /\ b \in Fin THEN (a * b) % P ELSE NaN
Negate(a) == Sub(0, a)

(* a^e mod P by repeated squaring, as a recursive function of e. *)
PowMod(a, e) ==
  LET pw[k \in 0..e] ==
        IF k = 0 THEN 1
        ELSE LET h == pw[k \div 2]
             IN  IF k % 2 = 0 THEN (h * h) % P ELSE (((h * h) % P) * a) % P
  IN  pw[e]

(* Multiplicative inverse (Fermat); the float division of the kernel. *)
Inv(a) == IF a \in Fin THEN PowMod(a, P - 2) ELSE NaN

ASSUME RootAssumption ==
  /\ Order \in Nat /\ Order > 1 /\ (P - 1) % Order = 0
  /\ PowMod(Root, Order) = 1
  /\ \A d \in 1..Order-1 : Order % d = 0 => PowMod(Root, d) # 1

(* The powers of Root, tabulated once. *)
RootPow == [k \in 0..Order-1 |-> PowMod(Root, k)]

(* zeta_m^k, for a root of unity of order m dividing Order. *)
ZetaPow(m, k) == RootPow[(Order \div m) * (k % m)]

(* 2 cos(2 pi k / m), exactly. *)
TwoCos(m, k) == (ZetaPow(m, k) + ZetaPow(m, -k)) % P

Half  == Inv(2)
Sqrt2 == TwoCos(8, 1)                  \* 2 cos(pi/4) = sqrt(2)

(* sqrt(2) cos(k pi / (2n)), the entry kC<n>[k] of the kernel's tables.    *)
SqrtTwoCos(n, k) == Mul(Mul(Sqrt2, Half), TwoCos(4 * n, k))
=============================================================================
