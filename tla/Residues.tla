------------------------------ MODULE Residues ------------------------------
(***************************************************************************)
(* The numbers kernels compute with, as residues modulo the prime P.  The  *)
(* kernels modelled over them add, multiply, divide, take square roots and *)
(* exponentiate; each of those is a field operation here, with exp a       *)
(* homomorphism from sums to products, so that two formulas equal over the *)
(* reals are equal here, and two different ones differ at nearly every     *)
(* choice of inputs.  Rounding is what this leaves out.                    *)
(*                                                                         *)
(* Vectors and matrices are functions from 0, as the kernels index them.   *)
(***************************************************************************)
EXTENDS Integers, TLC

(* Small enough for products within TLC's integers; 3 modulo 4, so that    *)
(* half of the residues have the square root Root gives.                   *)
P == 10007

(* The sum of f(0) to f(n - 1).                                            *)
Total(n, f(_)) ==
  LET sum[i \in 0..n] == IF i = 0 THEN 0 ELSE (sum[i - 1] + f(i - 1)) % P
  IN  sum[n]

Pow(x, n) ==
  LET pow[k \in Nat] ==
        IF k = 0 THEN 1
        ELSE LET h == pow[k \div 2]
             IN  (((h * h) % P) * (IF k % 2 = 1 THEN x ELSE 1)) % P
  IN  pow[n]

(* Tabulated, as the kernels divide and take roots at every turn.          *)
Inverses == [x \in 0..(P - 1) |-> Pow(x, P - 2)]
Roots    == [x \in 0..(P - 1) |-> Pow(x, (P + 1) \div 4)]

Inv(x)      == Inverses[x % P]
Root(x)     == Roots[x % P]
IsSquare(x) == (Root(x) * Root(x)) % P = x % P

(* f itself; TLC then computes each of its values once.                    *)
Tabulated(f) == f @@ <<>>

(* f(x), and f(x, y); TLC then computes x and y once.                       *)
Once(x, f(_))     == CHOOSE r \in {f(u) : u \in {x}} : TRUE
Both(x, y, f(_, _)) == CHOOSE r \in {f(u, v) : u \in {x}, v \in {y}} : TRUE

(* Vectors, and matrices of n rows and m columns.                          *)
Vector(n, f(_))       == Tabulated([i \in 0..(n - 1) |-> f(i) % P])
Matrix(n, m, f(_, _)) ==
  Tabulated([i \in 0..(n - 1) |-> Tabulated([j \in 0..(m - 1) |-> f(i, j) % P])])
Dot(n, x, y)          == Total(n, LAMBDA i : x[i] * y[i])

(* Arbitrary fixed residues: the k-th value of the stream s.               *)
Arbitrary(s, k) == (Pow((31 * s + 7 * k + 5) % P, 3) + 2 * k + 1) % P

-----------------------------------------------------------------------------
(* Dual numbers, v + d eps with eps^2 = 0: a formula over them carries the *)
(* derivative of its value along with it.                                  *)
Const(x)   == [v |-> x % P, d |-> 0]
Plus(x, y) == [v |-> (x.v + y.v) % P, d |-> (x.d + y.d) % P]
Minus(x, y) == [v |-> (x.v - y.v) % P, d |-> (x.d - y.d) % P]
Times(x, y) == [v |-> (x.v * y.v) % P, d |-> (((x.v * y.d) % P) + x.d * y.v) % P]
InvRoot(x) ==
  LET r == Inv(Root(x.v))
  IN  [v |-> r, d |-> ((((0 - x.d) * Inv(2)) % P) * Pow(r, 3)) % P]
DualMatrix(n, m, f(_, _)) ==
  Tabulated([i \in 0..(n - 1) |-> Tabulated([j \in 0..(m - 1) |-> f(i, j)])])
DualTotal(n, f(_)) ==
  LET sum[i \in 0..n] == IF i = 0 THEN Const(0) ELSE Plus(sum[i - 1], f(i - 1))
  IN  sum[n]
=============================================================================
