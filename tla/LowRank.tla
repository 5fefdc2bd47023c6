------------------------------- MODULE LowRank -------------------------------
(***************************************************************************)
(* The low-rank product of dash-ops, y = base + scale (x U) V, and its      *)
(* gradients (lowrank/cube.rs, lowrank/reference.rs): four kernels, each    *)
(* over one wide operand, whose long sums are cut into runs that a last     *)
(* kernel adds.  Numbers are Residues; rounding is left out, the order in   *)
(* which runs are added with it.                                            *)
(*                                                                          *)
(* A call gives the sizes (rows, inp, rank, out), whether there is a base,  *)
(* the gradients wanted, whether the device takes the kernels, and what the *)
(* kernels are cut by: units of a cube, lanes (of down and of gather),      *)
(* tile, vector width, the least runs and what the launches aim to fill.    *)
(***************************************************************************)
EXTENDS Residues, Sequences, FiniteSetsExt

CeilDiv(a, b) == (a + b - 1) \div b
Least(a, b)   == IF a < b THEN a ELSE b
Clamp(x, lo, hi) == IF x < lo THEN lo ELSE IF x > hi THEN hi ELSE x

IsCall(c) ==
  /\ {c.rows, c.inp, c.rank, c.out, c.cube, c.lanes, c.glanes, c.tile, c.width, c.minrun, c.gminrun,
      c.uprows, c.fill, c.gfill} \subseteq Nat \ {0}
  /\ c.inp % c.width = 0 /\ c.out % c.width = 0 /\ c.tile % c.width = 0
  /\ c.lanes <= c.cube /\ c.glanes <= c.cube
  /\ c.wanted \in [{"x", "u", "v"} -> BOOLEAN]

-----------------------------------------------------------------------------
(* The products.  "h" and "dh" are narrow, [rows, rank], and "dv" and "du"  *)
(* the factors' gradients; "y" and "dx" are wide.                           *)
Wide(c, m, out) == IF out \in {"h", "du"} THEN m.x ELSE m.grad
Depth(c, out)   == IF out \in {"h", "du", "dx"} THEN c.inp ELSE c.out
Scaled(c, out)  == IF out \in {"dh", "dv", "y"} THEN c.scale ELSE 1

(* A factor as it is read, rank first: U transposed, V as it is.            *)
Factor(m, out, j, k) == IF out \in {"h", "dx"} THEN m.u[k][j] ELSE m.v[j][k]
Narrow(m, out)       == IF out \in {"dv", "y"} THEN m.narrow["h"] ELSE m.narrow["dh"]

(* How down and gather cut their sums: the count of runs and their length.  *)
Block(c)      == c.cube \div Least(c.rank, c.lanes)
DownBlocks(c) == CeilDiv(c.rows, 2 * Block(c))
(* Mutant: runs are not rounded up to whole tiles.                          *)
DownRunsBare(c, k) ==
  LET run == CeilDiv(k, Clamp(CeilDiv(c.fill, DownBlocks(c)), 1, CeilDiv(k, c.minrun)))
  IN  <<CeilDiv(k, run), run>>
DownRuns(c, k) ==
  LET runs == Clamp(CeilDiv(c.fill, DownBlocks(c)), 1, CeilDiv(k, c.minrun))
      run  == CeilDiv(CeilDiv(k, runs), c.tile) * c.tile
  IN  <<CeilDiv(k, run), run>>

Columns(c)  == c.cube \div Least(c.rank, c.glanes)
GatherBlocks(c, cols) == CeilDiv(cols \div c.width, Columns(c))
GatherRuns(c, cols) ==
  LET runs == Clamp(CeilDiv(c.gfill, GatherBlocks(c, cols) * c.cube), 1, CeilDiv(c.rows, c.gminrun))
      run  == CeilDiv(c.rows, runs)
  IN  <<CeilDiv(c.rows, run), run>>

Runs(c, out) ==
  IF out \in {"h", "dh"} THEN DownRuns(c, Depth(c, out)) ELSE GatherRuns(c, Depth(c, out))

(* The result itself if there is one run, partial sums otherwise.           *)
Store(c, m, out, s, values) ==
  IF Runs(c, out)[1] > 1
  THEN [m EXCEPT !.partial[out][s] = [at \in DOMAIN @ |-> IF at \in DOMAIN values THEN values[at] ELSE @[at]]]
  ELSE IF out \in {"h", "dh"}
  THEN [m EXCEPT !.narrow[out] = [at \in DOMAIN @ |-> IF at \in DOMAIN values THEN values[at] ELSE @[at]]]
  ELSE [m EXCEPT !.factor[out] = [at \in DOMAIN @ |-> IF at \in DOMAIN values THEN values[at] ELSE @[at]]]

-----------------------------------------------------------------------------
(* down, a cube of which owns rows and a run.  The outputs of a lane are    *)
(* lane, lane + lanes and so on; those past the rank read what the slice    *)
(* held, which no unit stages.                                              *)
Slice(c, m, out, t0, len) ==
  [j \in 0..(CeilDiv(c.rank, Least(c.rank, c.lanes)) * Least(c.rank, c.lanes) - 1) |->
     [kk \in 0..(c.tile - 1) |->
        IF j >= c.rank THEN Arbitrary(9, kk) ELSE IF kk < len THEN Factor(m, out, j, t0 + kk) ELSE 0]]

DownKernel(c, m, out, cube) ==
  LET s    == cube[2]
      run  == Runs(c, out)[2]
      k0   == s * run
      k1   == Least(k0 + run, Depth(c, out))
      lanes == Least(c.rank, c.lanes)
      units == (0..(lanes - 1)) \X (0..(Block(c) - 1))
      Rows(unit) == {cube[1] * 2 * Block(c) + unit[2], cube[1] * 2 * Block(c) + Block(c) + unit[2]}
      Tile(n, j, t0) ==
        LET len   == Least(c.tile, k1 - t0)
            slice == Slice(c, m, out, t0, len)
        IN  Total((len \div c.width) * c.width,
                  LAMBDA kk : Wide(c, m, out)[n][t0 + kk] * Scaled(c, out) * slice[j][kk])
      Sum(n, j) == Total(CeilDiv(k1 - k0, c.tile), LAMBDA i : Tile(n, j, k0 + i * c.tile))
      written == {at \in UNION {Rows(unit) \X {unit[1] + p * lanes : p \in 0..(CeilDiv(c.rank, lanes) - 1)} :
                                   unit \in units} : at[1] < c.rows /\ at[2] < c.rank}
  IN  Store(c, m, out, s, [at \in written |-> Sum(at[1], at[2])])

(* gather, a cube of which owns vectors of columns and a run of rows.       *)
GatherKernel(c, m, out, cube) ==
  LET s   == cube[2]
      n0  == s * Runs(c, out)[2]
      n1  == Least(n0 + Runs(c, out)[2], c.rows)
      lanes == Least(c.rank, c.glanes)
      vectors == {v \in {cube[1] * Columns(c) + x : x \in 0..(Columns(c) - 1)} :
                    v < Depth(c, out) \div c.width}
      ranks == {j \in {lane + p * lanes : lane \in 0..(lanes - 1), p \in 0..(CeilDiv(c.rank, lanes) - 1)} :
                  j < c.rank}
      cols == {v * c.width + e : v \in vectors, e \in 0..(c.width - 1)}
  IN  Store(c, m, out, s, [at \in cols \X ranks |->
        Total(n1 - n0, LAMBDA i : Wide(c, m, out)[n0 + i][at[1]] * Scaled(c, out)
                                  * Narrow(m, out)[<<n0 + i, at[2]>>])])

(* The runs, added: a unit an element.                                      *)
SumKernel(c, m, out, cube) ==
  LET mine == {at \in DOMAIN m.partial[out][0] : (at[1] * c.rank + at[2]) \div c.cube = cube}
      sums == [at \in mine |-> Total(Runs(c, out)[1], LAMBDA s : m.partial[out][s][at])]
      Over(old) == [at \in DOMAIN old |-> IF at \in mine THEN sums[at] ELSE old[at]]
  IN  IF out \in {"h", "dh"} THEN [m EXCEPT !.narrow[out] = Over(@)] ELSE [m EXCEPT !.factor[out] = Over(@)]

(* up, a unit of which owns a vector of columns of consecutive rows.        *)
UpUnits(c, out) == CeilDiv(c.rows, c.uprows) * (Depth(c, out) \div c.width)

UpKernel(c, m, out, cube) ==
  LET cols == Depth(c, out) \div c.width
      Rows(unit) == {n \in {(unit \div cols) * c.uprows + i : i \in 0..(c.uprows - 1)} : n < c.rows}
      Mine(unit) == Rows(unit) \X {(unit % cols) * c.width + e : e \in 0..(c.width - 1)}
      written == UNION {Mine(cube * c.cube + i) : i \in 0..(c.cube - 1)}
      Sum(n, k) == Total(c.rank, LAMBDA j : Narrow(m, out)[<<n, j>>] * Factor(m, out, j, k))
      Value(n, k) == (IF out = "y" THEN (IF c.base THEN m.base[n][k] ELSE 0) + Scaled(c, out) * Sum(n, k)
                      ELSE Sum(n, k)) % P
  IN  [m EXCEPT ![out] = [at \in DOMAIN @ |-> IF at \in written THEN Value(at[1], at[2]) ELSE @[at]]]

-----------------------------------------------------------------------------
(* The reference: matrix products, in the same order.                       *)
Product(rows, depth, cols, f(_, _), g(_, _)) ==
  [at \in (0..(rows - 1)) \X (0..(cols - 1)) |-> Total(depth, LAMBDA k : f(at[1], k) * g(k, at[2]))]

ReferenceForward(c, m) ==
  LET h == Product(c.rows, c.inp, c.rank, LAMBDA n, k : m.x[n][k], LAMBDA k, j : m.u[k][j])
      z == Product(c.rows, c.rank, c.out, LAMBDA n, j : h[<<n, j>>], LAMBDA j, o : m.v[j][o])
  IN  [m EXCEPT !.narrow["h"] = h,
                !.y = [at \in DOMAIN z |->
                         ((IF c.base THEN m.base[at[1]][at[2]] ELSE 0) + z[at] * c.scale) % P]]

ReferenceBackward(c, m) ==
  LET dz(n, o) == (m.grad[n][o] * c.scale) % P
      h  == m.narrow["h"]
      dh == Product(c.rows, c.out, c.rank, dz, LAMBDA o, j : m.v[j][o])
      dv == Product(c.out, c.rows, c.rank, LAMBDA o, n : dz(n, o), LAMBDA n, j : h[<<n, j>>])
      du == Product(c.inp, c.rows, c.rank, LAMBDA i, n : m.x[n][i], LAMBDA n, j : dh[<<n, j>>])
      dx == Product(c.rows, c.rank, c.inp, LAMBDA n, j : dh[<<n, j>>], LAMBDA j, i : m.u[i][j])
  IN  [m EXCEPT !.factor["dv"] = IF c.wanted["v"] THEN dv ELSE @,
                !.factor["du"] = IF c.wanted["u"] THEN du ELSE @,
                !.dx           = IF c.wanted["x"] THEN dx ELSE @]

-----------------------------------------------------------------------------
(* The launches of a forward pass and a backward one.                       *)
One(kernel, out) == <<[kernel |-> kernel, out |-> out]>>
InRuns(c, kernel, out) ==
  One(kernel, out) \o IF Runs(c, out)[1] > 1 THEN One("sum", out) ELSE <<>>
If(b, launches) == IF b THEN launches ELSE <<>>

Forward(c) ==
  IF c.device THEN InRuns(c, "down", "h") \o One("up", "y") ELSE One("reference", "y")

Backward(c) ==
  IF c.device
  THEN If(c.wanted["v"], InRuns(c, "gather", "dv"))
       \o If(c.wanted["x"] \/ c.wanted["u"], InRuns(c, "down", "dh"))
       \o If(c.wanted["u"], InRuns(c, "gather", "du"))
       \o If(c.wanted["x"], One("up", "dx"))
  ELSE One("reference", "dx")

Stream(c) == Forward(c) \o Backward(c)

Elements(c, out) == c.rank * IF out \in {"h", "dh"} THEN c.rows ELSE Depth(c, out)
Grid(xs, ys) == [i \in 1..(xs * ys) |-> <<(i - 1) % xs, (i - 1) \div xs>>]
Line(n)      == [i \in 1..n |-> i - 1]

Cubes(c, l) ==
  CASE l.kernel = "down"   -> Grid(DownBlocks(c), Runs(c, l.out)[1])
    [] l.kernel = "gather" -> Grid(GatherBlocks(c, Depth(c, l.out)), Runs(c, l.out)[1])
    [] l.kernel = "sum"    -> Line(CeilDiv(Elements(c, l.out), c.cube))
    [] l.kernel = "up"     -> Line(CeilDiv(UpUnits(c, l.out), c.cube))
    [] l.kernel = "reference" -> <<0>>

Effect(c, m, l, cube) ==
  CASE l.kernel = "down"   -> DownKernel(c, m, l.out, cube)
    [] l.kernel = "gather" -> GatherKernel(c, m, l.out, cube)
    [] l.kernel = "sum"    -> SumKernel(c, m, l.out, cube)
    [] l.kernel = "up"     -> UpKernel(c, m, l.out, cube)
    [] l.kernel = "reference" ->
         IF l.out = "y" THEN ReferenceForward(c, m) ELSE ReferenceBackward(c, m)

(* What is allocated holds arbitrary numbers.                               *)
Allocated(c) ==
  LET Rows(stream, n, k) == Matrix(n, k, LAMBDA i, j : Arbitrary(stream, 20 * i + j))
      Cells(n, k)        == (0..(n - 1)) \X (0..(k - 1))
      Uninit(n, k)       == [at \in Cells(n, k) |-> Arbitrary(8, 20 * at[1] + at[2])]
      Partials(out, n)   == [s \in 0..(Runs(c, out)[1] - 1) |-> Uninit(n, c.rank)]
  IN  [x |-> Rows(1, c.rows, c.inp), u |-> Rows(2, c.inp, c.rank), v |-> Rows(3, c.rank, c.out),
       base |-> Rows(4, c.rows, c.out), grad |-> Rows(5, c.rows, c.out),
       narrow  |-> [out \in {"h", "dh"} |-> Uninit(c.rows, c.rank)],
       factor  |-> [out \in {"dv", "du"} |-> Uninit(Depth(c, out), c.rank)],
       partial |-> [out \in {"h", "dh", "dv", "du"} |->
                      Partials(out, IF out \in {"h", "dh"} THEN c.rows ELSE Depth(c, out))],
       y |-> Uninit(c.rows, c.out), dx |-> Uninit(c.rows, c.inp)]

-----------------------------------------------------------------------------
(* The definition, differentiated by one element.                           *)
Seed(x, at, by) == [v |-> x % P, d |-> IF at = by THEN 1 ELSE 0]

Y(c, m, n, o, by) ==
  Plus(Const(IF c.base THEN m.base[n][o] ELSE 0),
       Times(Const(c.scale),
             DualTotal(c.rank, LAMBDA j :
               Times(DualTotal(c.inp, LAMBDA i : Times(Seed(m.x[n][i], <<"x", n, i>>, by),
                                                       Seed(m.u[i][j], <<"u", i, j>>, by))),
                     Seed(m.v[j][o], <<"v", o, j>>, by)))))

Slope(c, m, by) ==
  LET rows == IF by[1] = "x" THEN {by[2]} ELSE 0..(c.rows - 1)
      cols == IF by[1] = "v" THEN {by[2]} ELSE 0..(c.out - 1)
  IN  FoldSet(LAMBDA at, sum : (sum + m.grad[at[1]][at[2]] * Y(c, m, at[1], at[2], by).d) % P, 0, rows \X cols)

ProductIs(c, m) == \A at \in DOMAIN m.y : m.y[at] = Y(c, m, at[1], at[2], <<"none">>).v

GradientsAre(c, m) ==
  /\ c.wanted["x"] => \A at \in DOMAIN m.dx : m.dx[at] = Slope(c, m, <<"x", at[1], at[2]>>)
  /\ c.wanted["u"] => \A at \in DOMAIN m.factor["du"] :
       m.factor["du"][at] = Slope(c, m, <<"u", at[1], at[2]>>)
  /\ c.wanted["v"] => \A at \in DOMAIN m.factor["dv"] :
       m.factor["dv"][at] = Slope(c, m, <<"v", at[1], at[2]>>)

-----------------------------------------------------------------------------
(* The product on MLX (dash-mlx lowrank.rs).  With a base, x U is MLX's     *)
(* product, a kernel adds its product with V to the base, a thread an       *)
(* element, and the backward pass is written out; without one, operations   *)
(* MLX differentiates.  Its inputs, and what it is to leave, are as above.  *)
COLUMNS == 3   \* threads of a threadgroup along a row, 32 in the code
ROWS    == 2   \* and rows of one, 8 in the code

IsMlxCall(c) == IsCall(c) /\ c.wanted = [w \in {"x", "u", "v"} |-> TRUE]

MlxDown(c, m) ==
  [m EXCEPT !.narrow["h"] =
     Product(c.rows, c.inp, c.rank, LAMBDA n, k : m.x[n][k], LAMBDA k, j : m.u[k][j])]

(* UP: the threads of a threadgroup past a row's end return; the grid has   *)
(* no rows past the last.                                                   *)
MlxUp(c, m, cube) ==
  LET threads == {x \in (cube[2] * ROWS..(cube[2] * ROWS + ROWS - 1))
                         \X (cube[1] * COLUMNS..(cube[1] * COLUMNS + COLUMNS - 1)) :
                    x[1] < c.rows /\ x[2] < c.out}
      Acc(n, o) == Total(c.rank, LAMBDA j : m.narrow["h"][<<n, j>>] * m.v[j][o])
  IN  [m EXCEPT !.y = [at \in DOMAIN @ |->
         IF at \in threads THEN (m.base[at[1]][at[2]] + c.scale * Acc(at[1], at[2])) % P ELSE @[at]]]

(* The backward pass forms h again, from the inputs it is handed.           *)
MlxBackward(c, m) == ReferenceBackward(c, MlxDown(c, m))

MlxForward(c) == IF c.base THEN <<"down", "up">> ELSE <<"term">>
MlxStream(c)  == Append(MlxForward(c), "backward")

MlxCubes(c, launch) ==
  IF launch = "up" THEN Grid(CeilDiv(c.out, COLUMNS), CeilDiv(c.rows, ROWS)) ELSE <<0>>

MlxEffect(c, m, launch, cube) ==
  CASE launch = "down"     -> MlxDown(c, m)
    [] launch = "up"       -> MlxUp(c, m, cube)
    [] launch = "term"     -> ReferenceForward(c, m)
    [] launch = "backward" -> MlxBackward(c, m)
=============================================================================
