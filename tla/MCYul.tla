-------------------------------- MODULE MCYul --------------------------------
EXTENDS YulOptimiser, YulFunctions, YulAssembly

Fx(movable, free, freeIfNoMSize, storage, memory) ==
  [movable |-> movable, free |-> free, freeIfNoMSize |-> freeIfNoMSize,
   storage |-> storage, memory |-> memory]
Builtin(args, rets, fx, tier) == [args |-> args, rets |-> rets, fx |-> fx, tier |-> tier]
Acts == Fx(FALSE, FALSE, FALSE, FALSE, FALSE)

MCBuiltins ==
  [o \in {"not", "iszero"} |-> Builtin(1, 1, NoEffects, "low")]
  @@ [o \in Arithmetic |-> Builtin(2, 1, NoEffects, "low")]
  @@ [o \in {"calldataload"} |-> Builtin(1, 1, NoEffects, "low")]
  @@ [o \in {"pop"} |-> Builtin(1, 0, NoEffects, "base")]
  @@ [o \in {"sload"} |-> Builtin(1, 1, Fx(FALSE, TRUE, TRUE, FALSE, FALSE), "special")]
  @@ [o \in {"sstore"} |-> Builtin(2, 0, Fx(FALSE, FALSE, FALSE, TRUE, FALSE), "special")]
  @@ [o \in {"mload"} |-> Builtin(1, 1, Fx(FALSE, FALSE, TRUE, FALSE, FALSE), "low")]
  @@ [o \in {"mstore"} |-> Builtin(2, 0, Fx(FALSE, FALSE, FALSE, FALSE, TRUE), "low")]
  @@ [o \in {"msize"} |-> Builtin(0, 1, Fx(FALSE, TRUE, TRUE, FALSE, FALSE), "base")]
  @@ [o \in {"log0", "revert"} |-> Builtin(2, 0, Acts, "special")]
  @@ [o \in {"create"} |-> Builtin(3, 1, Fx(FALSE, FALSE, FALSE, TRUE, FALSE), "special")]
  @@ [o \in {"stop"} |-> Builtin(0, 0, Acts, "base")]

a == <<"a">>
b == <<"b">>
i == <<"i">>
f == <<"f">>
g == <<"g">>
p == <<"p">>
q == <<"q">>
r == <<"r">>
c == <<"c">>
h == <<"h">>
j == <<"j">>
k == <<"k">>
m == <<"m">>
z == <<"z">>

In(n)  == Op("calldataload", <<Lit(n)>>)
Add(x, y) == Op("add", <<x, y>>)
SStore(x, v) == Do(Op("sstore", <<x, v>>))
SLoad(x) == Op("sload", <<x>>)
MStore(x, v) == Do(Op("mstore", <<x, v>>))
MLoad(x) == Op("mload", <<x>>)
Called(n, args) == Call(n, args)

(* A loop over i with a body that may break or continue.                   *)
Looping(body) ==
  For(<<Let(<<i>>, <<Lit(0)>>)>>, Op("lt", <<Id(i), Lit(2)>>), <<Set(<<i>>, Add(Id(i), Lit(1)))>>, body)

Looping2(body) ==
  For(<<Let(<<j>>, <<Lit(0)>>)>>, Op("lt", <<Id(j), Lit(2)>>), <<Set(<<j>>, Add(Id(j), Lit(1)))>>, body)

(* The statements programs are put together from, over a and b.            *)
Piece == <<
  Set(<<a>>, Add(Id(a), Lit(1))),
  Set(<<b>>, Id(a)),
  Set(<<b>>, Call(f, <<Id(a), Call(g, <<Id(b)>>)>>)),
  SStore(Id(a), Id(b)),
  Set(<<a>>, SLoad(Id(b))),
  MStore(Id(a), Id(b)),
  Set(<<b>>, MLoad(Id(a))),
  If(Id(a), <<Set(<<b>>, Lit(3)), Do(Op("stop", <<>>))>>),
  If(Id(b), <<Set(<<a>>, Lit(0)), SStore(Id(b), Id(a))>>),
  Switch(Id(a), <<Case(<<0>>, <<Set(<<b>>, Lit(1))>>), Case(<<>>, <<Set(<<a>>, Id(b))>>)>>),
  Looping(<<If(Id(b), <<Set(<<b>>, Lit(0)), Continue>>), Set(<<b>>, Id(i)), SStore(Id(i), Id(a))>>),
  Looping(<<Set(<<a>>, Add(Id(i), Id(b))), If(Op("eq", <<Id(a), Lit(1)>>), <<Break>>), Set(<<b>>, Lit(2))>>),
  Set(<<a>>, Add(Call(g, <<Id(b)>>), SLoad(Lit(0)))),
  Set(<<a, b>>, Call(h, <<Id(b)>>)),
  Set(<<b>>, Call(k, <<Id(a)>>)),
  Do(Op("pop", <<Op("create", <<Id(a), Lit(0), Lit(2)>>)>>)),
  Set(<<b>>, Op("msize", <<>>)),
  Do(Op("log0", <<Lit(0), Lit(2)>>)),
  Looping(<<Switch(Id(b), <<Case(<<0>>, <<Set(<<b>>, Id(i)), Continue>>), Case(<<1>>, <<>>)>>), Set(<<a>>, Id(b)), Break>>),
  Looping(<<Looping2(<<If(Op("eq", <<Id(i), Id(j)>>), <<Continue>>), Set(<<b>>, Add(Id(i), Id(j))), If(Id(a), <<Break>>)>>), Set(<<a>>, SLoad(Id(i)))>>),
  If(Op("iszero", <<Id(a)>>), <<Do(Op("revert", <<Lit(0), Lit(2)>>))>>),
  Block(<<Let(<<c>>, <<Op("mul", <<Id(a), Lit(2)>>)>>), Set(<<a>>, Op("sub", <<Id(c), Id(a)>>)), MStore(Id(c), Id(a)), Set(<<b>>, MLoad(Id(c)))>>),
  Switch(Id(b), <<Case(<<1>>, <<Let(<<c>>, <<SLoad(Id(a))>>), SStore(Id(a), Add(Id(c), Lit(1)))>>), Case(<<2>>, <<Set(<<a>>, Lit(0))>>)>>),
  Set(<<a>>, Call(m, <<Id(a), Lit(1)>>))
>>

(* What single steps have to look at twice: code behind the end of a block *)
(* that is called, an empty case beside a default, arguments that depend   *)
(* on each other, what a continue carries to the post block and behind the *)
(* loop, words that overlap, a store behind a call or in a branch.         *)
Probe == <<
  If(Id(a), <<SStore(Lit(3), Call(z, <<Id(a)>>)), Do(Op("stop", <<>>)),
              Fun(z, <<p>>, <<r>>, <<Set(<<r>>, Add(Id(p), Lit(1)))>>)>>),
  Switch(Id(a), <<Case(<<0>>, <<>>), Case(<<>>, <<Set(<<b>>, Lit(3))>>)>>),
  Set(<<a>>, Add(Call(g, <<Id(b)>>), SLoad(Lit(0)))),
  Looping(<<Set(<<b>>, Lit(5)), If(Id(a), <<Continue>>), Set(<<b>>, Lit(7))>>),
  Block(<<Let(<<c>>, <<Add(Id(a), Lit(Modulus - 1))>>), MStore(Id(a), Id(b)), MStore(Id(c), Id(a)),
          Set(<<b>>, MLoad(Id(a)))>>),
  Block(<<SStore(Id(a), Id(b)), Do(Op("pop", <<Call(f, <<Lit(1), Lit(2)>>)>>)), Set(<<b>>, SLoad(Id(a)))>>),
  Block(<<Set(<<b>>, Lit(3)), If(Id(a), <<SStore(Id(a), Id(b))>>), Set(<<b>>, SLoad(Id(a)))>>),
  For(<<Let(<<i>>, <<Lit(0)>>)>>, Op("lt", <<Id(i), Lit(2)>>), <<Set(<<i>>, Add(Id(i), Id(b)))>>,
      <<Set(<<a>>, Add(Id(a), Id(a))), Set(<<b>>, Lit(1)), If(Id(a), <<Continue>>), Set(<<b>>, Lit(2))>>),
  Set(<<a>>, Call(m, <<Call(g, <<Id(b)>>), SLoad(Lit(0))>>))
>>

Functions1 == <<
  Fun(f, <<p, q>>, <<r>>, <<SStore(Lit(0), Id(p)), Set(<<r>>, Add(Id(q), Lit(1)))>>),
  Fun(g, <<p>>, <<r>>, <<If(Id(p), <<Set(<<r>>, Lit(2)), Leave>>), SStore(Lit(0), Id(p)), Set(<<r>>, Lit(1))>>),
  Fun(h, <<p>>, <<q, r>>, <<Set(<<q>>, Id(p)), Set(<<r>>, Call(m, <<Id(p), Id(q)>>))>>),
  Fun(k, <<p>>, <<r>>, <<If(Op("lt", <<Id(p), Lit(2)>>), <<Set(<<p>>, Call(k, <<Add(Id(p), Lit(1))>>))>>), Set(<<r>>, Call(m, <<Id(p), Id(p)>>))>>),
  Fun(m, <<p, q>>, <<r>>, <<Set(<<r>>, Op("sub", <<Id(q), Id(p)>>))>>)>>

Program(s) ==
  <<Let(<<a>>, <<In(0)>>), Let(<<b>>, <<>>)>> \o s \o
  <<SStore(Lit(1), Id(a)), SStore(Lit(2), Id(b))>> \o Functions1

MCEnvironments ==
  {[calldata |-> [x \in Word |-> v], storage |-> [x \in Word |-> IF x = 0 THEN w ELSE 0]] :
     v \in {0, 1}, w \in {0, 1}}

Steps == {"f", "l", "c", "C", "U", "n", "D", "v", "e", "j", "s", "x", "I", "O", "o", "g", "h", "T", "L",
          "M", "r", "m", "V", "a", "t", "u", "d"}
MCAnyStep == {<<s>> : s \in Steps} \cup {<<"x", "i">>}
AnyOne == <<Once(<<"?", "h">>)>>
AnyTwo == <<Once(<<"?", "?">>)>>

Optimise(ss, sequence, reach, reuse) ==
  [program |-> Program(ss), runYulOptimiser |-> TRUE, yulOptimiserSteps |-> sequence,
   reach |-> reach, optimizeStackAllocation |-> reuse]
Translate(ss, reach, reuse) ==
  [program |-> Program(ss), runYulOptimiser |-> FALSE, yulOptimiserSteps |-> <<>>,
   reach |-> reach, optimizeStackAllocation |-> reuse]

(* A stack that can be reached 16 deep, and small ones.                    *)
Depths == <<16, 4, 3>>

MCTasks ==
  {Optimise(<<Piece[x], Piece[1 + ((7 * x) % 24)]>>, DefaultYulOptimiserSteps, Depths[1 + (x % 3)], x % 2 = 0) :
     x \in 1 .. 24} \cup
  {Optimise(<<s>>, sequence, 16, TRUE) : s \in Range(Probe), sequence \in {AnyOne, DefaultYulOptimiserSteps}} \cup
  {Optimise(<<Piece[t[1]], Piece[t[2]]>>, AnyTwo, 16, TRUE) : t \in {<<11, 3>>, <<12, 10>>, <<22, 9>>}} \cup
  {Translate(<<s>>, reach, reuse) : s \in Range(Piece \o Probe), reach \in {3, 5, 16}, reuse \in BOOLEAN}

(* The step "x" alone, on a function that is nowhere hoisted.              *)
HoisterTasks == {Optimise(<<Probe[1]>>, <<Once(<<"x">>)>>, 16, TRUE)}
==============================================================================
