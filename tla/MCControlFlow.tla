---------------------------- MODULE MCControlFlow ----------------------------
(* The control flow analysis on small functions: up to three statements    *)
(* behind one another, inside a modifier or not.                           *)
EXTENDS ControlFlowAnalyzer, Integers

CONSTANT
  Returned   \* the return parameters

Built == INSTANCE ControlFlowBuilder
Done  == INSTANCE SolidityRuns

N(kind, v, sub) == Built!Node(kind, v, sub)
Block(sub) == N("block", "", sub)
Use(v)    == N("id", v, <<>>)
Flag      == N("literal", "", <<>>)
Set(v)    == N("assign", "", <<N("write", v, <<>>), Flag>>)
New(v)    == N("declare", v, <<>>)
If(sub)   == N("if", "", <<Flag>> \o sub)
Go(kind)  == N(kind, "", <<>>)
Short(x)  == N("short", "", <<Flag, x>>)
For(post, body) == N("for", "", <<Flag, Flag, post, Block(body)>>)
Asm(sub)  == N("assembly", "", sub)

Statements == <<
  Use("s"), Set("s"), Set("r"),
  N("declare", "t", <<Use("s")>>),
  Block(<<New("t"), If(<<Set("t")>>), Use("t")>>),
  If(<<Set("s")>>),
  If(<<Block(<<Use("s"), Go("throw")>>), Set("s")>>),
  Short(N("assign", "", <<N("write", "s", <<>>), Flag>>)),
  N("conditional", "", <<Short(Use("s")), Set("r"), Use("r")>>),
  N("require", "", <<Use("s")>>),
  If(<<N("revert", "", <<>>)>>),
  N("return", "", <<>>),
  If(<<N("return", "", <<Use("s")>>)>>),
  N("while", "", <<Flag, Block(<<Use("s"), Set("s"), If(<<Go("break")>>), Set("r")>>)>>),
  N("while", "", <<Short(Use("s")), Block(<<If(<<Go("continue")>>), Set("s"), Go("break"), Use("r")>>)>>),
  N("dowhile", "", <<Block(<<If(<<Block(<<Set("s"), Go("continue")>>)>>), If(<<Go("break")>>), Set("r")>>), Use("s")>>),
  N("dowhile", "", <<Block(<<Set("s"), Go("break")>>), Use("r")>>),
  For(Set("s"), <<Use("s"), If(<<Go("continue")>>), Go("break")>>),
  For(Use("r"), <<New("t"), If(<<Block(<<Set("r"), Go("break")>>)>>), Use("t")>>),
  N("try", "", <<Use("s"), Block(<<Set("r")>>), Block(<<Set("s"), N("return", "", <<Flag>>)>>)>>),
  Asm(<<N("yulassign", "s", <<Use("s")>>)>>),
  Asm(<<N("switch", "", <<Flag, Block(<<N("yulassign", "s", <<Flag>>)>>), Block(<<N("terminate", "revert", <<>>)>>)>>)>>),
  Asm(<<N("switch", "default", <<Flag, Block(<<N("yulassign", "r", <<Flag>>)>>), Block(<<N("terminate", "stop", <<>>)>>)>>)>>),
  N("revert", "", <<Use("r")>>) >>

Around == N("placeholder", "", <<>>)
Passing == {
  Block(<<N("require", "", <<Flag>>), Around>>),
  Block(<<New("m"), If(<<Set("m")>>), If(<<Around>>), Use("m")>>),
  Block(<<New("m"), Around, If(<<N("return", "", <<>>)>>), Use("m"), N("revert", "", <<>>)>>),
  Block(<<N("while", "", <<Flag, Block(<<Around, New("m"), Use("m"), If(<<Go("break")>>)>>)>>)>>) }
Modifiers == Passing \cup {
  Block(<<If(<<N("return", "", <<>>)>>), N("revert", "", <<>>), Around>>) }

-----------------------------------------------------------------------------
(* The locations: the definitions of the modifiers, the function's header, *)
(* its body.                                                               *)
Placed(modifiers, statements) ==
  LET defs == [i \in DOMAIN modifiers |->
                 Built!Located(modifiers[i].body, 1 + 100 * i)]
      args == [i \in DOMAIN modifiers |-> Built!Located(modifiers[i].args, 501 + 10 * i)]
  IN  [params |-> <<"p">>, rets |-> Returned,
       modifiers |-> [i \in DOMAIN modifiers |-> [args |-> args[i], body |-> defs[i]]],
       body |-> Built!Located(Block(statements), 1001)]

Body(ps) == <<New("s")>> \o [i \in DOMAIN ps |-> Statements[ps[i]]]
Invoked(m) == [args |-> N("arguments", "", <<Short(Use("p"))>>), body |-> m]

Numbers == DOMAIN Statements
Inside  == {1, 3, 7, 13, 15, 19, 22}

MCFunctions ==
  {Placed(<<>>, Body(<<i, j>>)) : i, j \in Numbers}
  \cup {Placed(<<>>, Body(<<i, j, k>>)) : i, j, k \in Inside}
  \cup {Placed(<<Invoked(m)>>, Body(<<i>>)) : m \in Modifiers, i \in Numbers}
  \cup {Placed(<<Invoked(m), Invoked(o)>>, Body(<<i>>)) : m, o \in Passing, i \in Inside}

(* A storage pointer and a number nobody assigns, or nothing.              *)
Pointer == <<"r", "n">>
Nothing == <<>>

MCOrders == {"up", "down", "mixed"}
MCAddress(o, n) == CASE o = "up" -> n [] o = "down" -> 0 - n [] o = "mixed" -> (17 * n) % 101

MCFlowOf(f) == Built!createFunctionFlow(f)
MCRuns(f)   == Done!RunsOf(f)
=============================================================================
