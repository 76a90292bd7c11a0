----------------------------- MODULE MCAssembler -----------------------------
EXTENDS Assembler

Assembly(items, subs, paths, data, aux) ==
  [items |-> items, subs |-> subs, paths |-> paths, data |-> data, aux |-> aux]

Do(o)      == Named("Operation", o)
Tag(t)     == Item("Tag", t)
Value(v)   == Item("Push", v)
Size       == Item("PushProgramSize", 0)
Data(d)    == Item("PushData", d)
Sub(s)     == Item("PushSub", s)
SubSize(s) == Item("PushSubSize", s)
Library(l) == Named("PushLibraryAddress", l)
Read(i)    == Named("PushImmutable", i)
Assign(i)  == Named("AssignImmutable", i)
Text       == Named("PushString", "text")
OwnAddress == Item("PushDeployTimeAddress", 0)

(* Items that fill n bytes.                                                *)
Filled(n) == [k \in 1 .. n |-> Do("ADD")]

(* Runtime code of several sizes, with a tag, a library, data, immutables. *)
Runtime == {
  Assembly(Filled(n) \o <<Tag(1), PushTagOf(0, 1), PushTagOf(0, 0)>> \o body, <<>>, <<>>, data, aux) :
    n \in {0, 1, 9}, data \in {<<>>, <<2>>}, aux \in {0, 2},
    body \in {<<>>, <<Library("l"), OwnAddress>>, <<Read("x"), Read("y"), Read("x")>>}}

(* What deploys it: up to two pieces behind the pushes of size and place,  *)
(* with a tag at the end.                                                  *)
Pieces == {<<>>, <<Data(1)>>, <<Data(1), Data(2), Data(1)>>, <<Sub(1)>>, <<PushTagOf(1, 1)>>, <<Library("m")>>,
           <<Assign("x")>>, <<Assign("y"), Assign("x")>>, <<Size, Text, Value(0), Value(5)>>, <<PushTagOf(0, 0), Read("x")>>}

Creation(n, p, q, data) ==
  Assembly(<<PushTagOf(0, 1)>> \o Filled(n) \o <<SubSize(1), Sub(1)>> \o p \o q \o <<Tag(1), Do("RETURN")>>,
           <<1>>, <<>>, data, 1)

Pairs == {<<r, Creation(n, p, q, <<1, 3>>)>> : r \in Runtime, n \in {0, 4}, p \in Pieces, q \in Pieces}

(* Three levels: the inner one is also used from the outermost.            *)
Nested ==
  {<<r, Assembly(<<Sub(1), Tag(1)>> \o Filled(n), <<1>>, <<>>, <<>>, 0),
     Assembly(<<Sub(1), Sub(2), SubSize(2), PushTagOf(1, 1), Library("l"), Size>>, <<2>>, <<<<1, 1>>>>, <<>>, 0)>> :
     r \in {r \in Runtime : r.aux = 0}, n \in {0, 9}} \cup
  {<<r, r, Assembly(<<Sub(2), Sub(1), Assign("x"), Assign("y")>>, <<1, 2>>, <<>>, <<>>, 0)>> : r \in Runtime}

(* Code that just fits, but for wider references to what is large.         *)
Tight ==
  {<<r, Assembly(<<PushTagOf(0, 1)>> \o p \o Filled(n) \o <<Tag(1)>>, <<1>>, <<>>, <<>>, 0)>> :
     r \in {Assembly(Filled(m) \o <<Tag(1)>> \o Filled(l), <<>>, <<>>, <<>>, 0) : m \in {0, 3, 12, 20}, l \in {0, 50}},
     p \in {<<Sub(1)>>, <<Sub(1), Sub(1), Sub(1)>>, <<PushTagOf(1, 1)>>, <<PushTagOf(1, 1), Size>>},
     n \in 0 .. 12}

MCTrees == Pairs \cup Nested \cup Tight
==============================================================================
