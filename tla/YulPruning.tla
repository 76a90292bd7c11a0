----------------------------- MODULE YulPruning -----------------------------
(***************************************************************************)
(* The optimiser steps that remove what nobody uses: assignments,          *)
(* variables, expressions and functions; and the one that renames what is  *)
(* left.                                                                   *)
(***************************************************************************)
EXTENDS YulVariables

-----------------------------------------------------------------------------
(* RedundantAssignEliminator.  An assignment is known by its place, the    *)
(* indices that lead to it from the root.  The tracked assignments map     *)
(* [n, at, movable] to one of the three states.                            *)

Unused    == 0
Undecided == 1
Used      == 2
NoneTracked == [a \in {} |-> Undecided]

(* merge: State::join is the maximum.                                      *)
Merge(t, u) ==
  [a \in DOMAIN t \cup DOMAIN u |->
     CASE a \notin DOMAIN u -> t[a]
       [] a \notin DOMAIN t -> u[a]
       [] OTHER -> IF u[a] > t[a] THEN u[a] ELSE t[a]]
MergeAll(t, us) == FoldLeft(Merge, t, us)

Change(t, names, state) ==
  [a \in DOMAIN t |-> IF a.n \in names /\ t[a] = Undecided THEN state ELSE t[a]]

(* finalize, for all the names that go out of scope at once.               *)
Finalize(c, names, state) ==
  LET all  == MergeAll(MergeAll(c.t, c.breaks), c.continues)
      end  == Change(all, names, state)
      keep(t) == Without(t, {a \in DOMAIN t : a.n \in names})
  IN  [c EXCEPT !.t = keep(@),
                !.breaks = Each(keep, @),
                !.continues = Each(keep, @),
                !.removals = @ \cup {a.at : a \in {x \in DOMAIN end :
                                       x.n \in names /\ end[x] = Unused /\ x.movable}}]

(* The end of the body of a loop, where its continues join.                *)
JoinContinues(c) == [c EXCEPT !.t = MergeAll(@, c.continues), !.continues = <<>>]

RECURSIVE TrackBlock(_, _, _), TrackStatement(_, _, _)

(* A loop is followed twice, unless it is nested too deep: then what it    *)
(* assigns counts as used.                                                 *)
TrackLoop(s, at, c0) ==
  LET cond(c) == [c EXCEPT !.t = Change(@, Variables(s.e), Used)]
      once(c) == cond(TrackBlock(s.post, at \o <<3>>, JoinContinues(TrackBlock(s.body, at \o <<2>>, c))))
      zero    == cond([c0 EXCEPT !.breaks = <<>>, !.continues = <<>>, !.depth = @ + 1])
      one     == once(zero)
      two     == once(one)
      end     == IF zero.depth < NestingLimit THEN [two EXCEPT !.t = Merge(@, one.t)]
                 ELSE [one EXCEPT !.t = [a \in DOMAIN @ |-> IF a \in DOMAIN zero.t THEN @[a] ELSE Used]]
  IN  [end EXCEPT !.t = MergeAll(Merge(@, zero.t), end.breaks), !.depth = c0.depth,
                  !.breaks = c0.breaks, !.continues = c0.continues]

TrackSwitch(s, at, c) ==
  LET case[i \in 0 .. Len(s.cases)] ==
        IF i = 0 THEN [c |-> c, ends |-> <<>>]
        ELSE LET p == case[i - 1]
                 r == TrackBlock(s.cases[i].body, at \o <<i>>, [p.c EXCEPT !.t = c.t])
             IN  [c |-> r, ends |-> Append(p.ends, r.t)]
      all     == case[Len(s.cases)]
      default == \E i \in DOMAIN s.cases : s.cases[i].v = <<>>
  IN  [all.c EXCEPT !.t = IF default THEN MergeAll(Last(all.ends), Front(all.ends))
                          ELSE MergeAll(c.t, all.ends)]

TrackFunction(s, at, c) ==
  LET in  == [c EXCEPT !.declared = {}, !.returns = Names(s.rets), !.t = NoneTracked,
                       !.breaks = <<>>, !.continues = <<>>]
      out == Finalize(Finalize(TrackBlock(s.body, at \o <<1>>, in), Names(s.params), Unused),
                      Names(s.rets), Used)
  IN  [c EXCEPT !.removals = out.removals]

TrackStatement(s, at, c) ==
  LET seen == [c EXCEPT !.t = Change(@, UNION {Variables(e) : e \in Range(Expressions(s))}, Used)]
  IN  CASE s.k = "do" -> seen
        [] s.k = "let" -> [seen EXCEPT !.declared = @ \cup Names(s.vars)]
        [] s.k = "set" ->
             LET t == Change(seen.t, Names(s.vars), Unused)
                 a == [n |-> s.vars[1], at |-> at, movable |-> Movable(s.val[1])]
             IN  [seen EXCEPT !.t = IF Len(s.vars) = 1 /\ a \notin DOMAIN t
                                    THEN Put(t, a, Undecided) ELSE t]
        [] s.k = "if" -> LET r == TrackBlock(s.body, at \o <<1>>, seen)
                         IN  [r EXCEPT !.t = Merge(@, seen.t)]
        [] s.k = "switch" -> TrackSwitch(s, at, seen)
        [] s.k = "for"   -> TrackLoop(s, at, c)
        [] s.k = "fun"   -> TrackFunction(s, at, c)
        [] s.k = "block" -> TrackBlock(s.body, at \o <<1>>, c)
        [] s.k = "break" -> [c EXCEPT !.breaks = Append(@, c.t), !.t = NoneTracked]
        [] s.k = "continue" -> [c EXCEPT !.continues = Append(@, c.t), !.t = NoneTracked]
        [] s.k = "leave" -> [c EXCEPT !.t = Change(@, c.returns, Used)]

TrackBlock(b, at, c) ==
  LET track[i \in 0 .. Len(b)] ==
        IF i = 0 THEN [c EXCEPT !.declared = {}]
        ELSE LET p == track[i - 1] IN TrackStatement(b[i], at \o <<i>>, p)
      end == track[Len(b)]
  IN  [Finalize(end, end.declared, Unused) EXCEPT !.declared = c.declared]

RECURSIVE AssignmentRemover(_, _, _)
AssignmentRemover(b, at, removals) ==
  LET block(i, j) == AssignmentRemover(Blocks(b[i])[j], at \o <<i, j>>, removals)
      rebuilt(i) == CASE b[i].k \in {"if", "block", "fun"} -> [b[i] EXCEPT !.body = block(i, 1)]
                      [] b[i].k = "switch" ->
                           [b[i] EXCEPT !.cases = [j \in DOMAIN @ |-> Case(@[j].v, block(i, j))]]
                      [] b[i].k = "for" -> [b[i] EXCEPT !.body = block(i, 2), !.post = block(i, 3)]
                      [] OTHER -> b[i]
  IN  FlattenSeq([i \in DOMAIN b |-> IF at \o <<i>> \in removals THEN <<>> ELSE <<rebuilt(i)>>])

RedundantAssignEliminator(b) ==
  AssignmentRemover(b, <<>>, TrackBlock(b, <<>>,
    [t |-> NoneTracked, declared |-> {}, returns |-> {}, breaks |-> <<>>, continues |-> <<>>,
     depth |-> 0, removals |-> {}]).removals)

-----------------------------------------------------------------------------
(* UnusedPruner *)

UsedIn(refs, n) == n \in DOMAIN refs /\ refs[n] > 0

(* subtractReferences; code that mentions nothing does not ask for another *)
(* round.                                                                  *)
Subtract(c, gone) ==
  [refs  |-> [n \in DOMAIN c.refs |-> c.refs[n] - (IF n \in DOMAIN gone THEN gone[n] ELSE 0)],
   again |-> c.again \/ DOMAIN gone # {}]

SideEffectFree(e, fx, noMSize) ==
  LET x == ExpressionEffects(e, fx) IN x.free \/ (noMSize /\ x.freeIfNoMSize)

(* Whether the value of a variable nobody uses can go as well.             *)
Prunable(e, fx, noMSize) == SideEffectFree(e, fx, noMSize)

PruneStatement(s, c, fx, noMSize) ==
  CASE s.k = "fun" /\ ~ UsedIn(c.refs, s.n) -> [x |-> <<>>, c |-> Subtract(c, ReferenceCounts(s.body))]
    [] s.k = "let" /\ \A n \in Names(s.vars) : ~ UsedIn(c.refs, n) ->
         CASE s.val = <<>> -> [x |-> <<>>, c |-> c]
           [] s.val # <<>> /\ Prunable(s.val[1], fx, noMSize) ->
                [x |-> <<>>, c |-> Subtract(c, ReferenceCounts(<<s>>))]
           [] OTHER -> [x |-> IF Len(s.vars) = 1 THEN <<Do(Op("pop", s.val))>> ELSE <<s>>, c |-> c]
    [] s.k = "do" /\ SideEffectFree(s.e, fx, noMSize) ->
         [x |-> <<>>, c |-> Subtract(c, ReferenceCounts(<<s>>))]
    [] OTHER -> [x |-> <<s>>, c |-> c]

RECURSIVE PruneBlock(_, _, _, _)
PruneBlock(b, c, fx, noMSize) ==
  LET here == Thread(LAMBDA s, d : PruneStatement(s, d, fx, noMSize), b, c)
      Inner(x, d) == PruneBlock(x, d, fx, noMSize)
  IN  Thread(LAMBDA s, d : One(Visit(s, d, Inner, Keep)), RemoveEmptyBlocks(here.x), here.c)

RECURSIVE PruneUntilStabilised(_, _, _)
PruneUntilStabilised(b, fx, noMSize) ==
  LET r == PruneBlock(b, [refs |-> ReferenceCounts(b), again |-> FALSE], fx, noMSize)
  IN  IF r.c.again THEN PruneUntilStabilised(r.x, fx, noMSize) ELSE r.x

(* runUntilStabilisedOnFullAST.                                            *)
UnusedPruner(b) == PruneUntilStabilised(b, FunctionEffects(b), ~ ContainsMSize(b))

(* CircularReferencesPruner: only what the code outside of functions calls *)
(* is kept.                                                                *)
CircularReferencesPruner(b) ==
  LET called == CalledFrom(CallGraph(b), Main)
  IN  RemoveEmptyBlocks(SelectSeq(b, LAMBDA s : s.k = "fun" => s.n \in called))

-----------------------------------------------------------------------------
(* VarNameCleaner: numbers go where they are not needed.  c holds the      *)
(* names in use and the new names given so far.                            *)

FindCleanName(c, name) ==
  LET used(n) == n = Main \/ IsBuiltin(n) \/ n \in c.used
      plain   == <<name[1]>>
      number  == CHOOSE i \in 1 .. Cardinality(c.used) + 1 :
                   /\ ~ used(Append(plain, i))
                   /\ \A j \in 1 .. i - 1 : used(Append(plain, j))
  IN  IF used(plain) THEN Append(plain, number) ELSE plain

RenameVariables(vars, c0) ==
  Thread(LAMBDA n, c : LET new == FindCleanName(c, n)
                       IN  [x |-> <<new>>, c |-> [c EXCEPT !.used = @ \cup {new},
                                                   !.to = IF new = n THEN @ ELSE Put(@, n, new)]],
         vars, c0)

RECURSIVE CleanBlock(_, _, _)
CleanBlock(b, c0, keep) ==
  LET Inner(x, c) == CleanBlock(x, c, keep)
      E(e, c) == Keep(Rename(e, c.to), c)
      Clean(s, c) ==
        CASE s.k = "fun" ->
               LET ps == RenameVariables(s.params, [used |-> keep, to |-> [n \in {} |-> Main]])
                   rs == RenameVariables(s.rets, ps.c)
               IN  Keep(Fun(s.n, ps.x, rs.x, Inner(s.body, rs.c).x), c)
          [] s.k = "let" ->
               LET vs == RenameVariables(s.vars, c) IN Visit([s EXCEPT !.vars = vs.x], vs.c, Inner, E)
          [] s.k = "set" -> Visit([s EXCEPT !.vars = Translated(@, c.to)], c, Inner, E)
          [] OTHER -> Visit(s, c, Inner, E)
  IN  Thread(LAMBDA s, c : One(Clean(s, c)), b, c0)

VarNameCleaner(b) ==
  LET keep == {s.n : s \in Kind(b, "fun")}
  IN  CleanBlock(b, [used |-> keep, to |-> [n \in {} |-> Main]], keep).x
=============================================================================
