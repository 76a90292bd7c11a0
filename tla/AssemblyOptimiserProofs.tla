----------------------- MODULE AssemblyOptimiserProofs -----------------------
(***************************************************************************)
(* The driver of the bytecode optimiser never leaves a reference without   *)
(* its label, whatever the program and however often the passes run, and   *)
(* replaces a tag twice only if it is kept for the parent.                 *)
(***************************************************************************)
EXTENDS AssemblyOptimiser, PeepholeProofs, FiniteSetTheorems

(* What the code consists of: generated items, and what the passes put in  *)
(* their place.                                                            *)
Items ==
  (UNION {{code[i] : i \in DOMAIN code} : code \in Programs})
    \cup ({Operation(o) : o \in DOMAIN instructionInfo} \cup {PushTag(0, t) : t \in Tags})

Values(replacements) == {replacements[t] : t \in DOMAIN replacements}

CodeResolved(code) == code \in Seq(Items) /\ referencedTags(code) \subseteq Labels(code)

(* While the deduplicator runs, what it replaces and what it replaces it   *)
(* by are labels.                                                          *)
ReplacementsResolved(code, replacements) ==
  Values(replacements) \subseteq Labels(code) /\ DOMAIN replacements \subseteq Labels(code)

OptimiserInv ==
  /\ CodeResolved(items)
  /\ outside \subseteq Tags
  /\ DOMAIN tagReplacements \subseteq Tags
  /\ DOMAIN entries = {} => outside = {}
  /\ pc \in {"jumpdest", "peephole", "deduplicate", "merge", "repeat", "done", "exception"}
  /\ pc \in {"deduplicate", "merge"} => ReplacementsResolved(items, replacedTags)

(* With JumpdestRemover, a tag that was replaced is neither pushed nor,    *)
(* once the remover has run, a label, unless it is kept for the parent.    *)
FreshInv ==
  /\ pc # "exception" => DOMAIN tagReplacements \cap referencedTags(items) \subseteq outside
  /\ pc \in {"peephole", "deduplicate", "merge"} =>
       DOMAIN tagReplacements \cap Labels(items) \subseteq outside
  /\ pc = "merge" => referencedTags(items) \cap DOMAIN replacedTags = {}
  /\ pc = "exception" => DOMAIN entries # {}

(* Every item the passes put into the code is one of the items of the      *)
(* model: an operation in it is in the instruction table.                  *)
LEMMA ItemsAreItems == ItemSet(Items)
<1>1. ASSUME NEW x \in Items, x.type = "Operation"
      PROVE  x.op \in DOMAIN instructionInfo
  <2>1. CASE \E code \in Programs : \E i \in DOMAIN code : x = code[i]
    BY <1>1, <2>1, ProgramsAssumption DEF IsProgram
  <2>2. CASE \E o \in DOMAIN instructionInfo : x = Operation(o)
    BY <2>2 DEF Operation
  <2>3. CASE \E t \in Tags : x = PushTag(0, t)
    BY <1>1, <2>3 DEF PushTag
  <2> QED  BY <2>1, <2>2, <2>3 DEF Items
<1>2. \A o \in DOMAIN instructionInfo : Operation(o) \in Items
  BY DEF Items
<1> QED  BY <1>1, <1>2 DEF ItemSet

(* The labels of the code are tags.                                        *)
LEMMA LabelsAreTags ==
  ASSUME NEW code \in Seq(Items)
  PROVE  Labels(code) \subseteq Tags
<1>1. ASSUME NEW x \in Items, x.type = "Tag"
      PROVE  x.data \in Tags
  <2>1. CASE \E c \in Programs : \E i \in DOMAIN c : x = c[i]
    BY <1>1, <2>1, ProgramsAssumption DEF IsProgram, Labels
  <2>2. CASE \E o \in DOMAIN instructionInfo : x = Operation(o)
    BY <1>1, <2>2 DEF Operation
  <2>3. CASE \E t \in Tags : x = PushTag(0, t)
    BY <1>1, <2>3 DEF PushTag
  <2> QED  BY <2>1, <2>2, <2>3 DEF Items
<1>2. \A i \in DOMAIN code : code[i] \in Items
  OBVIOUS
<1> QED  BY <1>1, <1>2 DEF Labels

-----------------------------------------------------------------------------
(* JumpdestRemover: what remains of the first i items.                     *)
KeptAt(code, references, f, i) ==
  IF i = 0 THEN <<>>
  ELSE IF code[i].type = "Tag" /\ code[i].data \notin references THEN f[i - 1]
  ELSE Append(f[i - 1], code[i])

AreKept(code, references, f) ==
  f = [i \in 0 .. Len(code) |-> KeptAt(code, references, f, i)]

(* The loop of the jumpdest remover has a history.                         *)
LEMMA KeptExist ==
  ASSUME NEW S, NEW code \in Seq(S), NEW references
  PROVE  \E f : AreKept(code, references, f)
<1> DEFINE L == Len(code)
           Drops(i) == code[i].type = "Tag" /\ code[i].data \notin references
           V == Seq(S)
           start == <<>>
           step == [i \in 1 .. L |-> [s \in V |-> IF Drops(i) THEN s ELSE Append(s, code[i])]]
<1>1. L \in Nat /\ start \in V /\ step \in [1 .. L -> [V -> V]]
  OBVIOUS
<1>2. \A i \in 1 .. L : \A s \in V :
        step[i][s] = IF Drops(i) THEN s ELSE Append(s, code[i])
  OBVIOUS
<1> HIDE DEF step, L, V, start
<1>3. PICK f \in [0 .. L -> V] :
        \A i \in 0 .. L : f[i] = IF i = 0 THEN start ELSE step[i][f[i - 1]]
  <2>1. \E f : IsHistory(f, V, L, start, step)
    BY <1>1, Iteration
  <2> QED  BY <2>1 DEF IsHistory
<1>4. \A i \in 0 .. L : f[i] = KeptAt(code, references, f, i)
  <2>1. f[0] = KeptAt(code, references, f, 0)
    BY <1>1, <1>3 DEF KeptAt, start
  <2>2. ASSUME NEW i \in 1 .. L
        PROVE  f[i] = KeptAt(code, references, f, i)
    <3>1. f[i - 1] \in V /\ i # 0 /\ i \in 0 .. L
      BY <1>1
    <3>2. f[i] = step[i][f[i - 1]]
      BY <1>3, <3>1
    <3>3. f[i] = IF Drops(i) THEN f[i - 1] ELSE Append(f[i - 1], code[i])
      BY <1>2, <3>1, <3>2
    <3> QED  BY <3>1, <3>3 DEF KeptAt
  <2> QED  BY <1>1, <2>1, <2>2
<1>5. f = [i \in 0 .. L |-> KeptAt(code, references, f, i)]
  BY <1>4
<1> QED  BY <1>5 DEF AreKept, L

(* Only labels that nothing refers to are removed, and nothing is added.   *)
LEMMA RemoveJumpdestsSound ==
  ASSUME NEW S, NEW code \in Seq(S), NEW fromOutside
  PROVE  /\ RemoveJumpdests(code, fromOutside) \in Seq(S)
         /\ \A k \in DOMAIN code :
              code[k].type = "Tag" /\ code[k].data \in referencedTags(code)
                => \E n \in DOMAIN RemoveJumpdests(code, fromOutside) :
                     RemoveJumpdests(code, fromOutside)[n] = code[k]
         /\ \A n \in DOMAIN RemoveJumpdests(code, fromOutside) :
              \E k \in DOMAIN code : RemoveJumpdests(code, fromOutside)[n] = code[k]
         /\ Labels(RemoveJumpdests(code, fromOutside)) \subseteq referencedTags(code) \cup fromOutside
<1> DEFINE L == Len(code)
           Stays(k) == code[k].type = "Tag" => code[k].data \in referencedTags(code) \cup fromOutside
           references == referencedTags(code) \cup fromOutside
           f == CHOOSE g : AreKept(code, references, g)
           Sound(m) == /\ f[m] \in Seq(S)
                       /\ \A k \in 1 .. m : code[k].type = "Tag" /\ code[k].data \in references
                                              => \E n \in DOMAIN f[m] : f[m][n] = code[k]
                       /\ \A n \in DOMAIN f[m] : \E k \in 1 .. m : f[m][n] = code[k] /\ Stays(k)
           T == {m \in 0 .. L : Sound(m)}
<1>0. L \in Nat /\ DOMAIN code = 1 .. L /\ \A i \in 1 .. L : code[i] \in S
  OBVIOUS
<1>9. /\ referencedTags(code) \subseteq references
      /\ \A k : Stays(k) <=> ~ (code[k].type = "Tag" /\ code[k].data \notin references)
  OBVIOUS
<1>1. AreKept(code, references, f)
  BY KeptExist
<1>2. RemoveJumpdests(code, fromOutside) = f[L]
  BY DEF RemoveJumpdests, AreKept, KeptAt
<1> HIDE DEF f, references, Stays
<1>3. \A i \in 0 .. L : f[i] = KeptAt(code, references, f, i)
  BY <1>1 DEF AreKept
<1> HIDE DEF L
<1>4. 0 \in T
  <2>1. f[0] = <<>>
    BY <1>0, <1>3 DEF KeptAt
  <2>2. f[0] \in Seq(S) /\ DOMAIN f[0] = {}
    BY <2>1
  <2>3. Sound(0)
    BY <2>2
  <2> QED  BY <1>0, <2>3
<1>5. ASSUME NEW m \in 0 .. L - 1, m \in T
      PROVE  m + 1 \in T
  <2> DEFINE i == m + 1
             old == f[m]
             new == f[i]
  <2>1. i \in 1 .. L /\ i - 1 = m /\ Sound(m) /\ code[i] \in S
    BY <1>0, <1>5
  <2>2. new = KeptAt(code, references, f, i)
    BY <1>0, <1>3, <2>1
  <2>3. CASE code[i].type = "Tag" /\ code[i].data \notin references
    <3>1. new = old
      BY <2>1, <2>2, <2>3 DEF KeptAt
    <3> QED  BY <1>0, <2>1, <2>3, <3>1
  <2>4. CASE ~ (code[i].type = "Tag" /\ code[i].data \notin references)
    <3>1. new = Append(old, code[i]) /\ old \in Seq(S)
      BY <2>1, <2>2, <2>4 DEF KeptAt
    <3> HIDE DEF old, new
    <3>2. /\ new \in Seq(S) /\ DOMAIN new = 1 .. Len(old) + 1 /\ DOMAIN old = 1 .. Len(old)
          /\ Len(old) \in Nat
          /\ \A n \in 1 .. Len(old) : new[n] = old[n]
          /\ new[Len(old) + 1] = code[i]
      BY <2>1, <3>1
    <3>3. ASSUME NEW k \in 1 .. i, code[k].type = "Tag", code[k].data \in references
          PROVE  \E n \in DOMAIN new : new[n] = code[k]
      <4>1. CASE k = i
        BY <3>2, <4>1
      <4>2. CASE k \in 1 .. m
        <5>1. PICK n \in DOMAIN old : old[n] = code[k]
          BY <2>1, <3>3, <4>2 DEF old
        <5> QED  BY <3>2, <5>1
      <4> QED  BY <4>1, <4>2
    <3>4. ASSUME NEW n \in DOMAIN new
          PROVE  \E k \in 1 .. i : new[n] = code[k] /\ Stays(k)
      <4>1. CASE n = Len(old) + 1
        BY <1>9, <2>1, <2>4, <3>2, <4>1
      <4>2. CASE n \in 1 .. Len(old)
        <5>1. PICK k \in 1 .. m : old[n] = code[k] /\ Stays(k)
          BY <2>1, <3>2, <4>2 DEF old
        <5> QED  BY <3>2, <4>2, <5>1
      <4>3. n \in 1 .. Len(old) + 1 /\ Len(old) \in Nat
        BY <3>2
      <4> QED  BY <4>1, <4>2, <4>3
    <3>5. Sound(i)
      BY <3>2, <3>3, <3>4 DEF new
    <3> QED  BY <1>0, <2>1, <3>5
  <2> QED  BY <2>3, <2>4
<1>6. L \in T
  <2>1. \A m \in 0 .. L - 1 : m \in T => m + 1 \in T
    BY <1>5
  <2> HIDE DEF T
  <2>2. 0 .. L \subseteq T
    BY <1>0, <1>4, <2>1, NumbersUpTo
  <2> QED  BY <1>0, <2>2
<1>7. Sound(L)
  BY <1>6
<1>8. Labels(f[L]) \subseteq referencedTags(code) \cup fromOutside
  BY <1>7 DEF Labels, Stays
<1> QED  BY <1>0, <1>9, <1>2, <1>7, <1>8

-----------------------------------------------------------------------------
(* BlockDeduplicator: a chain of replacements after i steps.               *)
FollowAt(replacements, t, f, i) ==
  IF i = 0 THEN t
  ELSE IF f[i - 1] \in DOMAIN replacements THEN replacements[f[i - 1]]
  ELSE f[i - 1]

Follows(replacements, t, f) ==
  f = [i \in 0 .. Cardinality(DOMAIN replacements) |-> FollowAt(replacements, t, f, i)]

(* What a tag is replaced by is a replacement, or the tag itself, which it *)
(* is if it has no replacement.                                            *)
LEMMA ResolveSound ==
  ASSUME NEW replacements, IsFiniteSet(DOMAIN replacements), NEW t
  PROVE  /\ Resolve(replacements, t) \in {t} \cup Values(replacements)
         /\ t \notin DOMAIN replacements => Resolve(replacements, t) = t
<1> DEFINE L == Cardinality(DOMAIN replacements)
           V == {t} \cup Values(replacements)
           Stays(v) == t \notin DOMAIN replacements => v = t
           step == [i \in 1 .. L |-> [v \in V |->
                      IF v \in DOMAIN replacements THEN replacements[v] ELSE v]]
           f == CHOOSE g : Follows(replacements, t, g)
           T == {i \in 0 .. L : f[i] \in V /\ Stays(f[i])}
<1>0. L \in Nat
  BY FS_CardinalityType
<1>1. t \in V /\ \A v \in V : v \in DOMAIN replacements => replacements[v] \in V
  BY DEF Values
<1>2. Resolve(replacements, t) = f[L]
  BY DEF Resolve, Follows, FollowAt
<1> HIDE DEF L, V
<1>3. /\ step \in [1 .. L -> [V -> V]]
      /\ \A i \in 1 .. L : \A v \in V :
           step[i][v] = IF v \in DOMAIN replacements THEN replacements[v] ELSE v
  BY <1>1
<1> HIDE DEF step
<1>4. \E g : Follows(replacements, t, g)
  <2>1. PICK g : IsHistory(g, V, L, t, step)
    BY <1>0, <1>1, <1>3, Iteration
  <2>2. /\ g \in [0 .. L -> V]
        /\ \A i \in 0 .. L : g[i] = IF i = 0 THEN t ELSE step[i][g[i - 1]]
    BY <2>1 DEF IsHistory
  <2>3. g[0] = FollowAt(replacements, t, g, 0)
    BY <1>0, <2>2 DEF FollowAt
  <2>4. ASSUME NEW i \in 1 .. L
        PROVE  g[i] = FollowAt(replacements, t, g, i)
    <3>1. g[i - 1] \in V /\ i # 0 /\ i \in 0 .. L
      BY <1>0, <2>2
    <3>2. g[i] = step[i][g[i - 1]]
      BY <2>2, <3>1
    <3> QED  BY <1>3, <3>1, <3>2 DEF FollowAt
  <2>5. \A i \in 0 .. L : g[i] = FollowAt(replacements, t, g, i)
    BY <1>0, <2>3, <2>4
  <2>6. g = [i \in 0 .. L |-> FollowAt(replacements, t, g, i)]
    BY <2>2, <2>5
  <2> QED  BY <2>6 DEF Follows, L
<1>5. Follows(replacements, t, f)
  BY <1>4
<1> HIDE DEF f
<1>6. \A i \in 0 .. L : f[i] = FollowAt(replacements, t, f, i)
  BY <1>5 DEF Follows, L
<1>7. 0 \in T
  BY <1>0, <1>1, <1>6 DEF FollowAt
<1>8. ASSUME NEW m \in 0 .. L - 1, m \in T
      PROVE  m + 1 \in T
  <2>1. m + 1 \in 0 .. L /\ m + 1 # 0 /\ (m + 1) - 1 = m
    BY <1>0
  <2>2. f[m + 1] = IF f[m] \in DOMAIN replacements THEN replacements[f[m]] ELSE f[m]
    BY <1>6, <2>1 DEF FollowAt
  <2> QED  BY <1>1, <1>8, <2>1, <2>2
<1>9. L \in T
  <2>1. \A m \in 0 .. L - 1 : m \in T => m + 1 \in T
    BY <1>8
  <2> HIDE DEF T
  <2>2. 0 .. L \subseteq T
    BY <1>0, <1>7, <2>1, NumbersUpTo
  <2> QED  BY <1>0, <2>2
<1> QED  BY <1>2, <1>9 DEF V

(* The first block with the content of a block is a block.                 *)
LEMMA FirstLikeIsBlock ==
  ASSUME NEW S, NEW code \in Seq(S), NEW b \in Blocks(code)
  PROVE  FirstLike(b, Blocks(code)) \in Blocks(code)
<1> DEFINE blocks == Blocks(code)
           alike == {a \in blocks : a.content = b.content}
           T == {a.at : a \in alike}
<1>1. \A a \in blocks : a.at \in Nat
  <2>1. DOMAIN code \subseteq Nat
    OBVIOUS
  <2> QED  BY <2>1 DEF Blocks
<1>2. T \subseteq Nat /\ b.at \in T
  <2> HIDE DEF blocks
  <2>1. b \in alike
    BY DEF blocks
  <2> QED  BY <1>1, <2>1
<1> HIDE DEF T
<1>3. PICK n \in T : \A m \in T : n <= m
  BY <1>2, LeastNumber
<1> HIDE DEF blocks
<1>4. PICK a \in alike : a.at = n
  BY <1>3 DEF T
<1>5. a \in blocks /\ a.content = b.content /\ \A c \in blocks : c.content = b.content => a.at <= c.at
  BY <1>3, <1>4 DEF T
<1>6. FirstLike(b, blocks) \in blocks
  BY <1>5 DEF FirstLike
<1> QED  BY <1>6 DEF blocks

(* Labels of the code are replaced by labels of the code.                  *)
LEMMA DuplicatesAreLabels ==
  ASSUME NEW S, NEW code \in Seq(S)
  PROVE  /\ Values(Duplicates(Blocks(code))) \subseteq Labels(code)
         /\ DOMAIN Duplicates(Blocks(code)) \subseteq Labels(code)
<1> DEFINE blocks == Blocks(code)
           dups == {b \in blocks : FirstLike(b, blocks) # b}
<1>1. \A b \in blocks : b.tag \in Labels(code)
  BY DEF Blocks, Labels
<1>2. \A b \in blocks : FirstLike(b, blocks) \in blocks
  BY FirstLikeIsBlock
<1> HIDE DEF blocks
<1>3. ASSUME NEW t \in DOMAIN Duplicates(blocks)
      PROVE  Duplicates(blocks)[t] \in Labels(code)
  <2> DEFINE b == CHOOSE b \in dups : b.tag = t
  <2>1. t \in {a.tag : a \in dups}
    BY <1>3 DEF Duplicates
  <2>2. b \in blocks
    BY <2>1
  <2>3. Duplicates(blocks)[t] = FirstLike(b, blocks).tag
    BY <2>1 DEF Duplicates
  <2> HIDE DEF b
  <2> QED  BY <1>1, <1>2, <2>2, <2>3
<1>4. DOMAIN Duplicates(blocks) \subseteq Labels(code)
  BY <1>1 DEF Duplicates
<1> QED  BY <1>3, <1>4 DEF Values, blocks

(* Replacing tags by labels of the code keeps its labels and gives every   *)
(* reference its label.                                                    *)
LEMMA ReplacementSound ==
  ASSUME NEW code, CodeResolved(code), NEW replacements, ReplacementsResolved(code, replacements)
  PROVE  /\ CodeResolved(applyTagReplacement(code, replacements))
         /\ ReplacementsResolved(applyTagReplacement(code, replacements), replacements)
         /\ Labels(applyTagReplacement(code, replacements)) = Labels(code)
         /\ ChainsEnd(replacements) =>
              referencedTags(applyTagReplacement(code, replacements)) \cap DOMAIN replacements = {}
<1> USE DEF CodeResolved, ReplacementsResolved
<1> DEFINE new == applyTagReplacement(code, replacements)
           L == Len(code)
<1>1. L \in Nat /\ DOMAIN code = 1 .. L /\ \A i \in 1 .. L : code[i] \in Items
  OBVIOUS
<1>2. ASSUME NEW i \in DOMAIN code, IsOwnPush(code[i])
      PROVE  /\ Resolve(replacements, code[i].data) \in Labels(code)
             /\ ChainsEnd(replacements) => Resolve(replacements, code[i].data) \notin DOMAIN replacements
  <2>1. code[i].data \in referencedTags(code)
    BY <1>2 DEF referencedTags
  <2>2. IsFiniteSet(DOMAIN replacements)
    BY LabelsAreTags, TagsAssumption, FS_Subset
  <2> QED  BY <2>1, <2>2, ResolveSound DEF ChainsEnd
<1>3. /\ DOMAIN new = DOMAIN code
      /\ \A i \in DOMAIN code : new[i] = IF IsOwnPush(code[i])
                                         THEN PushTag(0, Resolve(replacements, code[i].data))
                                         ELSE code[i]
  BY DEF applyTagReplacement
<1>4. new \in [1 .. L -> Items]
  <2>1. \A l \in Labels(code) : PushTag(0, l) \in Items
    BY LabelsAreTags DEF Items
  <2>2. \A i \in 1 .. L : new[i] \in Items
    BY <1>1, <1>2, <1>3, <2>1
  <2>3. new = [i \in DOMAIN new |-> new[i]]
    BY DEF applyTagReplacement
  <2> HIDE DEF new
  <2> QED  BY <1>1, <1>3, <2>2, <2>3
<1> HIDE DEF new
<1>5. new \in Seq(Items)
  BY <1>1, <1>4
<1>6. \A l : PushTag(0, l).type = "PushTag" /\ PushTag(0, l).data = l
  BY DEF PushTag
<1>7. \A i \in DOMAIN code : /\ (new[i].type = "Tag") = (code[i].type = "Tag")
                             /\ code[i].type = "Tag" => new[i] = code[i]
  BY <1>3, <1>6 DEF IsOwnPush
<1>8. Labels(new) = Labels(code)
  BY <1>3, <1>7 DEF Labels
<1>9. \A i \in DOMAIN code : IsOwnPush(new[i]) => new[i].data \in Labels(code)
  BY <1>2, <1>3, <1>6
<1>10. referencedTags(new) \subseteq Labels(code)
  BY <1>3, <1>9 DEF referencedTags
<1>11. ChainsEnd(replacements) =>
         \A i \in DOMAIN code : IsOwnPush(new[i]) => new[i].data \notin DOMAIN replacements
  BY <1>2, <1>3, <1>6
<1>12. ChainsEnd(replacements) => referencedTags(new) \cap DOMAIN replacements = {}
  BY <1>3, <1>11 DEF referencedTags
<1> QED  BY <1>5, <1>8, <1>10, <1>12 DEF new

(* The greatest tag is a number.                                           *)
LEMMA LastTagIsNumber == LastTag \in Nat
<1> DEFINE S == {0} \cup Tags
<1>1. IsFiniteSet(S) /\ S \subseteq Nat /\ S # {}
  BY TagsAssumption, FS_AddElement
<1> HIDE DEF S
<1>2. \E n \in S : \A m \in S : n >= m
  BY <1>1, GreatestNumber
<1>3. Max(S) \in S
  BY <1>2 DEF Max
<1> QED  BY <1>1, <1>3 DEF LastTag, S

(* Assembly::optimiseInternal: what is kept for the parent after the       *)
(* replacements of the tags up to t.                                       *)
OutsideAt(fromOutside, replacements, f, t) ==
  IF t = 0 THEN fromOutside
  ELSE IF t \in DOMAIN replacements /\ t \in f[t - 1]
       THEN (f[t - 1] \ {t}) \cup {replacements[t]}
       ELSE f[t - 1]

AreOutside(fromOutside, replacements, f) ==
  f = [t \in 0 .. LastTag |-> OutsideAt(fromOutside, replacements, f, t)]

(* A tag that is not replaced stays, only replacements are added, and      *)
(* nothing if nothing is kept.                                             *)
LEMMA UpdateOutsideSound ==
  ASSUME NEW fromOutside, NEW replacements
  PROVE  LET new == UpdateOutside(fromOutside, replacements)
         IN  /\ fromOutside \ DOMAIN replacements \subseteq new
             /\ new \subseteq fromOutside \cup Values(replacements)
             /\ fromOutside = {} => new = {}
<1> DEFINE all == fromOutside \cup Values(replacements)
           L == LastTag
           V == SUBSET all
           step == [t \in 1 .. L |-> [s \in V |->
                      IF t \in DOMAIN replacements /\ t \in s
                      THEN (s \ {t}) \cup {replacements[t]} ELSE s]]
           Sound(s) == /\ s \in V
                       /\ fromOutside \ DOMAIN replacements \subseteq s
                       /\ fromOutside = {} => s = {}
           f == CHOOSE g : AreOutside(fromOutside, replacements, g)
           T == {t \in 0 .. L : Sound(f[t])}
<1>0. L \in Nat
  BY LastTagIsNumber
<1>1. /\ Sound(fromOutside)
      /\ \A t \in DOMAIN replacements : \A s : Sound(s) /\ t \in s => Sound((s \ {t}) \cup {replacements[t]})
      /\ \A t \in DOMAIN replacements : replacements[t] \in all
  BY DEF Values
<1>2. UpdateOutside(fromOutside, replacements) = f[L]
  BY DEF UpdateOutside, AreOutside, OutsideAt
<1> HIDE DEF L, all
<1>3. /\ step \in [1 .. L -> [V -> V]]
      /\ \A t \in 1 .. L : \A s \in V :
           step[t][s] = IF t \in DOMAIN replacements /\ t \in s
                        THEN (s \ {t}) \cup {replacements[t]} ELSE s
  BY <1>1
<1> HIDE DEF step, V
<1>4. \E g : AreOutside(fromOutside, replacements, g)
  <2>1. PICK g : IsHistory(g, V, L, fromOutside, step)
    BY <1>0, <1>1, <1>3, Iteration
  <2>2. /\ g \in [0 .. L -> V]
        /\ \A t \in 0 .. L : g[t] = IF t = 0 THEN fromOutside ELSE step[t][g[t - 1]]
    BY <2>1 DEF IsHistory
  <2>3. g[0] = OutsideAt(fromOutside, replacements, g, 0)
    BY <1>0, <2>2 DEF OutsideAt
  <2>4. ASSUME NEW t \in 1 .. L
        PROVE  g[t] = OutsideAt(fromOutside, replacements, g, t)
    <3>1. g[t - 1] \in V /\ t # 0 /\ t \in 0 .. L
      BY <1>0, <2>2
    <3>2. g[t] = step[t][g[t - 1]]
      BY <2>2, <3>1
    <3> QED  BY <1>3, <3>1, <3>2 DEF OutsideAt
  <2>5. \A t \in 0 .. L : g[t] = OutsideAt(fromOutside, replacements, g, t)
    BY <1>0, <2>3, <2>4
  <2>6. g = [t \in 0 .. L |-> OutsideAt(fromOutside, replacements, g, t)]
    BY <2>2, <2>5
  <2> QED  BY <2>6 DEF AreOutside, L
<1>5. AreOutside(fromOutside, replacements, f)
  BY <1>4
<1> HIDE DEF f
<1>6. \A t \in 0 .. L : f[t] = OutsideAt(fromOutside, replacements, f, t)
  BY <1>5 DEF AreOutside, L
<1>7. 0 \in T
  <2>1. 0 \in 0 .. L
    BY <1>0
  <2>2. OutsideAt(fromOutside, replacements, f, 0) = fromOutside
    BY DEF OutsideAt
  <2>3. f[0] = fromOutside
    BY <1>6, <2>1, <2>2
  <2> HIDE DEF Sound
  <2> QED  BY <1>1, <2>1, <2>3
<1>8. ASSUME NEW m \in 0 .. L - 1, m \in T
      PROVE  m + 1 \in T
  <2>1. m + 1 \in 0 .. L /\ m + 1 # 0 /\ (m + 1) - 1 = m
    BY <1>0
  <2>2. f[m + 1] = IF m + 1 \in DOMAIN replacements /\ m + 1 \in f[m]
                   THEN (f[m] \ {m + 1}) \cup {replacements[m + 1]} ELSE f[m]
    BY <1>6, <2>1 DEF OutsideAt
  <2> HIDE DEF Sound
  <2> QED  BY <1>1, <1>8, <2>1, <2>2
<1>9. L \in T
  <2>1. \A m \in 0 .. L - 1 : m \in T => m + 1 \in T
    BY <1>8
  <2> HIDE DEF T
  <2>2. 0 .. L \subseteq T
    BY <1>0, <1>7, <2>1, NumbersUpTo
  <2> QED  BY <1>0, <2>2
<1> QED  BY <1>2, <1>9 DEF V, all

-----------------------------------------------------------------------------
(* Generated code has the labels of the tags it pushes.                    *)
LEMMA InitOptimiserInv == Init => OptimiserInv
<1> SUFFICES ASSUME Init PROVE OptimiserInv
  OBVIOUS
<1>1. items \in Programs /\ IsProgram(items) /\ pc = "jumpdest"
  BY ProgramsAssumption DEF Init
<1>2. {items[i] : i \in DOMAIN items} \subseteq Items
  BY <1>1 DEF Items
<1>3. items \in Seq(Items)
  BY <1>1, <1>2 DEF IsProgram
<1>4. outside \subseteq Labels(items) /\ outside = DOMAIN entries
  BY DEF Init
<1>5. DOMAIN tagReplacements = {}
  BY DEF Init, None
<1> QED  BY <1>1, <1>3, <1>4, <1>5 DEF OptimiserInv, CodeResolved, IsProgram

(* JumpdestRemover and PeepholeOptimiser.                                  *)
LEMMA RemovalResolved ==
  ASSUME NEW code, CodeResolved(code), NEW fromOutside
  PROVE  /\ CodeResolved(RemoveJumpdests(code, fromOutside))
         /\ referencedTags(RemoveJumpdests(code, fromOutside)) \subseteq referencedTags(code)
<1> DEFINE new == RemoveJumpdests(code, fromOutside)
<1>1. code \in Seq(Items) /\ referencedTags(code) \subseteq Labels(code)
  BY DEF CodeResolved
<1>2. /\ new \in Seq(Items)
      /\ \A k \in DOMAIN code :
           code[k].type = "Tag" /\ code[k].data \in referencedTags(code)
             => \E n \in DOMAIN new : new[n] = code[k]
      /\ \A n \in DOMAIN new : \E k \in DOMAIN code : new[n] = code[k]
  BY <1>1, RemoveJumpdestsSound
<1> HIDE DEF new
<1>3. referencedTags(new) \subseteq referencedTags(code)
  BY <1>2 DEF referencedTags
<1>4. ASSUME NEW t \in referencedTags(code)
      PROVE  t \in Labels(new)
  <2>1. PICK k \in DOMAIN code : code[k].type = "Tag" /\ code[k].data = t
    BY <1>1 DEF Labels
  <2>2. PICK n \in DOMAIN new : new[n] = code[k]
    BY <1>2, <2>1
  <2> QED  BY <2>1, <2>2 DEF Labels
<1>5. CodeResolved(new)
  BY <1>2, <1>3, <1>4 DEF CodeResolved
<1> QED  BY <1>3, <1>5 DEF new

(* A scan of the peephole optimiser leaves the pushed tags their labels    *)
(* and adds neither references nor labels.                                 *)
LEMMA ScanResolved ==
  ASSUME NEW code, CodeResolved(code)
  PROVE  /\ CodeResolved(OptimisedItems(code))
         /\ referencedTags(OptimisedItems(code)) \subseteq referencedTags(code)
         /\ Labels(OptimisedItems(code)) \subseteq Labels(code)
<1> DEFINE new == OptimisedItems(code)
<1>1. code \in Seq(Items) /\ referencedTags(code) \subseteq Labels(code)
  BY DEF CodeResolved
<1>2. new \in Seq(Items) /\ SameLabels(new, code, 1, Len(code) + 1)
  BY <1>1, ItemsAreItems, ScanSound
<1>3. DOMAIN code = 1 .. (Len(code) + 1) - 1
  BY <1>1
<1> HIDE DEF new
<1>4. referencedTags(new) \subseteq referencedTags(code) /\ Labels(code) \subseteq Labels(new)
  BY <1>2, <1>3 DEF SameLabels, Labels, referencedTags, IsOwnPush
<1>5. Labels(new) \subseteq Labels(code)
  BY <1>2, <1>3 DEF SameLabels, Labels
<1>6. CodeResolved(new)
  BY <1>1, <1>2, <1>4 DEF CodeResolved
<1> QED  BY <1>4, <1>5, <1>6 DEF new

(* An iteration of the deduplicator.                                       *)
LEMMA DuplicatesResolved ==
  ASSUME NEW code, CodeResolved(code), NEW replacements, ReplacementsResolved(code, replacements)
  PROVE  ReplacementsResolved(code, With(replacements, Duplicates(Blocks(code))))
<1> DEFINE dups == Duplicates(Blocks(code))
<1>1. Values(dups) \subseteq Labels(code) /\ DOMAIN dups \subseteq Labels(code)
  BY DuplicatesAreLabels DEF CodeResolved
<1> HIDE DEF dups
<1>2. /\ Values(With(replacements, dups)) \subseteq Values(dups) \cup Values(replacements)
      /\ DOMAIN With(replacements, dups) = DOMAIN replacements \cup DOMAIN dups
  BY DEF Values, With
<1>3. ReplacementsResolved(code, With(replacements, dups))
  BY <1>1, <1>2 DEF ReplacementsResolved
<1> QED  BY <1>3 DEF dups

(* Every pass of optimiseInternal keeps the labels of the pushed tags.     *)
LEMMA OptimiserStep == OptimiserInv /\ [Next]_vars => OptimiserInv'
<1> SUFFICES ASSUME OptimiserInv, [Next]_vars PROVE OptimiserInv'
  OBVIOUS
<1> USE DEF OptimiserInv
<1>1. CASE jumpdestRemover
  BY <1>1, RemovalResolved DEF jumpdestRemover
<1>2. CASE peepholeOptimiser
  <2>1. CodeResolved(items')
    BY <1>2, ScanResolved DEF peepholeOptimiser
  <2>2. replacedTags' = None
    BY <1>2 DEF peepholeOptimiser
  <2>3. \A code : ReplacementsResolved(code, None)
    BY DEF ReplacementsResolved, Values, None
  <2>4. /\ pc' \in {"peephole", "deduplicate"}
        /\ UNCHANGED <<entries, outside, tagReplacements>>
    BY <1>2 DEF peepholeOptimiser
  <2> QED  BY <2>1, <2>2, <2>3, <2>4
<1>3. CASE deduplicate
  <2>1. ReplacementsResolved(items, replacedTags')
    BY <1>3, DuplicatesResolved DEF deduplicate
  <2>2. items' = applyTagReplacement(items, replacedTags')
    BY <1>3 DEF deduplicate
  <2>3. CodeResolved(items') /\ ReplacementsResolved(items', replacedTags')
    BY <2>1, <2>2, ReplacementSound
  <2>4. /\ pc' \in {"deduplicate", "merge"}
        /\ UNCHANGED <<entries, outside, tagReplacements>>
    BY <1>3 DEF deduplicate
  <2> QED  BY <2>3, <2>4
<1>4. CASE mergeReplacements
  <2>1. Labels(items) \subseteq Tags
    BY LabelsAreTags DEF CodeResolved
  <2>2. Values(replacedTags) \subseteq Tags /\ DOMAIN replacedTags \subseteq Tags
    BY <1>4, <2>1 DEF mergeReplacements, ReplacementsResolved
  <2>3. outside' \subseteq Tags /\ (outside = {} => outside' = {})
    BY <1>4, <2>2, UpdateOutsideSound DEF mergeReplacements
  <2>4. DOMAIN tagReplacements' \subseteq Tags
    BY <1>4, <2>2 DEF mergeReplacements, With
  <2>5. pc' \in {"repeat", "exception"} /\ UNCHANGED <<items, entries>>
    BY <1>4 DEF mergeReplacements
  <2> QED  BY <2>3, <2>4, <2>5
<1>5. CASE repeat
  BY <1>5 DEF repeat
<1>6. CASE applyInParent
  <2>1. DOMAIN entries' = DOMAIN entries /\ pc' = "done" /\ UNCHANGED <<items, outside, tagReplacements>>
    BY <1>6 DEF applyInParent
  <2> QED  BY <2>1
<1>7. CASE UNCHANGED vars
  BY <1>7 DEF vars
<1> QED  BY <1>1, <1>2, <1>3, <1>4, <1>5, <1>6, <1>7 DEF Next

(* Nothing is replaced when the driver starts.                             *)
LEMMA InitFreshInv == Init => FreshInv
<1> SUFFICES ASSUME Init PROVE FreshInv
  OBVIOUS
<1>1. DOMAIN tagReplacements = {} /\ pc = "jumpdest"
  BY DEF Init, None
<1> QED  BY <1>1 DEF FreshInv

(* With JumpdestRemover on, every pass leaves the tags that were replaced  *)
(* unused.                                                                 *)
LEMMA FreshStep ==
  ASSUME runJumpdestRemover
  PROVE  OptimiserInv /\ FreshInv /\ [Next]_vars => FreshInv'
<1> SUFFICES ASSUME OptimiserInv, FreshInv, [Next]_vars PROVE FreshInv'
  OBVIOUS
<1>0. CodeResolved(items)
  BY DEF OptimiserInv
<1> USE DEF FreshInv
<1>1. CASE jumpdestRemover
  <2>1. items' = RemoveJumpdests(items, outside) /\ pc = "jumpdest" /\ pc' = "peephole"
    BY <1>1 DEF jumpdestRemover
  <2>2. UNCHANGED <<outside, tagReplacements, entries>>
    BY <1>1 DEF jumpdestRemover
  <2>3. referencedTags(items') \subseteq referencedTags(items)
    BY <1>0, <2>1, RemovalResolved
  <2>4. Labels(items') \subseteq referencedTags(items) \cup outside
    BY <1>0, <2>1, RemoveJumpdestsSound DEF CodeResolved
  <2> QED  BY <2>1, <2>2, <2>3, <2>4
<1>2. CASE peepholeOptimiser
  <2>1. /\ referencedTags(items') \subseteq referencedTags(items)
        /\ Labels(items') \subseteq Labels(items)
    BY <1>0, <1>2, ScanResolved DEF peepholeOptimiser
  <2>2. /\ pc = "peephole" /\ pc' \in {"peephole", "deduplicate"}
        /\ UNCHANGED <<outside, tagReplacements, entries>>
    BY <1>2 DEF peepholeOptimiser
  <2> QED  BY <2>1, <2>2
<1>3. CASE deduplicate
  <2>1. ReplacementsResolved(items, replacedTags')
    BY <1>3, DuplicatesResolved DEF deduplicate, OptimiserInv
  <2>2. items' = applyTagReplacement(items, replacedTags') /\ ChainsEnd(replacedTags')
    BY <1>3 DEF deduplicate
  <2>3. /\ Labels(items') = Labels(items)
        /\ referencedTags(items') \subseteq Labels(items')
        /\ referencedTags(items') \cap DOMAIN replacedTags' = {}
    BY <1>0, <2>1, <2>2, ReplacementSound DEF CodeResolved
  <2>4. /\ pc = "deduplicate" /\ pc' \in {"deduplicate", "merge"}
        /\ UNCHANGED <<outside, tagReplacements, entries>>
    BY <1>3 DEF deduplicate
  <2> QED  BY <2>3, <2>4
<1>4. CASE mergeReplacements
  <2> DEFINE known == DOMAIN tagReplacements
             new == DOMAIN replacedTags
  <2>1. /\ pc = "merge" /\ pc' \in {"repeat", "exception"}
        /\ UNCHANGED <<items, entries, replacedTags>>
    BY <1>4 DEF mergeReplacements
  <2>2. /\ known \cap Labels(items) \subseteq outside /\ known \cap referencedTags(items) \subseteq outside
        /\ referencedTags(items) \cap new = {} /\ new \subseteq Labels(items)
        /\ DOMAIN entries = {} => outside = {}
    BY <2>1 DEF OptimiserInv, ReplacementsResolved
  <2>3. CASE iterations = 0
    <3>1. pc' = "repeat" /\ UNCHANGED <<outside, tagReplacements>>
      BY <1>4, <2>3 DEF mergeReplacements
    <3> QED  BY <2>1, <2>2, <3>1
  <2>4. CASE iterations # 0
    <3>1. DOMAIN tagReplacements' = known \cup new
      BY <1>4, <2>4 DEF mergeReplacements, With
    <3>2. outside \ new \subseteq outside'
      BY <1>4, <2>4, UpdateOutsideSound DEF mergeReplacements
    <3>3. DOMAIN tagReplacements' \cap referencedTags(items') \subseteq outside'
      BY <2>1, <2>2, <3>1, <3>2
    <3>4. pc' = "exception" => new \cap known # {}
      BY <1>4, <2>4 DEF mergeReplacements
    <3>5. pc' = "exception" => DOMAIN entries' # {}
      BY <2>1, <2>2, <3>4
    <3> QED  BY <2>1, <3>3, <3>5
  <2> QED  BY <2>3, <2>4
<1>5. CASE repeat
  BY <1>5 DEF repeat
<1>6. CASE applyInParent
  BY <1>6 DEF applyInParent
<1>7. CASE UNCHANGED vars
  BY <1>7 DEF vars
<1> QED  BY <1>1, <1>2, <1>3, <1>4, <1>5, <1>6, <1>7 DEF Next

-----------------------------------------------------------------------------
(* Every reachable state of the driver satisfies the invariant.            *)
LEMMA OptimiserInvariant == Spec => []OptimiserInv
  BY InitOptimiserInv, OptimiserStep, PTL DEF Spec

(* Whatever the passes do, the tags in the code, those kept for the parent *)
(* and those replaced are tags the generated code declares: none is        *)
(* invented, and the virtual tag with which BlockDeduplicator compares     *)
(* blocks never gets into the code.                                        *)
THEOREM OptimiserTypeCorrect == Spec => []TypeOK
<1>1. OptimiserInv => TypeOK
  BY LabelsAreTags DEF OptimiserInv, CodeResolved, TypeOK
<1> QED
  BY <1>1, OptimiserInvariant, PTL

(* Whatever code is generated and however often the passes run on it, no   *)
(* pass of Assembly::optimiseInternal leaves a reference without its       *)
(* label, for every set of tags and with or without JumpdestRemover.       *)
THEOREM OptimiserTagsResolved == Spec => []TagsResolved
<1>1. OptimiserInv => TagsResolved
  BY DEF OptimiserInv, CodeResolved, TagsResolved
<1> QED
  BY <1>1, OptimiserInvariant, PTL

(* With JumpdestRemover on, a tag is replaced in a second round only if it *)
(* is still kept for the parent assembly: in an assembly into which nobody *)
(* refers, the assertion "Replacement already known." never fails, however *)
(* many rounds the passes take.                                            *)
THEOREM OptimiserReplacementsNew == runJumpdestRemover /\ Spec => []ReplacementsNew
<1> SUFFICES ASSUME runJumpdestRemover PROVE Spec => []ReplacementsNew
  OBVIOUS
<1>1. OptimiserInv /\ FreshInv => ReplacementsNew
  BY DEF OptimiserInv, FreshInv, ReplacementsResolved, ReplacementsNew
<1>2. OptimiserInv /\ FreshInv /\ [Next]_vars => FreshInv'
  BY FreshStep
<1> QED
  BY <1>1, <1>2, InitFreshInv, OptimiserInvariant, PTL DEF Spec
=============================================================================
