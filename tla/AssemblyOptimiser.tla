-------------------------- MODULE AssemblyOptimiser --------------------------
(***************************************************************************)
(* Assembly::optimiseInternal for a sub-assembly whose tags are also       *)
(* pushed by its parent: JumpdestRemover, PeepholeOptimiser and            *)
(* BlockDeduplicator run in turn until none of them changes anything, and  *)
(* the tag replacements are then applied to the parent's items.  The       *)
(* settings runCSE and runConstantOptimiser are off: the eliminator of     *)
(* common subexpressions is modelled in CSECodeGenerator.                  *)
(***************************************************************************)
EXTENDS Peephole, SequencesExt

CONSTANTS
  Programs,           \* the items code generation may produce
  Tags,               \* tag ids used in them
  MaxEntries,         \* how many of them the parent may push
  runJumpdestRemover  \* setting of the same name; the other two passes are on

ASSUME TagsAssumption == Tags \subseteq Nat \ {0} /\ IsFiniteSet(Tags)

ASSUME SettingsAssumption == MaxEntries \in Nat /\ runJumpdestRemover \in BOOLEAN

VARIABLES
  source,          \* items before optimisation
  items,           \* m_items
  entries,         \* tags the parent pushes, with what it pushes for them now
  outside,         \* _tagsReferencedFromOutside
  replacedTags,    \* BlockDeduplicator::m_replacedTags
  tagReplacements, \* tagReplacements
  iterations,      \* iterations of the deduplicator
  changed,         \* count > 0
  pc

vars == <<source, items, entries, outside, replacedTags, tagReplacements,
          iterations, changed, pc>>

-----------------------------------------------------------------------------
(* JumpdestRemover *)

Labels(code) == {code[i].data : i \in {i \in DOMAIN code : code[i].type = "Tag"}}

(* Tags of sub-assemblies are not those of the code.                       *)
IsOwnPush(item) == item.type = "PushTag" /\ item.sub = 0

referencedTags(code) == {code[i].data : i \in {i \in DOMAIN code : IsOwnPush(code[i])}}

(* Mutant: no tag is ever removed.                                         *)
RemoveNothing(code, fromOutside) == code

RemoveJumpdests(code, fromOutside) ==
  LET references == referencedTags(code) \cup fromOutside
      kept[i \in 0 .. Len(code)] ==
        IF i = 0 THEN <<>>
        ELSE IF code[i].type = "Tag" /\ code[i].data \notin references THEN kept[i - 1]
        ELSE Append(kept[i - 1], code[i])
  IN  kept[Len(code)]

(* Generated code is made of operations of the table, and has the tags it  *)
(* pushes.                                                                 *)
IsProgram(code) ==
  /\ code \in Seq({code[i] : i \in DOMAIN code})
  /\ \A i \in DOMAIN code :
       code[i].type = "Operation" => code[i].op \in DOMAIN instructionInfo
  /\ Labels(code) \subseteq Tags
  /\ referencedTags(code) \subseteq Labels(code)

ASSUME ProgramsAssumption == \A code \in Programs : IsProgram(code)

-----------------------------------------------------------------------------
(* BlockDeduplicator *)

(* The virtual tag, which no code uses.                                    *)
pushSelf == PushTag(0, 0)

(* What the comparator sees of the block at tag position i: the items up   *)
(* to the first one that ends control flow, without tags, and with pushes  *)
(* of the block's own tag made equal.                                      *)
BlockContent(code, i) ==
  LET ends  == {j \in i .. Len(code) : altersControlFlow(code[j]) /\ ~IsOp(code[j], {"JUMPI"})}
      last  == IF ends = {} THEN Len(code) ELSE CHOOSE j \in ends : \A k \in ends : j <= k
      block == SelectSeq(SubSeq(code, i, last), LAMBDA item : item.type # "Tag")
      own   == PushTag(0, code[i].data)
  IN  [j \in DOMAIN block |-> IF block[j] = own THEN pushSelf ELSE block[j]]

Blocks(code) ==
  {[tag |-> code[i].data, at |-> i, content |-> BlockContent(code, i)] :
     i \in {i \in DOMAIN code : code[i].type = "Tag"}}

(* blocksSeen: the first block with the content of b.                      *)
FirstLike(b, blocks) ==
  CHOOSE a \in blocks : /\ a.content = b.content
                        /\ \A c \in blocks : c.content = b.content => a.at <= c.at

(* Mutant: the virtual tag of the comparator becomes the replacement.      *)
DuplicatesOfVirtual(blocks) ==
  [t \in {b.tag : b \in {b \in blocks : FirstLike(b, blocks) # b}} |-> pushSelf.data]

(* One scan over the tags: a block with the content of an earlier one is   *)
(* replaced by the first block with that content.                          *)
Duplicates(blocks) ==
  LET dups == {b \in blocks : FirstLike(b, blocks) # b}
  IN  [t \in {b.tag : b \in dups} |-> FirstLike(CHOOSE b \in dups : b.tag = t, blocks).tag]

With(replacements, new) ==
  [t \in DOMAIN replacements \cup DOMAIN new |->
     IF t \in DOMAIN new THEN new[t] ELSE replacements[t]]

(* The end of the chain of replacements that starts at t.                  *)
Resolve(replacements, t) ==
  LET n == Cardinality(DOMAIN replacements)
      follow[i \in 0 .. n] ==
        IF i = 0 THEN t
        ELSE IF follow[i - 1] \in DOMAIN replacements THEN replacements[follow[i - 1]]
        ELSE follow[i - 1]
  IN  follow[n]

(* A chain that does not end is followed forever.                          *)
ChainsEnd(replacements) ==
  \A t \in DOMAIN replacements : Resolve(replacements, t) \notin DOMAIN replacements

applyTagReplacement(code, replacements) ==
  [i \in DOMAIN code |-> IF IsOwnPush(code[i])
                         THEN PushTag(0, Resolve(replacements, code[i].data))
                         ELSE code[i]]

(* Mutant: the set is left as it was.                                      *)
KeepOutside(fromOutside, replacements) == fromOutside

LastTag == Max({0} \cup Tags)

(* The update of _tagsReferencedFromOutside, replacements taken in the     *)
(* order of the map.                                                       *)
UpdateOutside(fromOutside, replacements) ==
  LET upTo[t \in 0 .. LastTag] ==
        IF t = 0 THEN fromOutside
        ELSE IF t \in DOMAIN replacements /\ t \in upTo[t - 1]
             THEN (upTo[t - 1] \ {t}) \cup {replacements[t]}
             ELSE upTo[t - 1]
  IN  upTo[LastTag]

-----------------------------------------------------------------------------
None == [t \in {} |-> t]

Init ==
  /\ source \in Programs
  /\ items = source
  /\ entries \in {[t \in pushed |-> t] :
                   pushed \in {T \in SUBSET Labels(source) : Cardinality(T) <= MaxEntries}}
  /\ outside = DOMAIN entries
  /\ replacedTags = None /\ tagReplacements = None
  /\ iterations = 0 /\ changed = FALSE
  /\ pc = "jumpdest"

(* Mutant: the pass always reports a change.                               *)
jumpdestRemoverBusy ==
  /\ pc = "jumpdest"
  /\ items' = RemoveJumpdests(items, outside)
  /\ changed' = TRUE
  /\ pc' = "peephole"
  /\ UNCHANGED <<source, entries, outside, replacedTags, tagReplacements, iterations>>

jumpdestRemover ==
  /\ pc = "jumpdest"
  /\ items' = IF runJumpdestRemover THEN RemoveJumpdests(items, outside) ELSE items
  /\ changed' = (items' # items)
  /\ pc' = "peephole"
  /\ UNCHANGED <<source, entries, outside, replacedTags, tagReplacements, iterations>>

peepholeOptimiser ==
  /\ pc = "peephole"
  /\ \E new \in {OptimisedItems(items)} :
       IF Improves(new, items)
       THEN items' = new /\ changed' = TRUE /\ UNCHANGED pc
       ELSE pc' = "deduplicate" /\ UNCHANGED <<items, changed>>
  /\ replacedTags' = None /\ iterations' = 0
  /\ UNCHANGED <<source, entries, outside, tagReplacements>>

(* An iteration of BlockDeduplicator::deduplicate.                         *)
deduplicate ==
  /\ pc = "deduplicate"
  /\ \E blocks \in {Blocks(items)} : \E new \in {With(replacedTags, Duplicates(blocks))} :
       replacedTags' = new
  /\ ChainsEnd(replacedTags')
  /\ items' = applyTagReplacement(items, replacedTags')
  /\ IF items' # items
     THEN iterations' = iterations + 1 /\ UNCHANGED pc
     ELSE pc' = "merge" /\ UNCHANGED iterations
  /\ UNCHANGED <<source, entries, outside, tagReplacements, changed>>

(* The replacements are recorded, unless one of them is already known.     *)
mergeReplacements ==
  /\ pc = "merge"
  /\ IF iterations = 0
     THEN pc' = "repeat" /\ UNCHANGED <<outside, tagReplacements, changed>>
     ELSE /\ tagReplacements' = With(tagReplacements, replacedTags)
          /\ outside' = UpdateOutside(outside, replacedTags)
          /\ changed' = TRUE
          /\ pc' = IF DOMAIN replacedTags \cap DOMAIN tagReplacements = {}
                   THEN "repeat" ELSE "exception"
  /\ UNCHANGED <<source, items, entries, replacedTags, iterations>>

repeat ==
  /\ pc = "repeat" /\ changed
  /\ pc' = "jumpdest"
  /\ UNCHANGED <<source, items, entries, outside, replacedTags, tagReplacements,
                 iterations, changed>>

(* Back in the parent: the replacements are applied to its items.          *)
applyInParent ==
  /\ pc = "repeat" /\ ~changed
  /\ ChainsEnd(tagReplacements)
  /\ entries' = [t \in DOMAIN entries |-> Resolve(tagReplacements, t)]
  /\ pc' = "done"
  /\ UNCHANGED <<source, items, outside, replacedTags, tagReplacements, iterations, changed>>

Next ==
  \/ jumpdestRemover \/ peepholeOptimiser \/ deduplicate
  \/ mergeReplacements \/ repeat \/ applyInParent

Spec == Init /\ [][Next]_vars /\ WF_vars(Next)

-----------------------------------------------------------------------------
TypeOK ==
  /\ Labels(items) \subseteq Tags /\ referencedTags(items) \subseteq Tags
  /\ outside \subseteq Tags
  /\ DOMAIN tagReplacements \subseteq Tags
  /\ pc \in {"jumpdest", "peephole", "deduplicate", "merge", "repeat", "done", "exception"}

(* No pass removes a tag that the code still pushes, or has it push a tag  *)
(* that is gone: "Reference to tag without position" (Assembly::assemble). *)
TagsResolved == referencedTags(items) \subseteq Labels(items)

(* A tag is replaced a second time, which the assertion "Replacement       *)
(* already known." forbids, only if it is still kept for the parent: the   *)
(* assertion holds for an assembly into which nobody refers.               *)
ReplacementsNew ==
  /\ pc = "merge" => DOMAIN replacedTags \cap DOMAIN tagReplacements \subseteq outside
  /\ pc = "exception" => DOMAIN entries # {}

(* The loop over the passes ends.                                          *)
OptimiserTerminates == <>(pc \in {"done", "exception"})
=============================================================================
