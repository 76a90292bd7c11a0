----------------------------- MODULE Assembler -----------------------------
(***************************************************************************)
(* Assembly::assemble and LinkerObject: items become bytecode.  The widths *)
(* of references are fixed from an estimate of the size, before a single   *)
(* position is known; positions are filled in at the end.                  *)
(*                                                                         *)
(* An assembly with its subs, their subs and so on is a sequence in which  *)
(* subs come before those that use them.  A cell of the bytecode is an     *)
(* opcode, a push of a number of bytes, a byte or a byte of some data.     *)
(***************************************************************************)
EXTENDS Integers, SequencesExt, FiniteSetsExt

CONSTANTS
  Base,          \* values of a byte (256)
  WordBytes,     \* bytes of a word (32)
  AddressBytes,  \* bytes of an address (20)
  SizeBytes,     \* bytes the estimate has for the size of a program (4)
  Trees,         \* the assemblies to be assembled
  Libraries,     \* the libraries that may be known to the linker
  Immutables     \* the immutables of the programs

ASSUME BaseAssumption == Base \in Nat \ {0, 1}
ASSUME BytesAssumption ==
  /\ WordBytes \in Nat /\ AddressBytes \in Nat \ {0} /\ SizeBytes \in Nat \ {0}
  /\ SizeBytes <= WordBytes

VARIABLES
  tree,        \* the assemblies
  objects,     \* m_assembledObject of those that are done, with their tag positions
  next,        \* the item to be appended
  code,        \* ret.bytecode
  tagPos,      \* m_tagPositionsInBytecode: the tags that have one
  refs,        \* tagRef, subRef, dataRef and sizeRef: what has to be filled in where
  links,       \* ret.linkReferences; after linking, those that remain
  immutables,  \* ret.immutableReferences
  unassigned,  \* immutableReferencesBySub
  width,       \* bytesPerTag
  dataWidth,   \* bytesPerDataRef
  linked,      \* the bytecode after linking
  pc
vars == <<tree, objects, next, code, tagPos, refs, links, immutables, unassigned, width, dataWidth, linked, pc>>

(* An item with a number or with a name.  Tags are those of the assembly   *)
(* itself (sub 0) or of one of its subs.                                   *)
Item(type, data)  == [type |-> type, name |-> "", data |-> data, sub |-> 0]
Named(type, name) == [type |-> type, name |-> name, data |-> 0, sub |-> 0]
PushTagOf(sub, t) == [type |-> "PushTag", name |-> "", data |-> t, sub |-> sub]

(* Where a path of sub numbers leads from assembly n of t, step by step.   *)
Leads(t, n, path, at) ==
  /\ at[0] = n
  /\ \A k \in DOMAIN path : /\ path[k] \in DOMAIN t[at[k - 1]].subs
                             /\ at[k] = t[at[k - 1]].subs[path[k]]

ItemTypes ==
  {"Operation", "Tag", "Push", "PushString", "PushTag", "PushData", "PushSub", "PushSubSize", "PushProgramSize",
   "PushLibraryAddress", "PushDeployTimeAddress", "PushImmutable", "AssignImmutable"}

IsAssembly(t, n) ==
  LET a == t[n]
  IN  /\ a.subs \in Seq(1 .. n - 1) /\ a.data \in Seq(Nat) /\ a.aux \in Nat
      /\ a.items \in Seq({a.items[k] : k \in DOMAIN a.items})
      /\ a.paths \in Seq(Seq(Nat) \ {<<>>})
      /\ \A i \in DOMAIN a.paths :
           \E at \in [0 .. Len(a.paths[i]) -> 1 .. n] : Leads(t, n, a.paths[i], at)
      /\ \A k \in DOMAIN a.items :
           LET item == a.items[k]
           IN  /\ item.type \in ItemTypes
               /\ item.type = "Operation" => item.name # "JUMPDEST"
               /\ item.type = "Tag" => item = Item("Tag", item.data) /\ item.data \in Nat \ {0}
               /\ item.type = "Push" => item.data \in Nat
               /\ item.type = "PushData" => item.data \in DOMAIN a.data
               /\ item.type = "PushTag" => item.sub \in 0 .. Len(a.subs)
               /\ item.type \in {"PushSub", "PushSubSize"} => item.data \in 1 .. Len(a.subs) + Len(a.paths)

(* Assemblies refer to data that is there, and to subs that exist and come *)
(* before them.  Tags are numbered from 1, and only they become JUMPDEST.  *)
ASSUME TreesAssumption ==
  \A t \in Trees : t \in Seq({t[n] : n \in DOMAIN t}) \ {<<>>} /\ \A n \in DOMAIN t : IsAssembly(t, n)

Op(o)   == <<"op", o>>
Push(n) == <<"push", n>>
Byte(v) == <<"byte", v>>
Zeros(n) == [i \in 1 .. n |-> Byte(0)]

-----------------------------------------------------------------------------
(* Numbers as bytes                                                        *)

Power[k \in Nat] == IF k = 0 THEN 1 ELSE Base * Power[k - 1]

(* util::bytesRequired: 0 for 0.                                           *)
NumberBytes(v) == CHOOSE k \in 0 .. v : v < Power[k] /\ \A j \in 0 .. k - 1 : v >= Power[j]

AtLeastOne(n) == IF n = 0 THEN 1 ELSE n

(* toBigEndian: what does not fit is cut off.                              *)
BigEndian(v, n) == [i \in 1 .. n |-> Byte((v \div Power[n - i]) % Base)]

(* A sequence with other bytes from some offsets on, which "bytes" gives.  *)
Patched(c, bytes) ==
  [i \in DOMAIN c |->
     IF \E at \in DOMAIN bytes : i - at \in DOMAIN bytes[at]
     THEN LET at == CHOOSE at \in DOMAIN bytes : i - at \in DOMAIN bytes[at] IN bytes[at][i - at]
     ELSE c[i]]

-----------------------------------------------------------------------------
(* The assembly that is being assembled                                    *)

here == Len(objects) + 1
current == tree[here]

(* decodeSubPath, subAssemblyById: a sub by its number, or one further down *)
(* by a number given to the path to it ("paths" in the order of these       *)
(* numbers, all above those of the subs).                                  *)
decodeSubPath(a, id) == IF id <= Len(a.subs) THEN <<id>> ELSE a.paths[id - Len(a.subs)]

subAssemblyById(n, id) ==
  LET path == decodeSubPath(tree[n], id)
      at[k \in 0 .. Len(path)] == IF k = 0 THEN n ELSE tree[at[k - 1]].subs[path[k]]
  IN  at[Len(path)]

SubObject(id) == objects[subAssemblyById(here, id)]

(* The objects of the subs of an assembly a, when those before it are done. *)
SubObjects(a, done) == [i \in DOMAIN a.subs |-> done[a.subs[i]]]

Occurrences(found, i) == IF i \in DOMAIN found THEN found[i] ELSE <<>>

(* AssemblyItem::bytesRequired.                                            *)
ItemBytes(item, addressLength, found) ==
  CASE item.type \in {"Operation", "Tag"} -> 1
    [] item.type \in {"PushString", "PushImmutable"} -> 1 + WordBytes
    [] item.type = "Push" -> 1 + AtLeastOne(NumberBytes(item.data))
    [] item.type \in {"PushSubSize", "PushProgramSize"} -> 1 + SizeBytes
    [] item.type \in {"PushTag", "PushData", "PushSub"} -> 1 + addressLength
    [] item.type \in {"PushLibraryAddress", "PushDeployTimeAddress"} -> 1 + AddressBytes
    [] item.type = "AssignImmutable" -> 1 + (3 + WordBytes) * Len(Occurrences(found, item.name))

SumOf(s) ==
  LET upTo[i \in 0 .. Len(s)] == IF i = 0 THEN 0 ELSE upTo[i - 1] + s[i]
  IN  upTo[Len(s)]

CodeBytes(a, tagSize, found) ==
  1 + SumOf(a.data) + SumOf([i \in DOMAIN a.items |-> ItemBytes(a.items[i], tagSize, found)])

(* Assembly::bytesRequired: the first size of tags, from the one given on, *)
(* with which all positions can be written.                                *)
Suffices(a, tagSize, found) == NumberBytes(CodeBytes(a, tagSize, found)) <= tagSize

TagSize(a, subTagSize, found) ==
  CHOOSE t \in subTagSize .. subTagSize + CodeBytes(a, subTagSize, found) :
    Suffices(a, t, found) /\ \A u \in subTagSize .. t - 1 : ~ Suffices(a, u, found)

(* The largest position of a tag in a sub, taken for a number of bytes.    *)
SubTagSize(subs) == Max({1} \cup UNION {Range(subs[i].tagPos) : i \in DOMAIN subs})

(* The immutables read by the sub that has some.                           *)
Nothing == [i \in {} |-> <<>>]

WithImmutables(subs) == {i \in DOMAIN subs : DOMAIN subs[i].immutables # {}}

ImmutablesOf(subs) ==
  IF WithImmutables(subs) = {} THEN Nothing ELSE subs[CHOOSE i \in WithImmutables(subs) : TRUE].immutables

bytesRequired(a, subs) ==
  CodeBytes(a, TagSize(a, SubTagSize(subs), ImmutablesOf(subs)), ImmutablesOf(subs))

(* Mutant: the assembly's own code only.                                   *)
EstimateOfCode(a, subs) == bytesRequired(a, subs) + 1 + a.aux

(* bytesRequiredIncludingData.                                             *)
EstimateWithSubs(a, subs) ==
  bytesRequired(a, subs) + 1 + a.aux + SumOf([i \in DOMAIN subs |-> Len(subs[i].code)])

-----------------------------------------------------------------------------
NoRefs == [tag |-> {}, sub |-> {}, data |-> {}, size |-> {}]
Init ==
  /\ tree \in Trees
  /\ objects = <<>>
  /\ next = 1 /\ code = <<>> /\ tagPos = Nothing /\ refs = NoRefs /\ links = Nothing
  /\ immutables = Nothing /\ unassigned = Nothing
  /\ width = 0 /\ dataWidth = 0
  /\ linked = <<>>
  /\ pc = "measure"

Fail(why) ==
  /\ pc' = why
  /\ UNCHANGED <<tree, objects, next, code, tagPos, refs, links, immutables, unassigned, width, dataWidth, linked>>

Has(type) == \E i \in DOMAIN current.items : current.items[i].type = type

measure ==
  /\ pc = "measure"
  /\ LET subs == SubObjects(current, objects)
     IN  IF Cardinality(WithImmutables(subs)) > 1 THEN Fail("immutables of several subs")
         ELSE IF Has("AssignImmutable") /\ Has("PushImmutable") THEN Fail("pushes and assigns")
         ELSE /\ width' = NumberBytes(bytesRequired(current, subs))
              /\ dataWidth' = NumberBytes(EstimateWithSubs(current, subs))
              /\ unassigned' = ImmutablesOf(subs)
              /\ pc' = "items"
              /\ UNCHANGED <<tree, objects, next, code, tagPos, refs, links, immutables, linked>>

(* What an item appends.                                                   *)
Placeholder(n) == <<Push(n)>> \o Zeros(n)
Number(v)      == LET n == AtLeastOne(NumberBytes(v)) IN <<Push(n)>> \o BigEndian(v, n)

StoreAt(offset) ==
  <<Op("DUP1"), Push(NumberBytes(offset))>> \o BigEndian(offset, NumberBytes(offset)) \o <<Op("MSTORE")>>

(* Mutant: an immutable that is read twice is written once.                *)
AssignedOnce(places) ==
  (IF places = <<>> THEN <<>> ELSE StoreAt(places[Len(places)])) \o <<Op("POP")>>

(* An immutable is stored at all places where the sub reads it.            *)
Assigned(places) ==
  LET stores[k \in 0 .. Len(places)] == IF k = 0 THEN <<>> ELSE stores[k - 1] \o StoreAt(places[k])
  IN  stores[Len(places)] \o <<Op("POP")>>

Bytecode(item) ==
  CASE item.type = "Operation" -> <<Op(item.name)>>
    [] item.type = "Tag"       -> <<Op("JUMPDEST")>>
    [] item.type = "Push"      -> Number(item.data)
    [] item.type = "PushSubSize" -> Number(Len(SubObject(item.data).code))
    [] item.type = "PushTag"   -> Placeholder(width)
    [] item.type \in {"PushData", "PushSub", "PushProgramSize"} -> Placeholder(dataWidth)
    [] item.type = "PushString" -> <<Push(WordBytes)>> \o [i \in 1 .. WordBytes |-> <<"string", item.name, i>>]
    [] item.type = "PushImmutable" -> Placeholder(WordBytes)
    [] item.type \in {"PushLibraryAddress", "PushDeployTimeAddress"} -> Placeholder(AddressBytes)
    [] item.type = "AssignImmutable" -> Assigned(Occurrences(unassigned, item.name))

Without(f, x) == [y \in DOMAIN f \ {x} |-> f[y]]
With(f, x, v) == [y \in DOMAIN f \cup {x} |-> IF y = x THEN v ELSE f[y]]

RefsAt(item, at) ==
  CASE item.type = "PushTag" -> [refs EXCEPT !.tag = @ \cup {[at |-> at, sub |-> item.sub, tag |-> item.data]}]
    [] item.type = "PushSub" -> [refs EXCEPT !.sub = @ \cup {[at |-> at, id |-> item.data]}]
    [] item.type = "PushData" -> [refs EXCEPT !.data = @ \cup {[at |-> at, id |-> item.data]}]
    [] item.type = "PushProgramSize" -> [refs EXCEPT !.size = @ \cup {at}]
    [] OTHER -> refs

(* Mutant: a reference is filled in where the push is.                     *)
RefAtPush(item) == RefsAt(item, Len(code))

(* The references to be filled in, at the byte behind the push.            *)
RefsWith(item) == RefsAt(item, Len(code) + 1)

(* The position of the error tag 0 is that of the first item that is no    *)
(* tag: nobody can jump there.                                             *)
TagPosWith(item) ==
  CASE item.type = "Tag" -> With(tagPos, item.data, Len(code))
    [] item.type # "Tag" /\ 0 \notin DOMAIN tagPos -> With(tagPos, 0, Len(code))
    [] OTHER -> tagPos

appendItem ==
  /\ pc = "items" /\ next <= Len(current.items)
  /\ LET item == current.items[next]
         at   == Len(code) + 1
     IN  IF item.type = "Tag" /\ item.data \in DOMAIN tagPos
         THEN Fail("duplicate tag position")
         ELSE /\ code' = code \o Bytecode(item)
              /\ refs' = RefsWith(item)
              /\ tagPos' = TagPosWith(item)
              /\ links' = IF item.type = "PushLibraryAddress" THEN With(links, at, item.name) ELSE links
              /\ immutables' = IF item.type = "PushImmutable"
                               THEN With(immutables, item.name, Append(Occurrences(immutables, item.name), at))
                               ELSE immutables
              /\ unassigned' = IF item.type = "AssignImmutable" THEN Without(unassigned, item.name) ELSE unassigned
              /\ next' = next + 1
              /\ UNCHANGED <<tree, objects, width, dataWidth, linked, pc>>

HasMore == current.subs # <<>> \/ current.data # <<>> \/ current.aux > 0

endOfItems ==
  /\ pc = "items" /\ next > Len(current.items)
  /\ IF DOMAIN unassigned # {} THEN Fail("immutables never assigned")
     ELSE /\ code' = IF HasMore THEN Append(code, Op("INVALID")) ELSE code
          /\ pc' = "subs"
          /\ UNCHANGED <<tree, objects, next, tagPos, refs, links, immutables, unassigned, width, dataWidth, linked>>

(* Mutant: the references of a sub that is appended stay where they were.  *)
LinksAsTheyAre(o) == o.links @@ links

(* LinkerObject::append: its link references move with it.                 *)
LinksAppended(o) ==
  [at \in DOMAIN links \cup {Len(code) + l : l \in DOMAIN o.links} |->
     IF at \in DOMAIN links THEN links[at] ELSE o.links[at - Len(code)]]

(* Every reference to a sub appends it, in the order of their numbers.     *)
Earlier(r, q) == r.id < q.id \/ (r.id = q.id /\ r.at <= q.at)

appendSub ==
  /\ pc = "subs"
  /\ \E r \in refs.sub :
       /\ \A q \in refs.sub : Earlier(r, q)
       /\ code' = Patched(code, [at \in {r.at} |-> BigEndian(Len(code), dataWidth)]) \o SubObject(r.id).code
       /\ links' = LinksAppended(SubObject(r.id))
       /\ refs' = [refs EXCEPT !.sub = @ \ {r}]
  /\ UNCHANGED <<tree, objects, next, tagPos, immutables, unassigned, width, dataWidth, linked, pc>>

TagPositions(sub) == IF sub = 0 THEN tagPos ELSE objects[current.subs[sub]].tagPos

fillTags ==
  /\ pc = "subs" /\ refs.sub = {}
  /\ LET position(r) == TagPositions(r.sub)[r.tag]
         referrer(at) == CHOOSE r \in refs.tag : r.at = at
     IN  IF \E r \in refs.tag : r.tag \notin DOMAIN TagPositions(r.sub) THEN Fail("tag without position")
         ELSE IF \E r \in refs.tag : NumberBytes(position(r)) > width THEN Fail("tag too large")
         ELSE /\ code' = Patched(code, [at \in {r.at : r \in refs.tag} |-> BigEndian(position(referrer(at)), width)])
              /\ next' = 1
              /\ pc' = "data"
              /\ UNCHANGED <<tree, objects, tagPos, refs, links, immutables, unassigned, width, dataWidth, linked>>

(* One piece of data after the other, if it is referred to.                *)
DataOf(n, d) == [i \in 1 .. tree[n].data[d] |-> <<"data", n, d, i>>]

appendData ==
  /\ pc = "data" /\ next <= Len(current.data)
  /\ LET to == {r.at : r \in {r \in refs.data : r.id = next}}
     IN  code' = IF to = {} THEN code
                 ELSE Patched(code, [at \in to |-> BigEndian(Len(code), dataWidth)]) \o DataOf(here, next)
  /\ next' = next + 1
  /\ UNCHANGED <<tree, objects, tagPos, refs, links, immutables, unassigned, width, dataWidth, linked, pc>>

(* The auxiliary data and the size of the program end it.                  *)
Auxiliary == [i \in 1 .. current.aux |-> <<"aux", here, i>>]

finish ==
  /\ pc = "data" /\ next > Len(current.data)
  /\ LET all == code \o Auxiliary
         bytecode == Patched(all, [at \in refs.size |-> BigEndian(Len(all), dataWidth)])
     IN  objects' = Append(objects, [code |-> bytecode, tagPos |-> tagPos, links |-> links, immutables |-> immutables,
                                     width |-> width, dataWidth |-> dataWidth])
  /\ next' = 1 /\ code' = <<>> /\ tagPos' = Nothing /\ refs' = NoRefs /\ links' = Nothing /\ immutables' = Nothing
  /\ pc' = IF here = Len(tree) THEN "link" ELSE "measure"
  /\ UNCHANGED <<tree, unassigned, width, dataWidth, linked>>

(* LinkerObject::link, for the libraries whose addresses are known; the    *)
(* references to the others remain.                                        *)
AddressOf(l) == [i \in 1 .. AddressBytes |-> <<"address", l, i>>]

link ==
  /\ pc = "link"
  /\ LET o == Last(objects)
     IN  \E known \in SUBSET Libraries :
           LET resolved == {at \in DOMAIN o.links : o.links[at] \in known}
           IN  /\ linked' = Patched(o.code, [at \in resolved |-> AddressOf(o.links[at])])
               /\ links' = [at \in DOMAIN o.links \ resolved |-> o.links[at]]
  /\ pc' = "done"
  /\ UNCHANGED <<tree, objects, next, code, tagPos, refs, immutables, unassigned, width, dataWidth>>

Next ==
  \/ measure \/ appendItem \/ endOfItems
  \/ appendSub \/ fillTags \/ appendData \/ finish \/ link
Spec == Init /\ [][Next]_vars

-----------------------------------------------------------------------------
(* Reading bytecode back                                                   *)

Cells(c, at, n) == SubSeq(c, at + 1, at + n)

(* The number an instruction at an offset pushes.                          *)
Pushed(c, at) ==
  LET bytes == c[at + 1][2]
      value[k \in 0 .. bytes] == IF k = 0 THEN 0 ELSE Base * value[k - 1] + c[at + 1 + k][2]
  IN  value[bytes]

(* Where the instructions of an item that start at an offset end.          *)
PopFrom(c, at) == CHOOSE e \in at + 1 .. Len(c) : c[e] = Op("POP") /\ \A f \in at + 1 .. e - 1 : c[f] # Op("POP")

EndOf(item, c, at) ==
  IF item.type = "AssignImmutable" THEN PopFrom(c, at)
  ELSE IF c[at + 1][1] = "push" THEN at + 1 + c[at + 1][2] ELSE at + 1

(* Where the items of an assembly start in its bytecode.                   *)
Starts(n) ==
  LET items == tree[n].items
      start[k \in 1 .. Len(items)] ==
        IF k = 1 THEN 0 ELSE LET p == start[k - 1] IN EndOf(items[k - 1], objects[n].code, p)
  IN  start

Placed(n, item) == {Starts(n)[k] : k \in {k \in DOMAIN tree[n].items : tree[n].items[k] = item}}

PointsTo(c, at, bytes) == Cells(c, Pushed(c, at), Len(bytes)) = bytes

(* What the instructions of an item do is what the item stands for.        *)
Means(n, item, at) ==
  LET c == objects[n].code
      v == Pushed(c, at)
      sub == objects[subAssemblyById(n, item.data)]
      jumpsTo == IF item.sub = 0 THEN n ELSE tree[n].subs[item.sub]
  IN  CASE item.type = "Operation" -> c[at + 1] = Op(item.name)
        [] item.type = "Tag"       -> c[at + 1] = Op("JUMPDEST")
        [] item.type = "Push"      -> v = item.data
        [] item.type = "PushTag"   ->
             IF item.data = 0 THEN objects[jumpsTo].code[v + 1] # Op("JUMPDEST")
             ELSE Placed(jumpsTo, Item("Tag", item.data)) = {v}
        [] item.type = "PushData"  -> PointsTo(c, at, DataOf(n, item.data))
        [] item.type = "PushSub"   -> PointsTo(c, at, sub.code)
        [] item.type = "PushSubSize" -> v = Len(sub.code)
        [] item.type = "PushProgramSize" -> v = Len(c)
        [] OTHER -> TRUE

-----------------------------------------------------------------------------
(* The subs and the references to them the estimate of the size counts.    *)
CountedSubs(n) ==
  /\ tree[n].paths = <<>>
  /\ \A i, j \in DOMAIN tree[n].items :
       i # j /\ tree[n].items[i].type = "PushSub" /\ tree[n].items[j].type = "PushSub"
         => tree[n].items[i].data # tree[n].items[j].data

(* No program before n is larger than the estimate thinks.                 *)
SizesCounted(n) == \A m \in 1 .. n - 1 : Len(objects[m].code) < Power[SizeBytes]

(* The widths fixed in advance are enough for every position that turns    *)
(* up later, as long as every sub is appended once, references to data are *)
(* no wider than those to tags, and no program is larger than the estimate *)
(* thinks ("Tag too large for reserved space."); tags of subs always fit.   *)
SpaceSuffices ==
  /\ pc = "tag too large" =>
       /\ dataWidth > width \/ dataWidth > SizeBytes \/ ~ SizesCounted(here)
       /\ \A r \in refs.tag : r.sub # 0 => NumberBytes(TagPositions(r.sub)[r.tag]) <= width
  /\ \A n \in DOMAIN objects :
       /\ CountedSubs(n) /\ SizesCounted(n)
       /\ objects[n].dataWidth = objects[n].width /\ objects[n].dataWidth <= SizeBytes
       => Len(objects[n].code) < Power[objects[n].dataWidth]

(* Bytecode means what the items say: read back instruction by             *)
(* instruction, each one that pushes a position pushes that of the tag, the *)
(* data, the sub or the end it was made for.                               *)
ReferencesRight ==
  \A n \in DOMAIN objects :
    Len(objects[n].code) < Power[objects[n].dataWidth] =>
      \A k \in DOMAIN tree[n].items : Means(n, tree[n].items[k], Starts(n)[k])

(* Wherever an address is missing, in the code or in subs at any depth,    *)
(* there is a link reference, and nowhere else; after linking each of them *)
(* has the address of its library or is still listed, and nothing else of  *)
(* the code has changed.  The code is read back for that, which takes that *)
(* the positions of the program and of those before it fit.                *)
LibraryPushes ==
  LET of[n \in 1 .. Len(objects)] ==
        LET items == tree[n].items
            start == Starts(n)
            own == {<<start[k] + 1, items[k].name>> : k \in {k \in DOMAIN items : items[k].type = "PushLibraryAddress"}}
            appended(k) == {<<Pushed(objects[n].code, start[k]) + l[1], l[2]>> : l \in of[subAssemblyById(n, items[k].data)]}
        IN  own \cup UNION {appended(k) : k \in {k \in DOMAIN items : items[k].type = "PushSub"}}
  IN  of

LinksRight ==
  \A n \in DOMAIN objects :
    (\A m \in 1 .. n : Len(objects[m].code) < Power[objects[m].dataWidth]) =>
      /\ LibraryPushes[n] = {<<at, objects[n].links[at]>> : at \in DOMAIN objects[n].links}
      /\ pc = "done" /\ n = Len(objects) =>
           /\ \A p \in LibraryPushes[n] : p[1] \in DOMAIN links \/ Cells(linked, p[1], AddressBytes) = AddressOf(p[2])
           /\ \A k \in DOMAIN linked : linked[k] # objects[n].code[k] =>
                \E p \in LibraryPushes[n] : p[1] \notin DOMAIN links /\ k - p[1] \in 1 .. AddressBytes

(* An immutable that is assigned once is written to all the places where   *)
(* the sub reads it, and none is forgotten.                                *)
Stored(n, at, end) ==
  {Pushed(objects[n].code, p + 1) : p \in {p \in at .. end - 1 : objects[n].code[p + 1] = Op("DUP1")}}

ImmutablesWritten ==
  \A n \in DOMAIN objects :
    \A s \in Range(tree[n].subs), i \in Immutables :
      LET items == tree[n].items
          to == {k \in DOMAIN items : items[k].type = "AssignImmutable" /\ items[k].name = i}
          read == {at + 1 : at \in Placed(s, Named("PushImmutable", i))}
      IN  /\ read # {} => to # {}
          /\ \A k \in to : Cardinality(to) = 1 =>
               read \subseteq Stored(n, Starts(n)[k], EndOf(items[k], objects[n].code, Starts(n)[k]))
=============================================================================
