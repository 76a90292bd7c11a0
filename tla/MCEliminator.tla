---------------------------- MODULE MCEliminator ----------------------------
(* The eliminator on small words: KnownState together with the generator.  *)
EXTENDS CSECodeGenerator

(* Neighbouring slots and overlapping words differ.                        *)
Found == [storage |-> [a \in Word |-> (a + 1) % Modulus], memory |-> [a \in Word |-> (a \div 2) % Base]]

MCInitial      == {Found}
StorageChanged == {[Found EXCEPT !.storage = [a \in Word |-> 0]]}
MemoryChanged  == {[Found EXCEPT !.memory = [a \in Word |-> 1]]}
=============================================================================
