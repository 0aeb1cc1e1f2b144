-------------------------------- MODULE Delivery --------------------------------
(***************************************************************************)
(* What a RAPIO program promises to those who read its products, whatever  *)
(* the files and connections between them: versions of a product replace   *)
(* each other as a whole, a notice is given only of a version that is in   *)
(* place, and who follows a notice finds that version or a later one.      *)
(* Nothing is promised about how many versions are announced.              *)
(***************************************************************************)
EXTENDS Naturals

CONSTANT Names                 \* the products, by the names they are read under

VARIABLES store,               \* the version in place of each name, 0 for none
          told,                \* the notices [name, v] given so far
          read                 \* [name, v, saw]: a notice followed, and what it led to

Notice == [name : Names, v : Nat \ {0}]
Reading == [name : Names, v : Nat \ {0}, saw : Nat \ {0}]

DInit == /\ store = [n \in Names |-> 0]
         /\ told = {}
         /\ read = {}

Publish(n) == /\ store'[n] \in Nat /\ store'[n] > store[n]
              /\ store' = [store EXCEPT ![n] = store'[n]]
              /\ UNCHANGED <<told, read>>

Announce(n) == /\ \E v \in 1..store[n] : told' = told \cup {[name |-> n, v |-> v]}
               /\ UNCHANGED <<store, read>>

Follow(t) == /\ t.v <= store[t.name]
             /\ read' = read \cup {[name |-> t.name, v |-> t.v, saw |-> store[t.name]]}
             /\ UNCHANGED <<store, told>>

DNext == \/ \E n \in Names : Publish(n) \/ Announce(n)
         \/ \E t \in told : Follow(t)

DSpec == DInit /\ [][DNext]_<<store, told, read>>
==============================================================================
