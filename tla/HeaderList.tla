----------------------------- MODULE HeaderList -----------------------------
(* What the header functions of an event promise: an event is a sequence of  *)
(* headers, and one call adds one header at an end, changes the first header *)
(* of a name, or takes out headers of one name.  Nothing else ever moves.    *)
EXTENDS Sequences, Naturals

VARIABLES list   \* the headers in order: records of name, value and array

Init == list = <<>>

(* A header joins at the end, or in front of all the others. *)
Added(old, new) == /\ Len(new) = Len(old) + 1
                   /\ \/ SubSeq(new, 1, Len(old)) = old
                      \/ Tail(new) = old

(* The first header of a name gets other contents and stays where it is. *)
Changed(old, new) ==
    /\ Len(new) = Len(old)
    /\ \E i \in DOMAIN old :
         /\ \A j \in DOMAIN old : IF j = i THEN new[j].name = old[j].name
                                           ELSE new[j] = old[j]
         /\ \A j \in 1 .. i - 1 : old[j].name # old[i].name

(* The headers at some places stay, in their order. *)
Keeps(old, new, places) ==
    \E from \in [DOMAIN new -> DOMAIN old] :
      /\ \A i, j \in DOMAIN new : i < j => from[i] < from[j]
      /\ \A i \in DOMAIN new : new[i] = old[from[i]]
      /\ {from[i] : i \in DOMAIN new} = places

(* Headers of one name go: all of them, or those that have one value. *)
Removed(old, new) ==
    \E i \in DOMAIN old :
      \/ Keeps(old, new, {j \in DOMAIN old : old[j].name # old[i].name})
      \/ Keeps(old, new, {j \in DOMAIN old : \/ old[j].name # old[i].name
                                            \/ old[j].value # old[i].value})

(* The event is destroyed and another one begun. *)
Emptied(new) == new = <<>>

Step(old, new) == \/ Emptied(new)
                  \/ Added(old, new)
                  \/ Changed(old, new)
                  \/ Removed(old, new)

Next == \E old \in {list}, new \in {list'} : Step(old, new)

Spec == Init /\ [][Next]_list
=============================================================================
