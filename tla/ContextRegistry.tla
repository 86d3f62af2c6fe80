--------------------------- MODULE ContextRegistry ---------------------------
(***************************************************************************)
(* The registry of the contexts a call went through                        *)
(* (src/semantic/sa_suport.c).  The table context_queue is a function from *)
(* the names it holds to their entries: names are unique in the table and  *)
(* nothing depends on their order.  How often a floor was used is left     *)
(* out: no code reads it.                                                  *)
(*                                                                         *)
(* A context name such as "price" is a main context; ".price" and          *)
(* "price.deep" belong to "price".  MainOf is what abstract_main_context   *)
(* makes of a name, Stripped is the name without a leading dot.            *)
(***************************************************************************)
EXTENDS Integers, FiniteSets

CONSTANTS
  ContextName,          \* the names of contexts
  MainOf, Stripped,     \* functions on names
  Level,                \* the characters a row has as its level
  Introduce, Purpose, Redeem,  \* '1'.., 'A'.., 'a'..: the classes of levels
  Unrecorded,           \* '0' and '@'
  MaxContexts,          \* MAX_CONTEX
  MaxFloors             \* MAX_FLOOR

ASSUME RegistryAssumption ==
  /\ MainOf \in [ContextName -> ContextName]
  /\ Stripped \in [ContextName -> ContextName]
  /\ Introduce \cup Purpose \cup Redeem \cup Unrecorded \subseteq Level
  /\ MaxContexts \in Nat /\ MaxFloors \in Nat \ {0}

ContextType == {"ct_null", "ct_introduce", "ct_purpose", "ct_redeem"}
Entry == [ct_type : ContextType, floors : SUBSET Level]
IsRegistry(q) == DOMAIN q \subseteq ContextName /\ \A c \in DOMAIN q : q[c] \in Entry
EmptyRegistry == [c \in {} |-> [ct_type |-> "ct_null", floors |-> {}]]

StartsWithDot(c) == Stripped[c] # c
HasDot(c) == MainOf[c] # c

\* The type a level gives to its context.
ClassOf(level, old) == IF level \in Introduce THEN "ct_introduce"
                       ELSE IF level \in Purpose THEN "ct_purpose"
                       ELSE IF level \in Redeem THEN "ct_redeem"
                       ELSE old

\* A mutant: one floor more than there is room for.
SetFloorOver(entry, level) ==
  [ct_type |-> ClassOf(level, entry.ct_type),
   floors |-> IF Cardinality(entry.floors) <= MaxFloors
              THEN entry.floors \cup {level} ELSE entry.floors]

\* set_floor: the type changes even if the floor no longer fits in.
SetFloor(entry, level) ==
  [ct_type |-> ClassOf(level, entry.ct_type),
   floors |-> IF Cardinality(entry.floors) < MaxFloors
              THEN entry.floors \cup {level} ELSE entry.floors]

\* set_used_floor: the table after a row of this level was played in context c.
UsedFloor(q, c, level) ==
  LET n == MainOf[c]
      old == IF n \in DOMAIN q THEN q[n] ELSE [ct_type |-> "ct_null", floors |-> {}]
  IN  IF \/ level \in Unrecorded
         \/ n \notin DOMAIN q /\ Cardinality(DOMAIN q) >= MaxContexts
      THEN q
      ELSE [m \in DOMAIN q \cup {n} |-> IF m = n THEN SetFloor(old, level) ELSE q[m]]

IsUsed(q, c) == Stripped[c] \in DOMAIN q
IsPurpose(q, c) == c \in DOMAIN q /\ q[c].ct_type = "ct_purpose"
UsedFloors(q, c) == IF c \in DOMAIN q THEN Cardinality(q[c].floors) ELSE 0
=============================================================================
