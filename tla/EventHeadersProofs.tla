------------------------- MODULE EventHeadersProofs -------------------------
(***************************************************************************)
(* Proofs about the list of headers of an event, for any names and parts,  *)
(* any number of headers and arrays of any length.                         *)
(*                                                                         *)
(* Sound says that the pointers of an event describe one list: there is a  *)
(* sequence of places that the walk goes through, and it holds each header *)
(* once.  There is one lemma per function of esl_event.c: from a sound     *)
(* event it makes a sound one, and what it does to the list is a step of   *)
(* HeaderList.                                                             *)
(*                                                                         *)
(* What a copy says is read off lists, without pointers.  Copying adds the *)
(* headers of a list to an empty one, so it leaves a list that is Tidy: an *)
(* array is the first of its name, a value begins with a part and is what  *)
(* its array prints.  On such a list copying again loses nothing.          *)
(***************************************************************************)
EXTENDS EventHeaders, FiniteSetTheorems, SequenceTheorems, WellFoundedInduction, TLAPS

\* What stands in headers: what callers give, and what copying writes itself.
Name == HeaderNames \cup {"priority", "Content-Length"}
Piece == Parts \cup {"", "_undef_", "length"}
Text == Seq(Piece) \ {<<>>}
Cell == [name : Name \cup {NoName}, value : Text,
         array : Seq(Piece), next : Nat]
Event == [headers : Nat, last : Nat, cells : Seq(Cell), body : Bodies]

\* w is the list of the places of the headers of e.
Chain(e, w) ==
  /\ \A k \in 1 .. Len(w) : w[k] \in 1 .. Len(e.cells)
  /\ \A j, k \in 1 .. Len(w) : w[j] = w[k] => j = k
  /\ \A k \in 1 .. Len(w) :
       e.cells[w[k]].next = IF k = Len(w) THEN NULL ELSE w[k + 1]
  /\ e.headers = IF Len(w) = 0 THEN NULL ELSE w[1]
  /\ e.last = IF Len(w) = 0 THEN NULL ELSE w[Len(w)]
  /\ \A k \in 1 .. Len(w) : e.cells[w[k]].name # NoName
  /\ \A i \in 1 .. Len(e.cells) :
       (\A k \in 1 .. Len(w) : w[k] # i) => e.cells[i] = Freed

Sound(e) == e \in Event /\ \E w \in Seq(Nat) : Chain(e, w)

-----------------------------------------------------------------------------
(* Loops.  Each is a function on 0 .. n defined from its value before: there *)
(* is one, and what each turn keeps holds along it.                          *)

LEMMA Least ==
  ASSUME NEW T, T \subseteq Nat, T # {}
  PROVE  \E x \in T : \A y \in T : x <= y
<1>1. PICK x \in T : \A y \in T : <<y, x>> \notin OpToRel(<, Nat)
  BY WFMin, NatLessThanWellFounded
<1>2. \A y, z \in Nat : y < z => <<y, z>> \in OpToRel(<, Nat)
  BY DEF OpToRel
<1>3. ASSUME NEW y \in T PROVE x <= y
  <2>1. x \in Nat /\ y \in Nat
    OBVIOUS
  <2>2. ~(y < x)
    BY <1>1, <1>2, <2>1
  <2> QED BY <2>1, <2>2
<1> QED BY <1>3

\* Numbers up to n that a step leads on from one to the next.
Inductive(S, n) == 0 \in S /\ \A m \in Nat : m \in S /\ m < n => m + 1 \in S

LEMMA UpTo ==
  ASSUME NEW n \in Nat, NEW S, Inductive(S, n)
  PROVE  \A m \in 0 .. n : m \in S
<1> SUFFICES ASSUME NEW m \in 0 .. n, m \notin S PROVE FALSE
  OBVIOUS
<1> DEFINE T == {i \in 0 .. n : i \notin S}
<1>1. T \subseteq Nat /\ m \in T
  OBVIOUS
<1> HIDE DEF T
<1>2. \E x \in T : \A y \in T : x <= y
  BY <1>1, Least
<1> USE DEF T
<1>3. PICK x \in T : \A y \in T : x <= y
  BY <1>2
<1>4. x \in Nat /\ x <= n /\ x \notin S
  OBVIOUS
<1>5. x # 0
  BY <1>4 DEF Inductive
<1>6. x - 1 \in Nat /\ x - 1 < n /\ x - 1 \in 0 .. n /\ ~(x <= x - 1)
  BY <1>4, <1>5
<1>7. x - 1 \in S
  BY <1>3, <1>6
<1>8. (x - 1) + 1 \in S
  BY <1>6, <1>7 DEF Inductive
<1> QED BY <1>4, <1>8

\* f goes through n turns, the k-th of which is F[k], from a.
Runs(f, F, a, n) ==
  f = [k \in 0 .. n |-> IF k = 0 THEN a ELSE F[k][f[k - 1]]]

LEMMA LoopExists ==
  ASSUME NEW n \in Nat, NEW F, NEW a
  PROVE  \E f : Runs(f, F, a, n)
<1> DEFINE S == {m \in Nat : \E f : Runs(f, F, a, m)}
<1>1. Inductive(S, n)
  <2>1. \E f : Runs(f, F, a, 0)
    <3>1. Runs([k \in 0 .. 0 |-> a], F, a, 0)
      BY DEF Runs
    <3> QED BY <3>1
  <2>2. ASSUME NEW m \in Nat, NEW f, Runs(f, F, a, m)
        PROVE  \E g : Runs(g, F, a, m + 1)
    <3> DEFINE g == [k \in 0 .. m + 1 |-> IF k = m + 1 THEN F[m + 1][f[m]] ELSE f[k]]
    <3>1. \A k \in 0 .. m : g[k] = f[k] /\ f[k] = IF k = 0 THEN a ELSE F[k][f[k - 1]]
      BY <2>2 DEF Runs
    <3>2. ASSUME NEW k \in 0 .. m + 1
          PROVE  (IF k = m + 1 THEN F[m + 1][f[m]] ELSE f[k])
                   = IF k = 0 THEN a ELSE F[k][g[k - 1]]
      <4>1. CASE k = m + 1
        <5>1. k # 0 /\ k - 1 = m /\ m \in 0 .. m
          BY <4>1
        <5>2. g[k - 1] = f[m]
          BY <3>1, <5>1
        <5> HIDE DEF g
        <5> QED BY <4>1, <5>1, <5>2
      <4>2. CASE k # m + 1 /\ k # 0
        <5>1. k \in 0 .. m /\ k - 1 \in 0 .. m
          BY <4>2
        <5> HIDE DEF g
        <5> QED BY <3>1, <4>2, <5>1
      <4>3. CASE k # m + 1 /\ k = 0
        <5>1. k \in 0 .. m
          BY <4>3
        <5> HIDE DEF g
        <5> QED BY <3>1, <4>3, <5>1
      <4> QED BY <4>1, <4>2, <4>3
    <3>3. Runs(g, F, a, m + 1)
      BY <3>2 DEF Runs
    <3> QED BY <3>3
  <2>3. ASSUME NEW m \in Nat, m \in S, m < n PROVE m + 1 \in S
    BY <2>2, <2>3
  <2> HIDE DEF S
  <2>4. 0 \in S
    BY <2>1 DEF S
  <2> QED BY <2>3, <2>4 DEF Inductive
<1>2. n \in S
  <2> HIDE DEF S
  <2>1. n \in 0 .. n
    OBVIOUS
  <2> QED BY <1>1, <2>1, UpTo
<1> QED BY <1>2

\* What holds at the start and is handed on from turn to turn.
LEMMA LoopKeeps ==
  ASSUME NEW n \in Nat, NEW g, NEW X, g[0] \in X[0],
         \A k \in 1 .. n : g[k - 1] \in X[k - 1] => g[k] \in X[k]
  PROVE  \A k \in 0 .. n : g[k] \in X[k]
<1> DEFINE S == {m \in Nat : g[m] \in X[m]}
<1>1. 0 \in S
  OBVIOUS
<1>2. ASSUME NEW m \in Nat, m \in S, m < n PROVE m + 1 \in S
  <2>1. m + 1 \in 1 .. n /\ (m + 1) - 1 = m
    BY <1>2
  <2>2. g[(m + 1) - 1] \in X[(m + 1) - 1] => g[m + 1] \in X[m + 1]
    BY <2>1
  <2> QED BY <1>2, <2>1, <2>2
<1> HIDE DEF S
<1>3. \A m \in 0 .. n : m \in S
  BY <1>1, <1>2, UpTo DEF Inductive
<1> QED BY <1>3 DEF S

\* Such a loop with its turns inside the sets X.
LEMMA LoopRuns ==
  ASSUME NEW n \in Nat, NEW F, NEW a, NEW X, a \in X[0],
         \A k \in 1 .. n : \A x \in X[k - 1] : F[k][x] \in X[k]
  PROVE  \E f : Runs(f, F, a, n) /\ \A k \in 0 .. n : f[k] \in X[k]
<1>1. PICK f : Runs(f, F, a, n)
  BY LoopExists
<1>2. f[0] = a /\ \A k \in 1 .. n : f[k] = F[k][f[k - 1]]
  BY <1>1 DEF Runs
<1>3. \A k \in 0 .. n : f[k] \in X[k]
  BY <1>2, LoopKeeps
<1> QED BY <1>1, <1>3

-----------------------------------------------------------------------------
(* The walk goes through the list.                                           *)

LEMMA ChainFits ==
  ASSUME NEW e \in Event, NEW w \in Seq(Nat), Chain(e, w)
  PROVE  Len(w) \in Nat /\ Len(e.cells) \in Nat /\ Len(w) <= Len(e.cells)
<1>1. Len(w) \in Nat /\ e.cells \in Seq(Cell)
  BY DEF Event
<1>2. Len(e.cells) \in Nat
  BY <1>1
<1> DEFINE P == 1 .. Len(w)
           Q == 1 .. Len(e.cells)
           f == [k \in P |-> w[k]]
<1>3. ASSUME Len(w) > Len(e.cells) PROVE FALSE
  <2>0. ASSUME NEW n \in Nat
        PROVE  IsFiniteSet(1 .. n) /\ Cardinality(1 .. n) = n
    <3>1. /\ IsFiniteSet(1 .. n)
          /\ Cardinality(1 .. n) = IF 1 > n THEN 0 ELSE n - 1 + 1
      <4>1. 1 \in Int /\ n \in Int
        OBVIOUS
      <4> QED BY <4>1, FS_Interval, Zenon
    <3> QED BY <3>1
  <2>1. IsFiniteSet(P) /\ Cardinality(P) = Len(w)
    BY <1>1, <2>0
  <2>2. IsFiniteSet(Q) /\ Cardinality(Q) = Len(e.cells)
    BY <1>2, <2>0
  <2>3. f \in [P -> Q] /\ \A j, k \in P : f[j] = f[k] => j = k
    BY DEF Chain
  <2> HIDE DEF P, Q, f
  <2>4. Cardinality(Q) < Cardinality(P)
    BY <1>1, <1>2, <1>3, <2>1, <2>2
  <2>5. \E j, k \in P : j # k /\ f[j] = f[k]
    BY <2>1, <2>2, <2>3, <2>4, FS_PigeonHole
  <2> QED BY <2>3, <2>5
<1> QED BY <1>1, <1>2, <1>3

\* The functions in Walk: what is met in k steps from place c.
Steps(e, from) ==
  from = [k \in 0 .. Len(e.cells) |->
            [c \in {NULL} \cup DOMAIN e.cells |->
               IF k = 0 \/ c = NULL THEN <<>> ELSE <<c>> \o from[k - 1][e.cells[c].next]]]

LEMMA ChainCloses ==
  ASSUME NEW e \in Event, NEW w \in Seq(Nat), Chain(e, w), NEW c \in 1 .. Len(e.cells)
  PROVE  e.cells[c].next \in {NULL} \cup 1 .. Len(e.cells)
<1>1. CASE \E k \in 1 .. Len(w) : w[k] = c
  <2>1. PICK k \in 1 .. Len(w) : w[k] = c
    BY <1>1
  <2>2. CASE k = Len(w)
    BY <2>1, <2>2 DEF Chain
  <2>3. CASE k # Len(w)
    <3>1. k + 1 \in 1 .. Len(w)
      BY <2>3
    <3> QED BY <2>1, <2>3, <3>1 DEF Chain
  <2> QED BY <2>2, <2>3
<1>2. CASE \A k \in 1 .. Len(w) : w[k] # c
  <2>1. e.cells[c] = Freed
    BY <1>2 DEF Chain
  <2> QED BY <2>1 DEF Freed
<1> QED BY <1>1, <1>2

LEMMA StepsExist ==
  ASSUME NEW e \in Event, NEW w \in Seq(Nat), Chain(e, w)
  PROVE  \E from : Steps(e, from)
<1> DEFINE N == Len(e.cells)
           C == {NULL} \cup DOMAIN e.cells
           a == [c \in C |-> <<>>]
           G(x, c) == IF c = NULL THEN <<>> ELSE <<c>> \o x[e.cells[c].next]
           T == [C -> Seq(Nat)]
           F == [k \in 1 .. N |-> [x \in T |-> [c \in C |-> G(x, c)]]]
           X == [k \in 0 .. N |-> T]
<1>1. N \in Nat /\ DOMAIN e.cells = 1 .. N /\ C = {NULL} \cup 1 .. N
  BY DEF Event
<1>2. a \in T
  OBVIOUS
<1>3. ASSUME NEW x \in T PROVE [c \in C |-> G(x, c)] \in T
  <2>1. ASSUME NEW c \in C PROVE G(x, c) \in Seq(Nat)
    <3>1. CASE c = NULL
      BY <3>1
    <3>2. CASE c # NULL
      <4>1. c \in 1 .. N
        BY <1>1, <3>2
      <4>2. e.cells[c].next \in C
        BY <1>1, <4>1, ChainCloses
      <4>3. <<c>> \in Seq(Nat) /\ x[e.cells[c].next] \in Seq(Nat)
        BY <4>1, <4>2
      <4> HIDE DEF C, T
      <4> QED BY <3>2, <4>3
    <3> QED BY <3>1, <3>2
  <2> HIDE DEF G, C
  <2> QED BY <2>1
<1> HIDE DEF G, C
<1>4. a \in X[0] /\ \A k \in 1 .. N : \A x \in X[k - 1] : F[k][x] \in X[k]
  <2>1. a \in X[0]
    <3>1. 0 \in 0 .. N
      BY <1>1
    <3>2. X[0] = T
      BY <3>1
    <3> QED BY <1>2, <3>2
  <2>2. ASSUME NEW k \in 1 .. N, NEW x \in X[k - 1] PROVE F[k][x] \in X[k]
    <3>1. k \in 0 .. N /\ k - 1 \in 0 .. N
      BY <1>1
    <3>2. X[k - 1] = T /\ X[k] = T
      BY <3>1
    <3>3. x \in T
      BY <3>2
    <3>4. F[k][x] = [c \in C |-> G(x, c)]
      BY <3>3
    <3> HIDE DEF F, T, X
    <3> QED BY <1>3, <3>2, <3>3, <3>4
  <2> QED BY <2>1, <2>2
<1>5. PICK f : Runs(f, F, a, N) /\ \A k \in 0 .. N : f[k] \in X[k]
  <2> HIDE DEF F, T, X, a, N
  <2> QED BY <1>1, <1>4, LoopRuns
<1>6. \A k \in 0 .. N : f[k] \in T
  BY <1>5
<1>7. f = [k \in 0 .. N |-> IF k = 0 THEN a ELSE F[k][f[k - 1]]]
  BY <1>5 DEF Runs
<1>8. ASSUME NEW k \in 0 .. N
      PROVE  (IF k = 0 THEN a ELSE F[k][f[k - 1]])
               = [c \in C |-> IF k = 0 \/ c = NULL THEN <<>>
                              ELSE <<c>> \o f[k - 1][e.cells[c].next]]
  <2>1. CASE k = 0
    BY <2>1
  <2>2. CASE k # 0
    <3>1. k \in 1 .. N /\ k - 1 \in 0 .. N
      BY <1>1, <2>2
    <3>2. f[k - 1] \in T
      BY <1>6, <3>1
    <3>3. F[k][f[k - 1]] = [c \in C |-> G(f[k - 1], c)]
      <4> HIDE DEF T
      <4> QED BY <3>1, <3>2
    <3> HIDE DEF F, T
    <3> QED BY <2>2, <3>3 DEF G
  <2> QED BY <2>1, <2>2
<1>9. f = [k \in 0 .. N |->
             [c \in C |-> IF k = 0 \/ c = NULL THEN <<>>
                          ELSE <<c>> \o f[k - 1][e.cells[c].next]]]
  <2> HIDE DEF F, a, N
  <2> QED BY <1>7, <1>8
<1>10. Steps(e, f)
  BY <1>9 DEF Steps, C
<1> QED BY <1>10

\* A list from its i-th place on.
Rest(w, i) == [k \in 1 .. Len(w) - i + 1 |-> w[i + k - 1]]

LEMMA RestFacts ==
  ASSUME NEW w \in Seq(Nat), NEW i \in 1 .. Len(w)
  PROVE  /\ Rest(w, 1) = w
         /\ i = Len(w) => Rest(w, i) = <<w[i]>> \o <<>>
         /\ i < Len(w) => Rest(w, i) = <<w[i]>> \o Rest(w, i + 1)
<1>1. Len(w) \in Nat /\ i \in Nat /\ 1 <= i /\ i <= Len(w)
  OBVIOUS
<1>2. ASSUME NEW j \in 1 .. Len(w) + 1
      PROVE  /\ Rest(w, j) \in Seq(Nat) /\ Len(Rest(w, j)) = Len(w) - j + 1
             /\ \A k \in 1 .. Len(w) - j + 1 : Rest(w, j)[k] = w[j + k - 1]
  <2>1. Len(w) - j + 1 \in Nat /\ \A k \in 1 .. Len(w) - j + 1 : w[j + k - 1] \in Nat
    BY <1>1
  <2> QED BY <2>1 DEF Rest
<1>3. Rest(w, 1) = w
  <2>1. /\ Rest(w, 1) \in Seq(Nat) /\ Len(Rest(w, 1)) = Len(w)
        /\ \A k \in 1 .. Len(Rest(w, 1)) : Rest(w, 1)[k] = w[k]
    BY <1>1, <1>2
  <2> QED BY <2>1, SeqEqual
<1>4. ASSUME i = Len(w) PROVE Rest(w, i) = <<w[i]>> \o <<>>
  <2>1. /\ Rest(w, i) \in Seq(Nat) /\ Len(Rest(w, i)) = 1 /\ Rest(w, i)[1] = w[i]
    <3>1. /\ Len(w) + 1 - 1 = Len(w) /\ i \in 1 .. Len(w) + 1 /\ Len(w) - i + 1 = 1
          /\ i + 1 - 1 = i /\ 1 \in 1 .. 1
      BY <1>1, <1>4
    <3>2. /\ Rest(w, i) \in Seq(Nat) /\ Len(Rest(w, i)) = Len(w) - i + 1
          /\ \A k \in 1 .. Len(w) - i + 1 : Rest(w, i)[k] = w[i + k - 1]
      BY <1>2, <3>1
    <3>3. Rest(w, i)[1] = w[i + 1 - 1]
      BY <3>1, <3>2
    <3> QED BY <3>1, <3>2, <3>3
  <2>2. <<w[i]>> \o <<>> = <<w[i]>> /\ <<w[i]>> \in Seq(Nat) /\ Len(<<w[i]>>) = 1
    BY <1>1
  <2>3. \A k \in 1 .. 1 : Rest(w, i)[k] = <<w[i]>>[k]
    BY <2>1
  <2>4. Rest(w, i) = <<w[i]>>
    BY <2>1, <2>2, <2>3, SeqEqual
  <2> QED BY <2>2, <2>4
<1>5. ASSUME i < Len(w) PROVE Rest(w, i) = <<w[i]>> \o Rest(w, i + 1)
  <2>1. /\ i + 1 \in 1 .. Len(w) + 1 /\ i \in 1 .. Len(w) + 1 /\ <<w[i]>> \in Seq(Nat)
        /\ Len(w) - i + 1 = (Len(w) - (i + 1) + 1) + 1
    BY <1>1, <1>5
  <2>2. /\ Rest(w, i) \in Seq(Nat) /\ Rest(w, i + 1) \in Seq(Nat)
        /\ Len(Rest(w, i)) = Len(Rest(w, i + 1)) + 1
        /\ Len(Rest(w, i + 1)) = Len(w) - i
    <3>1. Rest(w, i) \in Seq(Nat) /\ Len(Rest(w, i)) = Len(w) - i + 1
      BY <1>2, <2>1
    <3>2. Rest(w, i + 1) \in Seq(Nat) /\ Len(Rest(w, i + 1)) = Len(w) - (i + 1) + 1
      BY <1>2, <2>1
    <3>3. /\ Len(w) - i + 1 = (Len(w) - (i + 1) + 1) + 1
          /\ Len(w) - (i + 1) + 1 = Len(w) - i
      BY <1>1
    <3> QED BY <3>1, <3>2, <3>3, Zenon
  <2> DEFINE t == <<w[i]>> \o Rest(w, i + 1)
  <2>3. /\ t \in Seq(Nat) /\ Len(t) = Len(Rest(w, i + 1)) + 1
        /\ \A k \in 1 .. Len(t) : t[k] = IF k = 1 THEN w[i] ELSE Rest(w, i + 1)[k - 1]
    <3> DEFINE r == Rest(w, i + 1)
    <3>1. <<w[i]>> \in Seq(Nat) /\ r \in Seq(Nat) /\ Len(r) \in Nat
      BY <2>1, <2>2
    <3> HIDE DEF r
    <3>2. /\ <<w[i]>> \o r \in Seq(Nat) /\ Len(<<w[i]>> \o r) = Len(r) + 1
          /\ \A k \in 1 .. Len(r) + 1 :
               (<<w[i]>> \o r)[k] = IF k = 1 THEN w[i] ELSE r[k - 1]
      BY <3>1
    <3> QED BY <3>2 DEF r
  <2> HIDE DEF t
  <2>4. ASSUME NEW k \in 1 .. Len(Rest(w, i)) PROVE Rest(w, i)[k] = t[k]
    <3>1. Rest(w, i)[k] = w[i + k - 1]
      BY <1>1, <1>2, <2>1, <2>2
    <3>2. CASE k = 1
      BY <1>1, <2>2, <2>3, <3>1, <3>2
    <3>3. CASE k # 1
      <4>1. k - 1 \in 1 .. Len(w) - (i + 1) + 1 /\ (i + 1) + (k - 1) - 1 = i + k - 1
        BY <1>1, <2>2, <3>3
      <4>2. Rest(w, i + 1)[k - 1] = w[(i + 1) + (k - 1) - 1]
        BY <1>2, <2>1, <4>1
      <4> QED BY <2>2, <2>3, <3>1, <3>3, <4>1, <4>2
    <3> QED BY <3>2, <3>3
  <2>5. Rest(w, i) = t
    BY <2>2, <2>3, <2>4, SeqEqual
  <2> QED BY <2>5 DEF t
<1> QED BY <1>3, <1>4, <1>5

LEMMA WalkIsChain ==
  ASSUME NEW e \in Event, NEW w \in Seq(Nat), Chain(e, w)
  PROVE  Walk(e) = w
<1> DEFINE N == Len(e.cells)
           n == Len(w)
<1>1. N \in Nat /\ n \in Nat /\ n <= N /\ DOMAIN e.cells = 1 .. N
  BY ChainFits DEF Event
<1>2. PICK from : Steps(e, from) /\ Walk(e) = from[N][e.headers]
  <2> DEFINE g == CHOOSE from : Steps(e, from)
  <2>1. Steps(e, g)
    BY StepsExist
  <2>2. Walk(e) = g[N][e.headers]
    BY DEF Walk, Steps
  <2> QED BY <2>1, <2>2
<1>3. ASSUME NEW k \in 0 .. N, NEW c \in {NULL} \cup 1 .. N
      PROVE  from[k][c] = IF k = 0 \/ c = NULL THEN <<>>
                          ELSE <<c>> \o from[k - 1][e.cells[c].next]
  <2>1. from[k] = [d \in {NULL} \cup DOMAIN e.cells |->
                     IF k = 0 \/ d = NULL THEN <<>>
                     ELSE <<d>> \o from[k - 1][e.cells[d].next]]
    BY <1>2 DEF Steps
  <2>2. c \in {NULL} \cup DOMAIN e.cells
    BY <1>1
  <2> QED BY <2>1, <2>2
<1> HIDE DEF N
<1> DEFINE S == {k \in Nat : \A i \in 1 .. n : n - i + 1 <= k => from[k][w[i]] = Rest(w, i)}
<1>4. Inductive(S, N)
  <2>1. 0 \in S
    BY <1>1
  <2>2. ASSUME NEW k \in Nat, k \in S, k < N PROVE k + 1 \in S
    <3>1. ASSUME NEW i \in 1 .. n, n - i + 1 <= k + 1
          PROVE  from[k + 1][w[i]] = Rest(w, i)
      <4>1. k + 1 \in 0 .. N /\ k + 1 # 0 /\ (k + 1) - 1 = k /\ k \in 0 .. N
        BY <1>1, <2>2
      <4>2. w[i] \in 1 .. N /\ w[i] # NULL
        BY <1>1 DEF Chain, N, NULL
      <4>3. from[k + 1][w[i]] = <<w[i]>> \o from[k][e.cells[w[i]].next]
        <5>1. from[k + 1][w[i]] = IF k + 1 = 0 \/ w[i] = NULL THEN <<>>
                ELSE <<w[i]>> \o from[(k + 1) - 1][e.cells[w[i]].next]
          BY <1>3, <4>1, <4>2
        <5> QED BY <4>1, <4>2, <5>1
      <4>4. CASE i = n
        <5>1. e.cells[w[i]].next = NULL
          BY <4>4 DEF Chain
        <5>2. from[k][NULL] = <<>>
          BY <1>3, <4>1
        <5>3. Rest(w, i) = <<w[i]>> \o <<>>
          BY <4>4, RestFacts
        <5> QED BY <4>3, <5>1, <5>2, <5>3
      <4>5. CASE i # n
        <5>1. i + 1 \in 1 .. n /\ n - (i + 1) + 1 <= k /\ i < n
          <6>1. n \in Nat /\ k \in Nat /\ i \in Nat /\ 1 <= i /\ i <= n
            BY <1>1, <2>2, <3>1
          <6> HIDE DEF n
          <6> QED BY <3>1, <4>5, <6>1
        <5>2. e.cells[w[i]].next = w[i + 1]
          BY <4>5 DEF Chain
        <5>3. from[k][w[i + 1]] = Rest(w, i + 1)
          BY <2>2, <5>1
        <5>4. Rest(w, i) = <<w[i]>> \o Rest(w, i + 1)
          BY <5>1, RestFacts
        <5> QED BY <4>3, <5>2, <5>3, <5>4
      <4> QED BY <4>4, <4>5
    <3> HIDE DEF n
    <3> QED BY <3>1
  <2> QED BY <2>1, <2>2 DEF Inductive
<1>5. N \in S
  <2>1. N \in 0 .. N
    BY <1>1
  <2> HIDE DEF S
  <2> QED BY <1>1, <1>4, <2>1, UpTo
<1>6. CASE n = 0
  <2>1. e.headers = NULL /\ w = <<>>
    BY <1>6 DEF Chain
  <2>2. from[N][NULL] = <<>>
    <3>1. N \in 0 .. N /\ NULL \in {NULL} \cup 1 .. N
      BY <1>1
    <3> QED BY <1>3, <3>1
  <2> QED BY <1>2, <2>1, <2>2 DEF N
<1>7. CASE n # 0
  <2>1. e.headers = w[1] /\ 1 \in 1 .. n /\ n - 1 + 1 <= N
    BY <1>1, <1>7 DEF Chain
  <2>2. from[N][w[1]] = Rest(w, 1)
    BY <1>5, <2>1
  <2>3. Rest(w, 1) = w
    BY <2>1, RestFacts
  <2> QED BY <1>2, <2>1, <2>2, <2>3 DEF N
<1> QED BY <1>6, <1>7

-----------------------------------------------------------------------------
(* What is in the list.                                                      *)

Hdr(c) == [name |-> c.name, value |-> c.value, array |-> c.array]
Headers == [name : Name, value : Text, array : Seq(Piece)]

LEMMA CellFacts ==
  ASSUME NEW c \in Cell
  PROVE  /\ c.next \in Nat /\ c.value \in Text /\ c.array \in Seq(Piece)
         /\ c.name # NoName => Hdr(c) \in Headers
         /\ Hdr(c).name = c.name /\ Hdr(c).value = c.value /\ Hdr(c).array = c.array
         /\ \A m \in Nat : /\ [c EXCEPT !.next = m] \in Cell
                           /\ [c EXCEPT !.next = m].next = m
                           /\ [c EXCEPT !.next = m].name = c.name
                           /\ Hdr([c EXCEPT !.next = m]) = Hdr(c)
BY DEF Cell, Hdr, Headers

LEMMA FreedCell ==
  Freed \in Cell /\ Freed.name = NoName
<1>1. Empty \in Text
  BY DEF Empty, Text, Piece
<1> QED BY <1>1 DEF Freed, Cell, NULL

LEMMA ListedFacts ==
  ASSUME NEW e \in Event, NEW w \in Seq(Nat), Chain(e, w)
  PROVE  /\ Listed(e) \in Seq(Headers) /\ Len(Listed(e)) = Len(w)
         /\ \A k \in 1 .. Len(w) : Listed(e)[k] = Hdr(e.cells[w[k]])
<1>1. Len(w) \in Nat /\ DOMAIN w = 1 .. Len(w) /\ Walk(e) = w
  BY WalkIsChain
<1>2. Listed(e) = [k \in 1 .. Len(w) |-> Hdr(e.cells[w[k]])]
  BY <1>1 DEF Listed, Hdr
<1>3. ASSUME NEW k \in 1 .. Len(w) PROVE Hdr(e.cells[w[k]]) \in Headers
  <2>1. w[k] \in 1 .. Len(e.cells) /\ e.cells \in Seq(Cell) /\ e.cells[w[k]].name # NoName
    BY DEF Chain, Event
  <2>2. e.cells[w[k]] \in Cell
    BY <2>1
  <2> QED BY <2>1, <2>2, CellFacts
<1> QED BY <1>1, <1>2, <1>3

\* The first header of a name.
LEMMA PtrFacts ==
  ASSUME NEW e \in Event, NEW w \in Seq(Nat), Chain(e, w), NEW name
  PROVE  \/ /\ HeaderPtr(e, name) = NULL
            /\ \A k \in 1 .. Len(w) : e.cells[w[k]].name # name
         \/ /\ HeaderPtr(e, name) # NULL
            /\ \E k \in 1 .. Len(w) : /\ HeaderPtr(e, name) = w[k]
                                      /\ e.cells[w[k]].name = name
                                      /\ \A j \in 1 .. k - 1 : e.cells[w[j]].name # name
<1> DEFINE T == {k \in 1 .. Len(w) : e.cells[w[k]].name = name}
<1>1. Len(w) \in Nat /\ DOMAIN w = 1 .. Len(w) /\ Walk(e) = w
  BY WalkIsChain
<1>2. CASE T = {}
  <2>1. \A k \in 1 .. Len(w) : e.cells[w[k]].name # name
    BY <1>2
  <2> QED BY <1>1, <2>1 DEF HeaderPtr
<1>3. CASE T # {}
  <2>1. PICK k \in T : \A j \in T : k <= j
    <3>1. T \subseteq Nat
      BY <1>1
    <3> HIDE DEF T
    <3> QED BY <1>3, <3>1, Least
  <2>2. k \in 1 .. Len(w) /\ e.cells[w[k]].name = name
    OBVIOUS
  <2>3. \A j \in 1 .. k - 1 : e.cells[w[j]].name # name
    <3>1. ASSUME NEW j \in 1 .. k - 1, e.cells[w[j]].name = name PROVE FALSE
      <4>1. j \in 1 .. Len(w) /\ ~(k <= j)
        BY <1>1, <2>2
      <4>2. j \in T
        BY <3>1, <4>1
      <4> HIDE DEF T
      <4> QED BY <2>1, <4>1, <4>2
    <3> QED BY <3>1
  <2> DEFINE i == CHOOSE i \in 1 .. Len(w) : /\ e.cells[w[i]].name = name
                                             /\ \A j \in 1 .. i - 1 : e.cells[w[j]].name # name
  <2>4. /\ i \in 1 .. Len(w) /\ e.cells[w[i]].name = name
        /\ \A j \in 1 .. i - 1 : e.cells[w[j]].name # name
    <3> HIDE DEF T
    <3> QED BY <2>2, <2>3
  <2>5. HeaderPtr(e, name) = w[i]
    BY <1>1, <2>2 DEF HeaderPtr
  <2> HIDE DEF i
  <2>6. w[i] \in 1 .. Len(e.cells)
    BY <2>4 DEF Chain
  <2>7. w[i] # NULL
    BY <2>6 DEF NULL
  <2> QED BY <2>4, <2>5, <2>7
<1> QED BY <1>2, <1>3

-----------------------------------------------------------------------------
(* What a call does to the list.                                             *)

AddedLast(old, new, h) ==
  /\ Len(new) = Len(old) + 1 /\ new[Len(old) + 1] = h
  /\ \A i \in 1 .. Len(old) : new[i] = old[i]
AddedFirst(old, new, h) ==
  /\ Len(new) = Len(old) + 1 /\ new[1] = h
  /\ \A i \in 1 .. Len(old) : new[i + 1] = old[i]
ChangedFirst(old, new, name) ==
  /\ Len(new) = Len(old)
  /\ \E i \in 1 .. Len(old) :
       /\ old[i].name = name /\ new[i].name = name
       /\ \A j \in 1 .. Len(old) : j # i => new[j] = old[j]
       /\ \A j \in 1 .. i - 1 : old[j].name # name
\* The same with the header that stands there then.
Replaced(old, new, i, h) ==
  /\ Len(new) = Len(old) /\ new[i] = h
  /\ \A j \in 1 .. Len(old) : j # i => new[j] = old[j]
IsFirst(l, i, name) == l[i].name = name /\ \A j \in 1 .. i - 1 : l[j].name # name
Absent(l, name) == \A i \in 1 .. Len(l) : l[i].name # name

LEMMA NewIdFacts ==
  ASSUME NEW e \in Event
  PROVE  /\ NewId(e) \in 1 .. Len(e.cells) + 1
         /\ NewId(e) > Len(e.cells) \/ e.cells[NewId(e)] = Freed
<1> DEFINE T == {i \in 1 .. Len(e.cells) + 1 : i > Len(e.cells) \/ e.cells[i] = Freed}
<1>1. Len(e.cells) \in Nat
  BY DEF Event
<1>2. T \subseteq Nat /\ Len(e.cells) + 1 \in T
  BY <1>1
<1>3. \E x \in T : \A y \in T : x <= y
  <2> HIDE DEF T
  <2> QED BY <1>2, Least
<1>4. NewId(e) = CHOOSE x \in T : \A y \in T : x <= y
  BY DEF NewId, Min
<1>5. NewId(e) \in T
  <2> HIDE DEF T
  <2> QED BY <1>3, <1>4
<1> QED BY <1>5

LEMMA InFront ==
  ASSUME NEW w \in Seq(Nat), NEW x \in Nat
  PROVE  /\ <<x>> \o w \in Seq(Nat) /\ Len(<<x>> \o w) = Len(w) + 1
         /\ (<<x>> \o w)[1] = x
         /\ \A k \in 1 .. Len(w) : (<<x>> \o w)[k + 1] = w[k]
<1>1. <<x>> \in Seq(Nat) /\ Len(<<x>>) = 1 /\ <<x>>[1] = x /\ Len(w) \in Nat
  OBVIOUS
<1>2. <<x>> \o w \in Seq(Nat) /\ Len(<<x>> \o w) = Len(w) + 1
  BY <1>1
<1>3. (<<x>> \o w)[1] = x
  BY <1>1
<1>4. ASSUME NEW k \in 1 .. Len(w) PROVE (<<x>> \o w)[k + 1] = w[k]
  OBVIOUS
<1> QED BY <1>2, <1>3, <1>4

LEMMA LastButOne ==
  ASSUME NEW m \in Nat, NEW i \in 1 .. m, i # m
  PROVE  m - 1 \in 1 .. m - 1 /\ m - 1 # 0 /\ ~(m - 1 < i) /\ (m - 1) + 1 = m
OBVIOUS

LEMMA PlacedFacts ==
  ASSUME NEW e \in Event, NEW id \in 1 .. Len(e.cells) + 1, NEW h \in Cell
  PROVE  /\ Placed(e, id, h) \in Seq(Cell)
         /\ Len(Placed(e, id, h)) = IF id > Len(e.cells) THEN Len(e.cells) + 1 ELSE Len(e.cells)
         /\ \A i \in 1 .. Len(Placed(e, id, h)) :
              Placed(e, id, h)[i] = IF i = id THEN h ELSE e.cells[i]
<1>1. e.cells \in Seq(Cell) /\ Len(e.cells) \in Nat
  BY DEF Event
<1>2. CASE id > Len(e.cells)
  <2>1. id = Len(e.cells) + 1 /\ Placed(e, id, h) = Append(e.cells, h)
    BY <1>1, <1>2 DEF Placed
  <2> QED BY <1>1, <1>2, <2>1
<1>3. CASE ~(id > Len(e.cells))
  <2>1. Placed(e, id, h) = [e.cells EXCEPT ![id] = h] /\ id \in 1 .. Len(e.cells)
    BY <1>1, <1>3 DEF Placed
  <2>2. /\ [e.cells EXCEPT ![id] = h] \in Seq(Cell)
        /\ Len([e.cells EXCEPT ![id] = h]) = Len(e.cells)
        /\ \A i \in 1 .. Len(e.cells) :
             [e.cells EXCEPT ![id] = h][i] = IF i = id THEN h ELSE e.cells[i]
    <3> DEFINE cells == e.cells
    <3>1. cells \in Seq(Cell) /\ id \in 1 .. Len(cells)
      BY <1>1, <2>1
    <3> HIDE DEF cells
    <3>2. /\ [cells EXCEPT ![id] = h] \in Seq(Cell)
          /\ Len([cells EXCEPT ![id] = h]) = Len(cells)
          /\ \A i \in 1 .. Len(cells) :
               [cells EXCEPT ![id] = h][i] = IF i = id THEN h ELSE cells[i]
      BY <3>1
    <3> QED BY <3>2 DEF cells
  <2> QED BY <1>3, <2>1, <2>2
<1> QED BY <1>2, <1>3

LEMMA EventFacts ==
  ASSUME NEW e \in Event
  PROVE  /\ e.headers \in Nat /\ e.last \in Nat /\ e.cells \in Seq(Cell)
         /\ Len(e.cells) \in Nat /\ e.body \in Bodies
         /\ \A i \in 1 .. Len(e.cells) : e.cells[i] \in Cell
         /\ e = [headers |-> e.headers, last |-> e.last, cells |-> e.cells, body |-> e.body]
BY DEF Event

\* The cells and the ends of a list after a header was linked in at place id.
LinkedCells(e, w, id, h, c) ==
  /\ c \in Seq(Cell) /\ Len(c) >= Len(e.cells) /\ id \in 1 .. Len(c)
  /\ \A i \in 1 .. Len(c) : i # id => i \in 1 .. Len(e.cells)
  /\ c[id] = h
  /\ \A k \in 1 .. Len(w) : w[k] # id

LEMMA PlacedCells ==
  ASSUME NEW e \in Event, NEW w \in Seq(Nat), Chain(e, w), NEW h \in Cell
  PROVE  /\ LinkedCells(e, w, NewId(e), h, Placed(e, NewId(e), h))
         /\ \A i \in 1 .. Len(e.cells) : i # NewId(e) => Placed(e, NewId(e), h)[i] = e.cells[i]
<1> DEFINE id == NewId(e)
           c == Placed(e, id, h)
<1>1. /\ id \in 1 .. Len(e.cells) + 1
      /\ id > Len(e.cells) \/ e.cells[id] = Freed
  BY NewIdFacts
<1>2. /\ c \in Seq(Cell)
      /\ Len(c) = IF id > Len(e.cells) THEN Len(e.cells) + 1 ELSE Len(e.cells)
      /\ \A i \in 1 .. Len(c) : c[i] = IF i = id THEN h ELSE e.cells[i]
  BY <1>1, PlacedFacts
<1>3. Len(e.cells) \in Nat
  BY EventFacts
<1>4. ASSUME NEW k \in 1 .. Len(w) PROVE w[k] # id
  <2>1. w[k] \in 1 .. Len(e.cells) /\ e.cells[w[k]].name # NoName
    BY DEF Chain
  <2> HIDE DEF id
  <2>2. CASE id > Len(e.cells)
    BY <1>1, <1>3, <2>1, <2>2
  <2>3. CASE e.cells[id] = Freed
    BY <2>1, <2>3, FreedCell
  <2> QED BY <1>1, <2>2, <2>3
<1> HIDE DEF id, c
<1>5. id \in 1 .. Len(c) /\ Len(c) \in Nat
  BY <1>1, <1>2, <1>3
<1>6. c[id] = h
  BY <1>2, <1>5
<1>7. LinkedCells(e, w, id, h, c)
  BY <1>1, <1>2, <1>3, <1>4, <1>5, <1>6 DEF LinkedCells
<1>8. \A i \in 1 .. Len(e.cells) : i # id => c[i] = e.cells[i]
  BY <1>2, <1>3
<1> QED BY <1>7, <1>8 DEF id, c

\* A header is linked in at the end.
LEMMA LinkAtEnd ==
  ASSUME NEW e \in Event, NEW w \in Seq(Nat), Chain(e, w),
         NEW h \in Cell, h.name # NoName, h.next = NULL,
         NEW stack, stack % 2 # 1
  PROVE  /\ Sound(Linked(e, h, stack))
         /\ AddedLast(Listed(e), Listed(Linked(e, h, stack)), Hdr(h))
<1> DEFINE id == NewId(e)
           p == Placed(e, id, h)
           n == Len(w)
           N == Len(e.cells)
           c == IF e.last = NULL THEN p ELSE [p EXCEPT ![e.last].next = id]
           f == [headers |-> IF e.last = NULL THEN id ELSE e.headers, last |-> id,
                 cells |-> c, body |-> e.body]
           v == Append(w, id)
<1>1. Linked(e, h, stack) = f
  <2>1. e = [headers |-> e.headers, last |-> e.last, cells |-> e.cells, body |-> e.body]
    BY EventFacts
  <2>2. Linked(e, h, stack) = [e EXCEPT !.cells = c, !.headers = IF e.last = NULL THEN id ELSE @,
                                        !.last = id]
    BY DEF Linked
  <2> HIDE DEF c, id
  <2> QED BY <2>1, <2>2
<1>2. LinkedCells(e, w, id, h, p) /\ \A i \in 1 .. N : i # id => p[i] = e.cells[i]
  BY PlacedCells
<1>3. /\ n \in Nat /\ N \in Nat /\ w \in Seq(Nat) /\ e.body \in Bodies
      /\ e.headers \in Nat
  BY EventFacts
<1>4. /\ n = 0 => e.last = NULL /\ e.headers = NULL
      /\ n # 0 => /\ n \in 1 .. n /\ e.last = w[n] /\ w[n] \in 1 .. N /\ e.last # NULL
                  /\ e.headers = w[1]
  BY <1>3 DEF Chain, NULL
<1> HIDE DEF id, p
<1>5. /\ p \in Seq(Cell) /\ id \in 1 .. Len(p) /\ p[id] = h /\ Len(p) \in Nat /\ N <= Len(p)
      /\ id \in Nat /\ id # NULL
      /\ \A k \in 1 .. n : w[k] # id
      /\ \A i \in 1 .. Len(p) : i # id => i \in 1 .. N
  BY <1>2, <1>3 DEF LinkedCells, NULL
<1>6. /\ c \in Seq(Cell) /\ Len(c) = Len(p) /\ c[id] = h
      /\ \A i \in 1 .. N : i # id =>
           c[i] = IF n # 0 /\ i = w[n] THEN [e.cells[i] EXCEPT !.next = id] ELSE e.cells[i]
  <2>1. CASE n = 0
    BY <1>2, <1>4, <1>5, <2>1
  <2>2. CASE n # 0
    <3>1. e.last \in 1 .. N /\ e.last \in 1 .. Len(p) /\ e.last # id /\ e.last = w[n]
      BY <1>3, <1>4, <1>5, <2>2
    <3>2. p[e.last] = e.cells[e.last] /\ e.cells[e.last] \in Cell
      BY <1>2, <3>1, EventFacts
    <3>3. [p[e.last] EXCEPT !.next = id] \in Cell
      BY <1>5, <3>2, CellFacts
    <3>4. c = [p EXCEPT ![e.last] = [p[e.last] EXCEPT !.next = id]]
      BY <1>4, <2>2
    <3> HIDE DEF c
    <3>5. /\ c \in Seq(Cell) /\ Len(c) = Len(p)
          /\ \A i \in 1 .. Len(p) :
               c[i] = IF i = e.last THEN [p[e.last] EXCEPT !.next = id] ELSE p[i]
      BY <1>5, <3>1, <3>3, <3>4, ExceptSeq
    <3>6. c[id] = h
      BY <1>5, <3>1, <3>5
    <3>7. ASSUME NEW i \in 1 .. N, i # id
          PROVE  c[i] = IF n # 0 /\ i = w[n] THEN [e.cells[i] EXCEPT !.next = id] ELSE e.cells[i]
      <4>1. i \in 1 .. Len(p) /\ p[i] = e.cells[i]
        BY <1>2, <1>3, <1>5, <3>7
      <4> QED BY <2>2, <3>1, <3>2, <3>5, <4>1
    <3> QED BY <3>5, <3>6, <3>7
  <2> QED BY <2>1, <2>2
<1> HIDE DEF c
<1>7. v \in Seq(Nat) /\ Len(v) = n + 1 /\ v[n + 1] = id /\ \A k \in 1 .. n : v[k] = w[k]
  BY <1>3, <1>5
<1> HIDE DEF v
<1>8. f \in Event
  BY <1>3, <1>5, <1>6 DEF Event
<1>9. ASSUME NEW k \in 1 .. n
      PROVE  /\ w[k] \in 1 .. N /\ w[k] # id /\ w[k] \in 1 .. Len(c) /\ e.cells[w[k]] \in Cell
             /\ c[w[k]].next = (IF k = n THEN id ELSE e.cells[w[k]].next)
             /\ Hdr(c[w[k]]) = Hdr(e.cells[w[k]]) /\ c[w[k]].name = e.cells[w[k]].name
  <2>1. w[k] \in 1 .. N /\ w[k] # id /\ w[k] \in 1 .. Len(c) /\ e.cells[w[k]] \in Cell
    <3>1. w[k] \in 1 .. N
      BY DEF Chain
    <3> QED BY <1>3, <1>5, <1>6, <3>1, EventFacts
  <2>2. w[k] = w[n] <=> k = n
    BY <1>3, <1>4 DEF Chain
  <2>3. c[w[k]] = IF k = n THEN [e.cells[w[k]] EXCEPT !.next = id] ELSE e.cells[w[k]]
    <3>1. n # 0
      BY <1>3
    <3>2. c[w[k]] = IF n # 0 /\ w[k] = w[n] THEN [e.cells[w[k]] EXCEPT !.next = id]
                    ELSE e.cells[w[k]]
      BY <1>6, <2>1
    <3> QED BY <2>2, <3>1, <3>2, Zenon
  <2> QED BY <1>5, <2>1, <2>3, CellFacts
<1>10. Chain(f, v)
  <2>1. ASSUME NEW k \in 1 .. Len(v) PROVE v[k] \in 1 .. Len(c)
    <3>1. CASE k = n + 1
      BY <1>5, <1>6, <1>7, <3>1
    <3>2. CASE k \in 1 .. n
      BY <1>7, <1>9, <3>2
    <3> QED BY <1>3, <1>7, <3>1, <3>2
  <2>2. ASSUME NEW j \in 1 .. Len(v), NEW k \in 1 .. Len(v), v[j] = v[k] PROVE j = k
    <3>1. \A i \in 1 .. Len(v) : i \in 1 .. n \/ i = n + 1
      BY <1>3, <1>7
    <3>2. CASE j \in 1 .. n /\ k \in 1 .. n
      BY <1>7, <2>2, <3>2 DEF Chain
    <3>3. CASE j = n + 1 /\ k = n + 1
      BY <3>3
    <3>4. CASE j \in 1 .. n /\ k = n + 1
      BY <1>5, <1>7, <2>2, <3>4
    <3>5. CASE j = n + 1 /\ k \in 1 .. n
      BY <1>5, <1>7, <2>2, <3>5
    <3> QED BY <3>1, <3>2, <3>3, <3>4, <3>5
  <2>3. ASSUME NEW k \in 1 .. Len(v)
        PROVE  /\ c[v[k]].next = IF k = Len(v) THEN NULL ELSE v[k + 1]
               /\ c[v[k]].name # NoName
    <3>1. CASE k = n + 1
      BY <1>6, <1>7, <3>1
    <3>2. CASE k = n /\ k \in 1 .. n
      <4>1. v[k] = w[k] /\ k # Len(v) /\ k + 1 = n + 1
        BY <1>3, <1>7, <3>2
      <4>2. e.cells[w[k]].name # NoName
        BY <3>2 DEF Chain
      <4> QED BY <1>7, <1>9, <3>2, <4>1, <4>2
    <3>3. CASE k # n /\ k \in 1 .. n
      <4>1. v[k] = w[k] /\ k # Len(v) /\ k + 1 \in 1 .. n /\ v[k + 1] = w[k + 1]
        <5>1. k + 1 \in 1 .. n /\ k # n + 1
          BY <1>3, <3>3
        <5> QED BY <1>7, <3>3, <5>1
      <4>2. e.cells[w[k]].next = w[k + 1] /\ e.cells[w[k]].name # NoName
        BY <3>3 DEF Chain
      <4> QED BY <1>9, <3>3, <4>1, <4>2
    <3> QED BY <1>3, <1>7, <3>1, <3>2, <3>3
  <2>4. /\ f.headers = IF Len(v) = 0 THEN NULL ELSE v[1]
        /\ f.last = IF Len(v) = 0 THEN NULL ELSE v[Len(v)]
    <3>1. CASE n = 0
      BY <1>4, <1>7, <3>1
    <3>2. CASE n # 0
      BY <1>3, <1>4, <1>7, <3>2
    <3> QED BY <3>1, <3>2
  <2>5. ASSUME NEW i \in 1 .. Len(c), \A k \in 1 .. Len(v) : v[k] # i PROVE c[i] = Freed
    <3>1. n + 1 \in 1 .. Len(v) /\ \A k \in 1 .. n : k \in 1 .. Len(v)
      BY <1>3, <1>7
    <3>2. i # id /\ \A k \in 1 .. n : w[k] # i
      BY <1>7, <2>5, <3>1
    <3>3. i \in 1 .. N
      BY <1>5, <1>6, <3>2
    <3>4. e.cells[i] = Freed
      BY <3>2, <3>3 DEF Chain
    <3>5. ~(n # 0 /\ i = w[n])
      BY <1>4, <3>2
    <3> QED BY <1>6, <3>2, <3>3, <3>4, <3>5
  <2> QED BY <2>1, <2>2, <2>3, <2>4, <2>5 DEF Chain
<1>11. AddedLast(Listed(e), Listed(f), Hdr(h))
  <2>1. /\ Len(Listed(e)) = n /\ \A k \in 1 .. n : Listed(e)[k] = Hdr(e.cells[w[k]])
    BY ListedFacts
  <2>2. /\ Len(Listed(f)) = n + 1 /\ \A k \in 1 .. n + 1 : Listed(f)[k] = Hdr(f.cells[v[k]])
    BY <1>7, <1>8, <1>10, ListedFacts
  <2>3. \A k \in 1 .. n : Listed(f)[k] = Listed(e)[k]
    <3>1. ASSUME NEW k \in 1 .. n PROVE Listed(f)[k] = Listed(e)[k]
      <4>1. k \in 1 .. n + 1
        BY <1>3
      <4>2. Listed(f)[k] = Hdr(c[v[k]]) /\ v[k] = w[k]
        BY <1>7, <2>2, <4>1
      <4> QED BY <1>9, <2>1, <4>2
    <3> QED BY <3>1
  <2>4. Listed(f)[n + 1] = Hdr(h)
    <3>1. n + 1 \in 1 .. n + 1
      BY <1>3
    <3>2. Listed(f)[n + 1] = Hdr(c[v[n + 1]])
      BY <2>2, <3>1
    <3> QED BY <1>6, <1>7, <3>2
  <2> QED BY <2>1, <2>2, <2>3, <2>4 DEF AddedLast
<1> QED BY <1>1, <1>7, <1>8, <1>10, <1>11 DEF Sound

\* A header is linked in in front.
LEMMA LinkInFront ==
  ASSUME NEW e \in Event, NEW w \in Seq(Nat), Chain(e, w),
         NEW h \in Cell, h.name # NoName,
         NEW stack, stack % 2 = 1
  PROVE  /\ Sound(Linked(e, h, stack))
         /\ AddedFirst(Listed(e), Listed(Linked(e, h, stack)), Hdr(h))
<1> DEFINE id == NewId(e)
           g == [h EXCEPT !.next = e.headers]
           c == Placed(e, id, g)
           n == Len(w)
           N == Len(e.cells)
           f == [headers |-> id, last |-> IF e.last = NULL THEN id ELSE e.last,
                 cells |-> c, body |-> e.body]
           v == <<id>> \o w
<1>1. Linked(e, h, stack) = f
  <2>1. e = [headers |-> e.headers, last |-> e.last, cells |-> e.cells, body |-> e.body]
    BY EventFacts
  <2>2. Linked(e, h, stack) = [e EXCEPT !.cells = c, !.headers = id,
                                        !.last = IF @ = NULL THEN id ELSE @]
    BY DEF Linked
  <2> HIDE DEF c, id
  <2> QED BY <2>1, <2>2
<1>2. /\ n \in Nat /\ N \in Nat /\ w \in Seq(Nat) /\ e.body \in Bodies
      /\ e.headers \in Nat /\ e.last \in Nat
  BY EventFacts
<1>3. g \in Cell /\ g.next = e.headers /\ g.name # NoName /\ Hdr(g) = Hdr(h)
  BY <1>2, CellFacts
<1> HIDE DEF g
<1>4. LinkedCells(e, w, id, g, c) /\ \A i \in 1 .. N : i # id => c[i] = e.cells[i]
  BY <1>3, PlacedCells
<1>5. /\ n = 0 => e.last = NULL /\ e.headers = NULL
      /\ n # 0 => n \in 1 .. n /\ e.last = w[n] /\ e.last # NULL /\ e.headers = w[1]
  BY <1>2 DEF Chain, NULL
<1> HIDE DEF id, c
<1>6. /\ c \in Seq(Cell) /\ id \in 1 .. Len(c) /\ c[id] = g /\ Len(c) \in Nat /\ N <= Len(c)
      /\ id \in Nat /\ id # NULL
      /\ \A k \in 1 .. n : w[k] # id
      /\ \A i \in 1 .. Len(c) : i # id => i \in 1 .. N
  BY <1>2, <1>4 DEF LinkedCells, NULL
<1>7. v \in Seq(Nat) /\ Len(v) = n + 1 /\ v[1] = id /\ \A k \in 1 .. n : v[k + 1] = w[k]
  BY <1>6, InFront, Zenon
<1> HIDE DEF v
<1>8. f \in Event
  BY <1>2, <1>6 DEF Event
<1>9. ASSUME NEW k \in 1 .. n
      PROVE  /\ w[k] \in 1 .. Len(c) /\ w[k] # id /\ c[w[k]] = e.cells[w[k]]
             /\ e.cells[w[k]].name # NoName
             /\ e.cells[w[k]].next = IF k = n THEN NULL ELSE w[k + 1]
  <2>1. w[k] \in 1 .. N
    BY DEF Chain
  <2>2. w[k] \in 1 .. Len(c) /\ w[k] # id /\ c[w[k]] = e.cells[w[k]]
    BY <1>2, <1>4, <1>6, <2>1
  <2>3. /\ e.cells[w[k]].name # NoName
        /\ e.cells[w[k]].next = IF k = n THEN NULL ELSE w[k + 1]
    BY Zenon DEF Chain
  <2> QED BY <2>2, <2>3, Zenon
<1>10. ASSUME NEW k \in 1 .. Len(v)
       PROVE  k = 1 \/ \E i \in 1 .. n : k = i + 1 /\ v[k] = w[i]
  <2>1. CASE k # 1
    <3>1. k - 1 \in 1 .. n /\ k = (k - 1) + 1
      BY <1>2, <1>7, <2>1
    <3>2. v[k] = w[k - 1]
      BY <1>7, <3>1
    <3> QED BY <3>1, <3>2
  <2> QED BY <2>1
<1>11. Chain(f, v)
  <2>1. \A k \in 1 .. Len(v) : v[k] \in 1 .. Len(c)
    BY <1>6, <1>7, <1>9, <1>10
  <2>2. ASSUME NEW j \in 1 .. Len(v), NEW k \in 1 .. Len(v), v[j] = v[k] PROVE j = k
    <3>1. CASE j = 1 /\ k = 1
      BY <3>1
    <3>2. CASE j = 1 /\ k # 1
      BY <1>6, <1>7, <1>10, <2>2, <3>2
    <3>3. CASE j # 1 /\ k = 1
      BY <1>6, <1>7, <1>10, <2>2, <3>3
    <3>4. CASE j # 1 /\ k # 1
      <4>1. PICK i \in 1 .. n : j = i + 1 /\ v[j] = w[i]
        BY <1>10, <3>4
      <4>2. PICK l \in 1 .. n : k = l + 1 /\ v[k] = w[l]
        BY <1>10, <3>4
      <4>3. i = l
        BY <2>2, <4>1, <4>2 DEF Chain
      <4> QED BY <4>1, <4>2, <4>3
    <3> QED BY <3>1, <3>2, <3>3, <3>4
  <2>3. ASSUME NEW k \in 1 .. Len(v)
        PROVE  /\ c[v[k]].next = IF k = Len(v) THEN NULL ELSE v[k + 1]
               /\ c[v[k]].name # NoName
    <3>1. CASE k = 1
      <4>1. c[v[k]] = g
        BY <1>6, <1>7, <3>1
      <4>2. CASE n = 0
        BY <1>3, <1>5, <1>7, <3>1, <4>1, <4>2
      <4>3. CASE n # 0
        <5>1. 1 \in 1 .. n /\ k # Len(v) /\ k + 1 = 1 + 1
          BY <1>2, <1>7, <3>1, <4>3
        <5>2. v[k + 1] = w[1]
          BY <1>7, <5>1, Zenon
        <5>3. g.next = w[1] /\ g.name # NoName
          BY <1>3, <1>5, <4>3, Zenon
        <5> QED BY <4>1, <5>1, <5>2, <5>3, Zenon
      <4> QED BY <4>2, <4>3
    <3>2. CASE k # 1
      <4>1. PICK i \in 1 .. n : k = i + 1 /\ v[k] = w[i]
        BY <1>10, <3>2
      <4>2. CASE i = n
        <5>1. k = Len(v)
          BY <1>7, <4>1, <4>2, Zenon
        <5>2. c[w[i]].next = NULL /\ c[w[i]].name # NoName
          BY <1>9, <4>2, Zenon
        <5> QED BY <4>1, <5>1, <5>2, Zenon
      <4>3. CASE i # n
        <5>1. i + 1 \in 1 .. n /\ i < n /\ k = i + 1
          BY <1>2, <4>1, <4>3
        <5>2. k # Len(v) /\ k + 1 = (i + 1) + 1
          <6>1. i \in Nat /\ k = i + 1 /\ i < n /\ Len(v) = n + 1
            BY <1>7, <5>1
          <6> QED BY <1>2, <6>1
        <5>3. v[(i + 1) + 1] = w[i + 1]
          BY <1>7, <5>1
        <5>4. v[k + 1] = w[i + 1]
          BY <5>2, <5>3, Zenon
        <5>5. c[w[i]].next = w[i + 1] /\ c[w[i]].name # NoName
          BY <1>9, <4>3, Zenon
        <5> QED BY <4>1, <5>2, <5>4, <5>5, Zenon
      <4> QED BY <4>2, <4>3
    <3> QED BY <3>1, <3>2
  <2>4. /\ f.headers = IF Len(v) = 0 THEN NULL ELSE v[1]
        /\ f.last = IF Len(v) = 0 THEN NULL ELSE v[Len(v)]
    <3>1. CASE n = 0
      BY <1>5, <1>7, <3>1
    <3>2. CASE n # 0
      <4>1. v[n + 1] = w[n] /\ Len(v) # 0
        BY <1>2, <1>5, <1>7, <3>2
      <4> QED BY <1>5, <1>7, <3>2, <4>1
    <3> QED BY <3>1, <3>2
  <2>5. ASSUME NEW i \in 1 .. Len(c), \A k \in 1 .. Len(v) : v[k] # i PROVE c[i] = Freed
    <3>1. 1 \in 1 .. Len(v) /\ \A k \in 1 .. n : k + 1 \in 1 .. Len(v)
      BY <1>2, <1>7
    <3>2. i # id /\ \A k \in 1 .. n : w[k] # i
      BY <1>7, <2>5, <3>1
    <3>3. i \in 1 .. N
      BY <1>6, <3>2
    <3>4. e.cells[i] = Freed
      BY <3>2, <3>3 DEF Chain
    <3> QED BY <1>4, <3>2, <3>3, <3>4
  <2> QED BY <2>1, <2>2, <2>3, <2>4, <2>5 DEF Chain
<1>12. AddedFirst(Listed(e), Listed(f), Hdr(h))
  <2>1. /\ Len(Listed(e)) = n /\ \A k \in 1 .. n : Listed(e)[k] = Hdr(e.cells[w[k]])
    BY ListedFacts
  <2>2. /\ Len(Listed(f)) = n + 1 /\ \A k \in 1 .. n + 1 : Listed(f)[k] = Hdr(c[v[k]])
    BY <1>7, <1>8, <1>11, ListedFacts
  <2>3. ASSUME NEW k \in 1 .. n PROVE Listed(f)[k + 1] = Listed(e)[k]
    <3>1. k + 1 \in 1 .. n + 1
      BY <1>2
    <3>2. Listed(f)[k + 1] = Hdr(c[v[k + 1]]) /\ v[k + 1] = w[k]
      BY <1>7, <2>2, <3>1
    <3> QED BY <1>9, <2>1, <3>2
  <2>4. Listed(f)[1] = Hdr(h)
    <3>1. 1 \in 1 .. n + 1
      BY <1>2
    <3>2. Listed(f)[1] = Hdr(c[v[1]])
      BY <2>2, <3>1
    <3> QED BY <1>3, <1>6, <1>7, <3>2
  <2> QED BY <2>1, <2>2, <2>3, <2>4 DEF AddedFirst
<1> QED BY <1>1, <1>7, <1>8, <1>11, <1>12 DEF Sound

\* A header is changed in its place.
LEMMA ChangeInPlace ==
  ASSUME NEW e \in Event, NEW w \in Seq(Nat), Chain(e, w), NEW k \in 1 .. Len(w),
         \A j \in 1 .. k - 1 : e.cells[w[j]].name # e.cells[w[k]].name,
         NEW c \in Cell, c.name = e.cells[w[k]].name, c.next = e.cells[w[k]].next
  PROVE  /\ Sound([e EXCEPT !.cells[w[k]] = c])
         /\ ChangedFirst(Listed(e), Listed([e EXCEPT !.cells[w[k]] = c]), c.name)
         /\ Replaced(Listed(e), Listed([e EXCEPT !.cells[w[k]] = c]), k, Hdr(c))
<1> DEFINE d == [e.cells EXCEPT ![w[k]] = c]
           f == [headers |-> e.headers, last |-> e.last, cells |-> d, body |-> e.body]
<1>1. [e EXCEPT !.cells[w[k]] = c] = f
  <2>1. e = [headers |-> e.headers, last |-> e.last, cells |-> e.cells, body |-> e.body]
    BY EventFacts
  <2>2. [e EXCEPT !.cells[w[k]] = c] = [e EXCEPT !.cells = d]
    OBVIOUS
  <2>3. [e EXCEPT !.cells = d] = f
    <3> HIDE DEF d
    <3> QED BY <2>1
  <2> QED BY <2>2, <2>3, Zenon
<1>2. e.cells \in Seq(Cell) /\ Len(e.cells) \in Nat /\ w[k] \in 1 .. Len(e.cells) /\ Len(w) \in Nat
  BY EventFacts DEF Chain
<1>3. /\ d \in Seq(Cell) /\ Len(d) = Len(e.cells)
      /\ \A i \in 1 .. Len(e.cells) : d[i] = IF i = w[k] THEN c ELSE e.cells[i]
  BY <1>2, ExceptSeq
<1> HIDE DEF d
<1>4. f \in Event
  BY <1>3, EventFacts DEF Event
<1>5. ASSUME NEW j \in 1 .. Len(w)
      PROVE  /\ w[j] \in 1 .. Len(d)
             /\ d[w[j]] = IF j = k THEN c ELSE e.cells[w[j]]
             /\ d[w[j]].name = e.cells[w[j]].name /\ d[w[j]].next = e.cells[w[j]].next
  <2>1. w[j] \in 1 .. Len(e.cells) /\ (w[j] = w[k] => j = k)
    BY DEF Chain
  <2> QED BY <1>3, <2>1
<1>6. Chain(f, w)
  <2>1. /\ \A j \in 1 .. Len(w) : w[j] \in 1 .. Len(d)
        /\ \A j \in 1 .. Len(w) : d[w[j]].next = IF j = Len(w) THEN NULL ELSE w[j + 1]
        /\ \A j \in 1 .. Len(w) : d[w[j]].name # NoName
    BY <1>5 DEF Chain
  <2>2. ASSUME NEW i \in 1 .. Len(d), \A j \in 1 .. Len(w) : w[j] # i PROVE d[i] = Freed
    <3>1. e.cells[i] = Freed
      BY <1>3, <2>2 DEF Chain
    <3>2. i # w[k]
      BY <2>2
    <3> QED BY <1>3, <3>1, <3>2
  <2>3. /\ \A i, j \in 1 .. Len(w) : w[i] = w[j] => i = j
        /\ e.headers = IF Len(w) = 0 THEN NULL ELSE w[1]
        /\ e.last = IF Len(w) = 0 THEN NULL ELSE w[Len(w)]
    BY DEF Chain
  <2> QED BY <2>1, <2>2, <2>3 DEF Chain
<1>7. ChangedFirst(Listed(e), Listed(f), c.name)
  <2>1. /\ Len(Listed(e)) = Len(w) /\ \A j \in 1 .. Len(w) : Listed(e)[j] = Hdr(e.cells[w[j]])
        /\ Len(Listed(f)) = Len(w) /\ \A j \in 1 .. Len(w) : Listed(f)[j] = Hdr(d[w[j]])
    BY <1>4, <1>6, ListedFacts
  <2>2. \A j \in 1 .. Len(w) : j # k => Listed(f)[j] = Listed(e)[j]
    BY <1>5, <2>1
  <2>0. ASSUME NEW j \in 1 .. Len(w) PROVE Listed(e)[j].name = e.cells[w[j]].name
    <3>1. w[j] \in 1 .. Len(e.cells)
      BY DEF Chain
    <3>2. e.cells[w[j]] \in Cell
      BY <1>2, <3>1
    <3>3. Hdr(e.cells[w[j]]).name = e.cells[w[j]].name
      BY <3>2, CellFacts
    <3> QED BY <2>1, <3>3
  <2>3. Listed(e)[k].name = c.name /\ Listed(f)[k].name = c.name
    <3>1. Listed(f)[k] = Hdr(c)
      BY <1>5, <2>1
    <3>2. Hdr(c).name = c.name
      BY CellFacts
    <3> QED BY <2>0, <3>1, <3>2
  <2>4. ASSUME NEW j \in 1 .. k - 1 PROVE Listed(e)[j].name # c.name
    <3>1. j \in 1 .. Len(w)
      BY <1>2
    <3>2. Listed(e)[j].name = e.cells[w[j]].name
      BY <2>0, <3>1
    <3>3. e.cells[w[j]].name # e.cells[w[k]].name
      OBVIOUS
    <3> QED BY <3>2, <3>3
  <2> QED BY <2>1, <2>2, <2>3, <2>4 DEF ChangedFirst
<1>8. Replaced(Listed(e), Listed(f), k, Hdr(c))
  <2>1. /\ Len(Listed(e)) = Len(w) /\ \A j \in 1 .. Len(w) : Listed(e)[j] = Hdr(e.cells[w[j]])
        /\ Len(Listed(f)) = Len(w) /\ \A j \in 1 .. Len(w) : Listed(f)[j] = Hdr(d[w[j]])
    BY <1>4, <1>6, ListedFacts
  <2>2. \A j \in 1 .. Len(w) : j # k => Listed(f)[j] = Listed(e)[j]
    BY <1>5, <2>1
  <2>3. Listed(f)[k] = Hdr(c)
    BY <1>5, <2>1
  <2> QED BY <2>1, <2>2, <2>3 DEF Replaced
<1> QED BY <1>1, <1>4, <1>6, <1>7, <1>8 DEF Sound

-----------------------------------------------------------------------------
(* Taking headers out.                                                       *)

\* A list without its i-th place.
Past(i, j) == IF j < i THEN j ELSE j + 1
Without(w, i) == [j \in 1 .. Len(w) - 1 |-> w[Past(i, j)]]

Removed(v, w, i) ==
  /\ Len(v) = Len(w) - 1
  /\ \A j \in 1 .. Len(w) - 1 :
       v[j] = w[Past(i, j)] /\ Past(i, j) \in 1 .. Len(w) /\ Past(i, j) # i
  /\ \A j, k \in 1 .. Len(w) - 1 : j < k => Past(i, j) < Past(i, k)
  /\ \A k \in 1 .. Len(w) : k # i => \E j \in 1 .. Len(w) - 1 : k = Past(i, j)

LEMMA WithoutFacts ==
  ASSUME NEW S, NEW w \in Seq(S), NEW i \in 1 .. Len(w)
  PROVE  Without(w, i) \in Seq(S) /\ Removed(Without(w, i), w, i)
<1>1. Len(w) \in Nat /\ i \in Nat /\ 1 <= i /\ i <= Len(w)
  OBVIOUS
<1>2. ASSUME NEW j \in 1 .. Len(w) - 1
      PROVE  Past(i, j) \in 1 .. Len(w) /\ Past(i, j) # i
  BY <1>1 DEF Past
<1>3. \A j, k \in 1 .. Len(w) - 1 : j < k => Past(i, j) < Past(i, k)
  BY <1>1 DEF Past
<1>4. ASSUME NEW k \in 1 .. Len(w), k # i
      PROVE  \E j \in 1 .. Len(w) - 1 : k = Past(i, j)
  <2>1. CASE k < i
    <3>1. k \in 1 .. Len(w) - 1 /\ k = Past(i, k)
      BY <1>1, <2>1 DEF Past
    <3> QED BY <3>1
  <2>2. CASE ~(k < i)
    <3>1. k - 1 \in 1 .. Len(w) - 1 /\ k = Past(i, k - 1)
      BY <1>1, <1>4, <2>2 DEF Past
    <3> QED BY <3>1
  <2> QED BY <2>1, <2>2
<1>5. Len(w) - 1 \in Nat /\ \A j \in 1 .. Len(w) - 1 : w[Past(i, j)] \in S
  BY <1>1, <1>2
<1>6. /\ Without(w, i) \in Seq(S) /\ Len(Without(w, i)) = Len(w) - 1
      /\ \A j \in 1 .. Len(w) - 1 : Without(w, i)[j] = w[Past(i, j)]
  BY <1>5 DEF Without
<1> QED BY <1>2, <1>3, <1>4, <1>6 DEF Removed

\* The place before the i-th one.
Before(w, i) == IF i = 1 THEN NULL ELSE w[i - 1]

LEMMA UnlinkFacts ==
  ASSUME NEW e \in Event, NEW w \in Seq(Nat), Chain(e, w), NEW i \in 1 .. Len(w)
  PROVE  /\ Unlinked(e, Before(w, i), w[i]) \in Event
         /\ Chain(Unlinked(e, Before(w, i), w[i]), Without(w, i))
         /\ \A k \in 1 .. Len(w) : k # i =>
              Hdr(Unlinked(e, Before(w, i), w[i]).cells[w[k]]) = Hdr(e.cells[w[k]])
<1> DEFINE lp == Before(w, i)
           n == e.cells[w[i]].next
           N == Len(e.cells)
           L == Len(w)
           p == IF lp = NULL THEN e.cells ELSE [e.cells EXCEPT ![lp].next = n]
           c == [p EXCEPT ![w[i]] = Freed]
           f == [headers |-> IF lp = NULL THEN n ELSE e.headers,
                 last |-> IF w[i] = e.last \/ n = NULL THEN lp ELSE e.last,
                 cells |-> c, body |-> e.body]
           v == Without(w, i)
<1>1. Unlinked(e, lp, w[i]) = f
  <2>1. e = [headers |-> e.headers, last |-> e.last, cells |-> e.cells, body |-> e.body]
    BY EventFacts
  <2>2. Unlinked(e, lp, w[i]) =
          [e EXCEPT !.cells = c, !.headers = IF lp = NULL THEN n ELSE @,
                    !.last = IF w[i] = @ \/ n = NULL THEN lp ELSE @]
    BY DEF Unlinked
  <2> HIDE DEF c, lp, n
  <2> QED BY <2>1, <2>2
<1>2. /\ L \in Nat /\ N \in Nat /\ i \in Nat /\ 1 <= i /\ i <= L /\ e.cells \in Seq(Cell)
      /\ e.headers \in Nat /\ e.last \in Nat /\ e.body \in Bodies
  BY EventFacts
<1>16. ASSUME NEW m \in Nat, NEW j \in 1 .. m, j # 1 \/ m # 1
       PROVE  /\ 1 \in 1 .. m - 1 /\ m - 1 # 0 /\ m # 0 /\ (j # 1 => 1 < j)
              /\ j = 1 => j # m /\ j + 1 = 2 /\ ~(1 < j) /\ 1 + 1 = 2
  BY <1>16
<1>3. \A k \in 1 .. L : w[k] \in 1 .. N /\ w[k] \in Nat /\ w[k] # NULL
  BY <1>2 DEF Chain, NULL
<1>4. n = IF i = L THEN NULL ELSE w[i + 1]
  BY DEF Chain
<1>5. n \in Nat /\ (n = NULL <=> i = L)
  <2>1. CASE i = L
    BY <1>4, <2>1 DEF NULL
  <2>2. CASE i # L
    <3>1. i + 1 \in 1 .. L
      BY <1>2, <2>2
    <3> QED BY <1>3, <1>4, <2>2, <3>1
  <2> QED BY <2>1, <2>2
<1>6. /\ i = 1 => lp = NULL
      /\ i # 1 => i - 1 \in 1 .. L /\ lp = w[i - 1] /\ lp \in 1 .. N /\ lp # NULL /\ lp # w[i]
      /\ lp \in Nat
  <2>1. CASE i = 1
    BY <2>1 DEF Before, NULL
  <2>2. CASE i # 1
    <3>1. i - 1 \in 1 .. L /\ i - 1 # i
      BY <1>2, <2>2
    <3>2. w[i - 1] # w[i]
      BY <3>1 DEF Chain
    <3> QED BY <1>3, <2>2, <3>1, <3>2 DEF Before
  <2> QED BY <2>1, <2>2
<1> HIDE DEF lp, n
<1>7. /\ p \in Seq(Cell) /\ Len(p) = N
      /\ \A k \in 1 .. N : p[k] = IF lp # NULL /\ k = lp THEN [e.cells[k] EXCEPT !.next = n]
                                  ELSE e.cells[k]
  <2>1. CASE lp = NULL
    BY <1>2, <2>1
  <2>2. CASE lp # NULL
    <3>1. lp \in 1 .. N
      BY <1>6, <2>2
    <3>2. e.cells[lp] \in Cell
      BY <3>1, EventFacts
    <3>3. [e.cells[lp] EXCEPT !.next = n] \in Cell
      BY <1>5, <3>2, CellFacts
    <3>4. p = [e.cells EXCEPT ![lp] = [e.cells[lp] EXCEPT !.next = n]]
      BY <2>2
    <3> HIDE DEF p
    <3>5. /\ p \in Seq(Cell) /\ Len(p) = N
          /\ \A k \in 1 .. N : p[k] = IF k = lp THEN [e.cells[lp] EXCEPT !.next = n]
                                      ELSE e.cells[k]
      BY <1>2, <3>1, <3>3, <3>4, ExceptSeq
    <3> QED BY <2>2, <3>5
  <2> QED BY <2>1, <2>2
<1> HIDE DEF p
<1>8. /\ c \in Seq(Cell) /\ Len(c) = N
      /\ \A k \in 1 .. N : c[k] = IF k = w[i] THEN Freed ELSE p[k]
  <2>1. w[i] \in 1 .. N
    BY <1>3
  <2> QED BY <1>7, <2>1, FreedCell, ExceptSeq
<1> HIDE DEF c
<1>9. /\ v \in Seq(Nat) /\ Len(v) = L - 1
      /\ \A j \in 1 .. L - 1 : v[j] = w[Past(i, j)] /\ Past(i, j) \in 1 .. L /\ Past(i, j) # i
      /\ \A j, k \in 1 .. L - 1 : j < k => Past(i, j) < Past(i, k)
      /\ \A k \in 1 .. L : k # i => \E j \in 1 .. L - 1 : k = Past(i, j)
  <2>1. v \in Seq(Nat) /\ Removed(v, w, i)
    BY WithoutFacts
  <2> QED BY <2>1 DEF Removed
<1> HIDE DEF v
<1>14. /\ 1 .. Len(v) = 1 .. L - 1 /\ L - 1 \in Nat
       /\ \A j \in 1 .. L - 1 : j \in Nat /\ j \in Int
       /\ \A j \in 1 .. L - 1 : (j < i => Past(i, j) = j) /\ (~(j < i) => Past(i, j) = j + 1)
  BY <1>2, <1>9 DEF Past
<1>15. \A j \in 1 .. L - 1 : v[j] = w[Past(i, j)] /\ Past(i, j) \in 1 .. L /\ Past(i, j) # i
  BY <1>9
<1>10. f \in Event
  BY <1>2, <1>5, <1>6, <1>8 DEF Event
<1>11. ASSUME NEW k \in 1 .. L, k # i
       PROVE  /\ w[k] \in 1 .. N
              /\ Hdr(c[w[k]]) = Hdr(e.cells[w[k]]) /\ c[w[k]].name = e.cells[w[k]].name
              /\ c[w[k]].next = IF k = i - 1 THEN n ELSE e.cells[w[k]].next
  <2>1. w[k] \in 1 .. N /\ w[k] # w[i]
    BY <1>3, <1>11 DEF Chain
  <2>2. c[w[k]] = IF lp # NULL /\ w[k] = lp THEN [e.cells[w[k]] EXCEPT !.next = n]
                  ELSE e.cells[w[k]]
    BY <1>7, <1>8, <2>1
  <2>3. (lp # NULL /\ w[k] = lp) <=> k = i - 1
    <3>1. CASE i = 1
      <4>1. k # i - 1
        BY <1>2, <3>1
      <4> QED BY <1>6, <3>1, <4>1
    <3>2. CASE i # 1
      <4>1. i - 1 \in 1 .. L /\ lp = w[i - 1] /\ lp # NULL
        BY <1>6, <3>2
      <4>2. w[k] = w[i - 1] <=> k = i - 1
        BY <4>1 DEF Chain
      <4> QED BY <4>1, <4>2
    <3> QED BY <3>1, <3>2
  <2>4. c[w[k]] = IF k = i - 1 THEN [e.cells[w[k]] EXCEPT !.next = n] ELSE e.cells[w[k]]
    BY <2>2, <2>3, Zenon
  <2>5. e.cells[w[k]] \in Cell
    BY <2>1, EventFacts
  <2>6. CASE k = i - 1
    <3> DEFINE old == e.cells[w[k]]
    <3>1. c[w[k]] = [old EXCEPT !.next = n]
      BY <2>4, <2>6
    <3>2. old \in Cell
      BY <2>5
    <3> HIDE DEF old
    <3>3. /\ Hdr([old EXCEPT !.next = n]) = Hdr(old) /\ [old EXCEPT !.next = n].name = old.name
          /\ [old EXCEPT !.next = n].next = n
      BY <1>5, <3>2, CellFacts
    <3> QED BY <2>1, <2>6, <3>1, <3>3 DEF old
  <2>7. CASE k # i - 1
    <3>1. c[w[k]] = e.cells[w[k]]
      BY <2>4, <2>7
    <3> QED BY <2>1, <2>7, <3>1
  <2> QED BY <2>6, <2>7
<1>12. Chain(f, v)
  <2>1. \A j \in 1 .. Len(v) : v[j] \in 1 .. Len(c)
    BY <1>3, <1>8, <1>9
  <2>2. ASSUME NEW j \in 1 .. Len(v), NEW k \in 1 .. Len(v), v[j] = v[k] PROVE j = k
    <3>0. j \in 1 .. L - 1 /\ k \in 1 .. L - 1 /\ j \in Nat /\ k \in Nat
      BY <1>14
    <3>1. /\ Past(i, j) \in 1 .. L /\ Past(i, k) \in 1 .. L
          /\ w[Past(i, j)] = w[Past(i, k)]
      BY <1>15, <2>2, <3>0
    <3>2. Past(i, j) = Past(i, k)
      BY <3>1 DEF Chain
    <3>3. Past(i, j) \in Int /\ Past(i, k) \in Int
      BY <3>1
    <3>4. ~(j < k) /\ ~(k < j)
      <4>1. \A x, y \in 1 .. L - 1 : x < y => Past(i, x) < Past(i, y)
        BY <1>9
      <4>2. ~(Past(i, j) < Past(i, k)) /\ ~(Past(i, k) < Past(i, j))
        BY <3>2, <3>3
      <4> QED BY <3>0, <4>1, <4>2
    <3> QED BY <3>0, <3>4
  <2>3. ASSUME NEW j \in 1 .. Len(v)
        PROVE  /\ c[v[j]].next = IF j = Len(v) THEN NULL ELSE v[j + 1]
               /\ c[v[j]].name # NoName
    <3>0. j \in 1 .. L - 1
      BY <1>14
    <3>1. /\ j \in 1 .. L - 1 /\ j \in Nat /\ 1 <= j /\ j <= L - 1 /\ Len(v) = L - 1
          /\ v[j] = w[Past(i, j)] /\ Past(i, j) \in 1 .. L /\ Past(i, j) # i
      <4>1. v[j] = w[Past(i, j)] /\ Past(i, j) \in 1 .. L /\ Past(i, j) # i
        BY <1>15, <3>0
      <4>2. j \in Nat /\ 1 <= j /\ j <= L - 1
        BY <1>2, <3>0
      <4>3. Len(v) = L - 1
        BY <1>9
      <4> QED BY <3>0, <4>1, <4>2, <4>3
    <3> DEFINE m == Past(i, j)
    <3>7. /\ m \in 1 .. L /\ m # i /\ v[j] = w[m]
          /\ e.cells[w[m]].name # NoName
          /\ e.cells[w[m]].next = IF m = L THEN NULL ELSE w[m + 1]
      BY <3>1 DEF Chain
    <3>8. /\ c[w[m]].name = e.cells[w[m]].name
          /\ c[w[m]].next = IF m = i - 1 THEN n ELSE e.cells[w[m]].next
      <4> HIDE DEF m
      <4> QED BY <1>11, <3>7
    <3>2. c[v[j]].name # NoName
      BY <3>7, <3>8
    <3>3. c[v[j]].next = IF Past(i, j) = i - 1 THEN n ELSE
                         IF Past(i, j) = L THEN NULL ELSE w[Past(i, j) + 1]
      BY <3>7, <3>8
    <3> HIDE DEF m
    <3>4. CASE j = i - 1
      <4>1. Past(i, j) = i - 1
        BY <1>2, <3>1, <3>4 DEF Past
      <4>2. CASE i = L
        <5>1. j = Len(v) /\ n = NULL
          BY <1>2, <1>5, <3>1, <3>4, <4>2
        <5> QED BY <3>2, <3>3, <4>1, <5>1
      <4>3. CASE i # L
        <5>1. j # L - 1 /\ j + 1 = i /\ i \in 1 .. L - 1 /\ Past(i, i) = i + 1
          <6>1. L \in Nat /\ i \in Nat /\ i <= L
            BY <1>2
          <6> HIDE DEF L
          <6>2. j # L - 1 /\ j + 1 = i /\ i \in 1 .. L - 1 /\ ~(i < i)
            BY <3>1, <3>4, <4>3, <6>1
          <6> QED BY <6>2 DEF Past
        <5>2. v[i] = w[i + 1]
          <6>1. v[i] = w[Past(i, i)]
            BY <1>15, <5>1
          <6> QED BY <5>1, <6>1, Zenon
        <5> QED BY <1>4, <3>1, <3>2, <3>3, <4>1, <4>3, <5>1, <5>2
      <4> QED BY <4>2, <4>3
    <3>5. CASE j < i - 1
      <4>1. /\ Past(i, j) = j /\ j # i - 1 /\ j # L /\ j # L - 1 /\ j + 1 \in 1 .. L - 1
            /\ Past(i, j + 1) = j + 1
        <5>1. L \in Nat /\ i \in 1 .. L /\ j \in 1 .. L - 1
          BY <1>2, <3>1
        <5> HIDE DEF L
        <5>2. /\ j \in Nat /\ i \in Nat /\ 1 <= j /\ i <= L /\ j < i /\ j + 1 < i
              /\ j + 1 \in 1 .. L - 1 /\ j # i - 1 /\ j # L /\ j # L - 1
          BY <3>5, <5>1
        <5> QED BY <5>2 DEF Past
      <4>2. v[j + 1] = w[j + 1]
        BY <1>9, <4>1
      <4> QED BY <3>1, <3>2, <3>3, <4>1, <4>2
    <3>6. CASE j > i - 1
      <4>1. Past(i, j) = j + 1 /\ j + 1 # i - 1
        BY <1>2, <3>1, <3>6 DEF Past
      <4>2. CASE j = L - 1
        <5>1. j + 1 = L
          BY <1>2, <4>2
        <5> QED BY <3>1, <3>2, <3>3, <4>1, <4>2, <5>1
      <4>3. CASE j # L - 1
        <5>1. j + 1 \in 1 .. L - 1 /\ Past(i, j + 1) = (j + 1) + 1 /\ j + 1 # L
          <6>1. /\ j + 1 \in 1 .. L - 1 /\ j + 1 # L /\ ~(j + 1 < i)
            BY <1>2, <3>1, <3>6, <4>3
          <6> QED BY <1>14, <6>1
        <5>2. v[j + 1] = w[(j + 1) + 1]
          <6>1. v[j + 1] = w[Past(i, j + 1)]
            BY <1>15, <5>1
          <6> QED BY <5>1, <6>1, Zenon
        <5> QED BY <3>1, <3>2, <3>3, <4>1, <4>3, <5>1, <5>2
      <4> QED BY <4>2, <4>3
    <3> QED BY <1>2, <3>1, <3>4, <3>5, <3>6
  <2>4. f.headers = IF Len(v) = 0 THEN NULL ELSE v[1]
    <3>1. CASE i = 1
      <4>1. CASE L = 1
        BY <1>4, <1>6, <1>9, <3>1, <4>1
      <4>2. CASE L # 1
        <5>1. 1 \in 1 .. L - 1 /\ Past(i, 1) = 2 /\ i # L /\ i + 1 = 2 /\ L - 1 # 0
          <6>1. 1 \in 1 .. L - 1 /\ i # L /\ i + 1 = 2 /\ L - 1 # 0 /\ ~(1 < i) /\ 1 + 1 = 2
            <7>1. L \in Nat /\ i \in 1 .. L
              BY <1>2
            <7> QED BY <1>16, <3>1, <4>2, <7>1, Zenon
          <6> QED BY <1>14, <6>1
        <5> QED BY <1>4, <1>6, <1>9, <3>1, <5>1
      <4> QED BY <4>1, <4>2
    <3>2. CASE i # 1
      <4>1. 1 \in 1 .. L - 1 /\ Past(i, 1) = 1 /\ L - 1 # 0 /\ L # 0
        <5>1. 1 \in 1 .. L - 1 /\ L - 1 # 0 /\ L # 0 /\ 1 < i
          <6>1. L \in Nat /\ i \in 1 .. L
            BY <1>2
          <6> QED BY <1>16, <3>2, <6>1, Zenon
        <5> QED BY <1>14, <5>1
      <4>2. e.headers = w[1]
        BY <4>1 DEF Chain
      <4> QED BY <1>6, <1>9, <3>2, <4>1, <4>2
    <3> QED BY <3>1, <3>2
  <2>5. f.last = IF Len(v) = 0 THEN NULL ELSE v[Len(v)]
    <3>1. L # 0 /\ L \in 1 .. L /\ e.last = w[L]
      BY <1>2 DEF Chain
    <3>2. w[i] = e.last <=> i = L
      BY <3>1 DEF Chain
    <3>3. CASE i = L
      <4>1. f.last = lp
        BY <1>5, <3>3
      <4>2. CASE L = 1
        BY <1>6, <1>9, <3>3, <4>1, <4>2
      <4>3. CASE L # 1
        <5>1. L - 1 \in 1 .. L - 1 /\ Past(i, L - 1) = i - 1 /\ L - 1 # 0
          BY <1>2, <3>3, <4>3 DEF Past
        <5>2. v[L - 1] = w[i - 1]
          BY <1>9, <5>1
        <5> QED BY <1>6, <1>9, <3>3, <4>1, <4>3, <5>1, <5>2
      <4> QED BY <4>2, <4>3
    <3>4. CASE i # L
      <4>1. f.last = e.last
        BY <1>5, <3>2, <3>4
      <4>2. L - 1 \in 1 .. L - 1 /\ Past(i, L - 1) = L /\ L - 1 # 0
        <5>1. L - 1 \in 1 .. L - 1 /\ L - 1 # 0 /\ ~(L - 1 < i) /\ (L - 1) + 1 = L
          <6>1. L \in Nat /\ i \in 1 .. L
            BY <1>2
          <6> QED BY <3>4, <6>1, LastButOne, Zenon
        <5> QED BY <1>14, <5>1
      <4>3. v[L - 1] = w[L]
        BY <1>9, <4>2
      <4> QED BY <1>9, <3>1, <4>1, <4>2, <4>3
    <3> QED BY <3>3, <3>4
  <2>6. ASSUME NEW k \in 1 .. Len(c), \A j \in 1 .. Len(v) : v[j] # k PROVE c[k] = Freed
    <3>1. CASE k = w[i]
      BY <1>8, <3>1
    <3>2. CASE k # w[i]
      <4>1. ASSUME NEW j \in 1 .. L, w[j] = k PROVE FALSE
        <5>1. j # i
          BY <3>2, <4>1
        <5>2. PICK m \in 1 .. L - 1 : j = Past(i, m)
          BY <1>9, <5>1
        <5>3. v[m] = k /\ m \in 1 .. Len(v)
          BY <1>9, <4>1, <5>2
        <5> QED BY <2>6, <5>3
      <4>2. k \in 1 .. N
        BY <1>8
      <4>3. e.cells[k] = Freed
        BY <4>1, <4>2 DEF Chain
      <4>4. ~(lp # NULL /\ k = lp)
        BY <1>6, <4>1
      <4> QED BY <1>7, <1>8, <3>2, <4>2, <4>3, <4>4
    <3> QED BY <3>1, <3>2
  <2> QED BY <2>1, <2>2, <2>3, <2>4, <2>5, <2>6 DEF Chain
<1>13. \A k \in 1 .. L : k # i => Hdr(f.cells[w[k]]) = Hdr(e.cells[w[k]])
  BY <1>11
<1> QED BY <1>1, <1>10, <1>12, <1>13 DEF lp, v

\* Places of a list, in its order.
Increasing(from) == \A i, j \in 1 .. Len(from) : i < j => from[i] < from[j]
Picked(w, from) == [i \in 1 .. Len(from) |-> w[from[i]]]

\* The headers that esl_event_del_header_val takes out.
Doomed(h, name, val) == h.name = name /\ val \in {Empty, h.value}

\* k headers were looked at: from leads to the places of those that are left.
\* The pointer lp is at the one before the header that is next.
Left(e, w, name, val, k, from) ==
  /\ from \in Seq(1 .. Len(w)) /\ Increasing(from)
  /\ \A j \in 1 .. Len(w) :
       (\E i \in 1 .. Len(from) : from[i] = j) <=> (j > k \/ ~Doomed(Hdr(e.cells[w[j]]), name, val))
Pruned(e, w, x, lp, k, from) ==
  /\ Chain(x, Picked(w, from))
  /\ \A i \in 1 .. Len(from) : Hdr(x.cells[w[from[i]]]) = Hdr(e.cells[w[from[i]]])
  /\ \A i \in 1 .. Len(from) : from[i] = k + 1 => lp = Before(Picked(w, from), i)
Cut(e, w, name, val, k) ==
  {s \in [e : Event, lp : Nat] :
     \E from : Left(e, w, name, val, k, from) /\ Pruned(e, w, s.e, s.lp, k, from)}

\* One turn of the loop.
Turn(w, name, val, k, s) ==
  IF s.e.cells[w[k]].name = name /\ val \in {Empty, s.e.cells[w[k]].value}
  THEN [s EXCEPT !.e = Unlinked(s.e, s.lp, w[k])]
  ELSE [s EXCEPT !.lp = w[k]]

LEMMA PickedFacts ==
  ASSUME NEW w \in Seq(Nat), NEW from \in Seq(1 .. Len(w))
  PROVE  /\ Picked(w, from) \in Seq(Nat) /\ Len(Picked(w, from)) = Len(from)
         /\ Len(from) \in Nat
         /\ \A i \in 1 .. Len(from) : /\ from[i] \in 1 .. Len(w) /\ from[i] \in Nat
                                      /\ Picked(w, from)[i] = w[from[i]]
<1>1. Len(from) \in Nat /\ \A i \in 1 .. Len(from) : from[i] \in 1 .. Len(w) /\ w[from[i]] \in Nat
  OBVIOUS
<1>2. \A i \in 1 .. Len(from) : from[i] \in Nat
  BY <1>1
<1> QED BY <1>1, <1>2 DEF Picked

\* The header that is next comes just after.
LEMMA NextPlace ==
  ASSUME NEW n \in Nat, NEW from \in Seq(1 .. n), Increasing(from),
         NEW i \in 1 .. Len(from), NEW q \in 1 .. Len(from), from[q] = from[i] + 1
  PROVE  q = i + 1
<1>1. Len(from) \in Nat /\ i \in Nat /\ q \in Nat /\ i <= Len(from) /\ q <= Len(from)
  OBVIOUS
<1>2. \A j \in 1 .. Len(from) : from[j] \in Nat
  OBVIOUS
<1>3. ASSUME q < i PROVE FALSE
  <2>1. from[q] < from[i]
    BY <1>3 DEF Increasing
  <2> QED BY <1>2, <2>1
<1>4. q # i
  BY <1>2
<1>5. ASSUME q > i + 1 PROVE FALSE
  <2>1. i + 1 \in 1 .. Len(from) /\ i < i + 1 /\ i + 1 < q
    BY <1>1, <1>5
  <2>2. from[i] < from[i + 1] /\ from[i + 1] < from[q]
    BY <2>1 DEF Increasing
  <2>3. from[i] \in Nat /\ from[i + 1] \in Nat /\ from[q] \in Nat
    BY <1>2, <2>1
  <2> QED BY <2>2, <2>3
<1> QED BY <1>1, <1>3, <1>4, <1>5

LEMMA PickedWithout ==
  ASSUME NEW w \in Seq(Nat), NEW from \in Seq(1 .. Len(w)), NEW i \in 1 .. Len(from)
  PROVE  Without(Picked(w, from), i) = Picked(w, Without(from, i))
<1> DEFINE u == Picked(w, from)
           g == Without(from, i)
<1>1. /\ u \in Seq(Nat) /\ Len(u) = Len(from) /\ Len(from) \in Nat
      /\ \A j \in 1 .. Len(from) : u[j] = w[from[j]]
  BY PickedFacts
<1>2. /\ g \in Seq(1 .. Len(w)) /\ Len(g) = Len(from) - 1
      /\ \A j \in 1 .. Len(from) - 1 : g[j] = from[Past(i, j)] /\ Past(i, j) \in 1 .. Len(from)
  <2>1. g \in Seq(1 .. Len(w)) /\ Removed(g, from, i)
    BY WithoutFacts
  <2> QED BY <2>1 DEF Removed
<1>3. /\ Picked(w, g) \in Seq(Nat) /\ Len(Picked(w, g)) = Len(g)
      /\ \A j \in 1 .. Len(g) : Picked(w, g)[j] = w[g[j]]
  BY <1>2, PickedFacts
<1>4. /\ Without(u, i) \in Seq(Nat) /\ Len(Without(u, i)) = Len(from) - 1
      /\ \A j \in 1 .. Len(from) - 1 : Without(u, i)[j] = u[Past(i, j)]
  <2> HIDE DEF u
  <2>1. u \in Seq(Nat) /\ i \in 1 .. Len(u) /\ Len(u) = Len(from)
    BY <1>1
  <2>2. Without(u, i) \in Seq(Nat) /\ Removed(Without(u, i), u, i)
    BY <2>1, WithoutFacts
  <2> QED BY <2>1, <2>2, Zenon DEF Removed
<1> HIDE DEF u, g
<1>5. ASSUME NEW j \in 1 .. Len(from) - 1 PROVE Without(u, i)[j] = Picked(w, g)[j]
  <2>1. Without(u, i)[j] = w[from[Past(i, j)]]
    BY <1>1, <1>2, <1>4
  <2>2. j \in 1 .. Len(g)
    BY <1>2
  <2> QED BY <1>2, <1>3, <2>1, <2>2
<1>6. Without(u, i) = Picked(w, g)
  BY <1>2, <1>3, <1>4, <1>5, SeqEqual
<1> QED BY <1>6 DEF u, g

LEMMA TurnCuts ==
  ASSUME NEW e \in Event, NEW w \in Seq(Nat), Chain(e, w), NEW name, NEW val,
         NEW k \in 1 .. Len(w), NEW s \in Cut(e, w, name, val, k - 1)
  PROVE  Turn(w, name, val, k, s) \in Cut(e, w, name, val, k)
<1>1. PICK from : /\ Left(e, w, name, val, k - 1, from)
                  /\ Pruned(e, w, s.e, s.lp, k - 1, from)
  BY DEF Cut
<1> DEFINE u == Picked(w, from)
<1>2. s \in [e : Event, lp : Nat] /\ s.e \in Event /\ s.lp \in Nat
  BY DEF Cut
<1>3. /\ from \in Seq(1 .. Len(w)) /\ Increasing(from)
      /\ \A j \in 1 .. Len(w) :
           (\E i \in 1 .. Len(from) : from[i] = j)
             <=> (j > k - 1 \/ ~Doomed(Hdr(e.cells[w[j]]), name, val))
  BY <1>1 DEF Left
<1>4. /\ u \in Seq(Nat) /\ Len(u) = Len(from) /\ Len(from) \in Nat
      /\ \A i \in 1 .. Len(from) : /\ from[i] \in 1 .. Len(w) /\ from[i] \in Nat
                                   /\ u[i] = w[from[i]]
  BY <1>3, PickedFacts
<1>5. Len(w) \in Nat /\ k \in Nat /\ k \in 1 .. Len(w) /\ k > k - 1 /\ (k - 1) + 1 = k
  OBVIOUS
<1>6. PICK i \in 1 .. Len(from) : from[i] = k
  BY <1>3, <1>5
<1>7. /\ Chain(s.e, u) /\ s.lp = Before(u, i)
      /\ \A m \in 1 .. Len(from) : Hdr(s.e.cells[w[from[m]]]) = Hdr(e.cells[w[from[m]]])
  BY <1>1, <1>5, <1>6 DEF Pruned
<1> HIDE DEF u
<1>8. u[i] = w[k] /\ i \in 1 .. Len(u)
  BY <1>4, <1>6
<1>9. Hdr(s.e.cells[w[k]]) = Hdr(e.cells[w[k]]) /\ w[k] \in Nat
  BY <1>6, <1>7
<1>10. Doomed(Hdr(e.cells[w[k]]), name, val)
         <=> (s.e.cells[w[k]].name = name /\ val \in {Empty, s.e.cells[w[k]].value})
  <2>1. s.e.cells[w[k]] \in Cell
    <3>1. w[k] \in 1 .. Len(s.e.cells)
      BY <1>7, <1>8 DEF Chain
    <3> QED BY <1>2, <3>1, EventFacts
  <2>2. /\ Hdr(s.e.cells[w[k]]).name = s.e.cells[w[k]].name
        /\ Hdr(s.e.cells[w[k]]).value = s.e.cells[w[k]].value
    BY <2>1, CellFacts
  <2> QED BY <1>9, <2>2 DEF Doomed
<1>11. ASSUME NEW q \in 1 .. Len(from), from[q] = k + 1 PROVE q = i + 1
  BY <1>3, <1>5, <1>6, <1>11, NextPlace
<1>12. CASE ~Doomed(Hdr(e.cells[w[k]]), name, val)
  <2>1. Turn(w, name, val, k, s) = [e |-> s.e, lp |-> w[k]]
    BY <1>2, <1>10, <1>12 DEF Turn
  <2>2. Left(e, w, name, val, k, from)
    <3>1. ASSUME NEW j \in 1 .. Len(w)
          PROVE  (j > k - 1 \/ ~Doomed(Hdr(e.cells[w[j]]), name, val))
                   <=> (j > k \/ ~Doomed(Hdr(e.cells[w[j]]), name, val))
      <4>1. CASE j = k
        BY <1>12, <4>1
      <4>2. CASE j # k
        <5>1. j > k - 1 <=> j > k
          BY <1>5, <4>2
        <5> QED BY <5>1
      <4> QED BY <4>1, <4>2
    <3> QED BY <1>3, <3>1 DEF Left
  <2>3. ASSUME NEW q \in 1 .. Len(from), from[q] = k + 1 PROVE w[k] = Before(u, q)
    <3>1. q = i + 1 /\ q # 1 /\ q - 1 = i
      BY <1>4, <1>11, <2>3
    <3> QED BY <1>8, <3>1 DEF Before
  <2>4. Pruned(e, w, s.e, w[k], k, from)
    BY <1>7, <2>3 DEF Pruned, u
  <2> QED BY <1>2, <1>9, <2>1, <2>2, <2>4 DEF Cut
<1>13. CASE Doomed(Hdr(e.cells[w[k]]), name, val)
  <2> DEFINE x == Unlinked(s.e, s.lp, w[k])
             g == Without(from, i)
  <2>1. Turn(w, name, val, k, s) = [e |-> x, lp |-> s.lp]
    BY <1>2, <1>10, <1>13 DEF Turn
  <2>2. /\ x \in Event /\ Chain(x, Without(u, i))
        /\ \A m \in 1 .. Len(from) : m # i =>
             Hdr(x.cells[u[m]]) = Hdr(s.e.cells[u[m]])
    <3> DEFINE y == Unlinked(s.e, Before(u, i), u[i])
    <3>1. /\ y \in Event /\ Chain(y, Without(u, i))
          /\ \A m \in 1 .. Len(u) : m # i => Hdr(y.cells[u[m]]) = Hdr(s.e.cells[u[m]])
      BY <1>2, <1>4, <1>7, <1>8, UnlinkFacts
    <3>2. x = y
      BY <1>7, <1>8
    <3> HIDE DEF x, y
    <3> QED BY <1>4, <3>1, <3>2
  <2>3. Without(u, i) = Picked(w, g)
    BY <1>3, PickedWithout DEF u
  <2>4. /\ g \in Seq(1 .. Len(w)) /\ Len(g) = Len(from) - 1
        /\ \A j \in 1 .. Len(from) - 1 : /\ g[j] = from[Past(i, j)]
                                         /\ Past(i, j) \in 1 .. Len(from) /\ Past(i, j) # i
        /\ \A j, m \in 1 .. Len(from) - 1 : j < m => Past(i, j) < Past(i, m)
        /\ \A m \in 1 .. Len(from) : m # i => \E j \in 1 .. Len(from) - 1 : m = Past(i, j)
    <3>0. g \in Seq(1 .. Len(w)) /\ Removed(g, from, i)
      BY <1>3, WithoutFacts
    <3>1. /\ g \in Seq(1 .. Len(w)) /\ Len(g) = Len(from) - 1
          /\ \A j \in 1 .. Len(from) - 1 : /\ g[j] = from[Past(i, j)]
                                           /\ Past(i, j) \in 1 .. Len(from) /\ Past(i, j) # i
      BY <1>3, <3>0 DEF Removed
    <3>2. \A j, m \in 1 .. Len(from) - 1 : j < m => Past(i, j) < Past(i, m)
      BY <3>0 DEF Removed
    <3>3. \A m \in 1 .. Len(from) : m # i => \E j \in 1 .. Len(from) - 1 : m = Past(i, j)
      BY <3>0 DEF Removed
    <3> QED BY <3>1, <3>2, <3>3
  <2> HIDE DEF x, g
  <2>5. Increasing(g)
    <3>1. ASSUME NEW j \in 1 .. Len(g), NEW m \in 1 .. Len(g), j < m PROVE g[j] < g[m]
      <4>1. j \in 1 .. Len(from) - 1 /\ m \in 1 .. Len(from) - 1
        BY <2>4
      <4>2. /\ Past(i, j) \in 1 .. Len(from) /\ Past(i, m) \in 1 .. Len(from)
            /\ Past(i, j) < Past(i, m)
        BY <2>4, <3>1, <4>1
      <4>3. from[Past(i, j)] < from[Past(i, m)]
        BY <1>3, <4>2 DEF Increasing
      <4> QED BY <2>4, <4>1, <4>3
    <3> QED BY <3>1 DEF Increasing
  <2>6. ASSUME NEW m \in 1 .. Len(from), from[m] = k PROVE m = i
    <3>1. ~(m < i) /\ ~(i < m)
      <4>1. m < i => from[m] < from[i]
        BY <1>3 DEF Increasing
      <4>2. i < m => from[i] < from[m]
        BY <1>3 DEF Increasing
      <4> QED BY <1>5, <1>6, <2>6, <4>1, <4>2
    <3> QED BY <1>4, <3>1
  <2>7. ASSUME NEW j \in 1 .. Len(w)
        PROVE  (\E q \in 1 .. Len(g) : g[q] = j)
                 <=> (j > k \/ ~Doomed(Hdr(e.cells[w[j]]), name, val))
    <3>1. (\E q \in 1 .. Len(g) : g[q] = j) <=> (\E m \in 1 .. Len(from) : m # i /\ from[m] = j)
      <4>1. ASSUME NEW q \in 1 .. Len(g), g[q] = j
            PROVE  \E m \in 1 .. Len(from) : m # i /\ from[m] = j
        BY <2>4, <4>1
      <4>2. ASSUME NEW m \in 1 .. Len(from), m # i, from[m] = j
            PROVE  \E q \in 1 .. Len(g) : g[q] = j
        <5>1. PICK q \in 1 .. Len(from) - 1 : m = Past(i, q)
          BY <2>4, <4>2
        <5>2. q \in 1 .. Len(g) /\ g[q] = j
          BY <2>4, <4>2, <5>1
        <5> QED BY <5>2
      <4> QED BY <4>1, <4>2
    <3>2. (\E m \in 1 .. Len(from) : m # i /\ from[m] = j)
            <=> (j # k /\ \E m \in 1 .. Len(from) : from[m] = j)
      BY <1>6, <2>6
    <3>3. CASE j = k
      <4>1. ~(j > k)
        BY <1>5, <3>3
      <4> QED BY <1>13, <3>1, <3>2, <3>3, <4>1
    <3>4. CASE j # k
      <4>1. j > k - 1 <=> j > k
        BY <1>5, <3>4
      <4> QED BY <1>3, <3>1, <3>2, <3>4, <4>1
    <3> QED BY <3>3, <3>4
  <2>8. Left(e, w, name, val, k, g)
    BY <2>4, <2>5, <2>7 DEF Left
  <2>9. ASSUME NEW j \in 1 .. Len(g) PROVE Hdr(x.cells[w[g[j]]]) = Hdr(e.cells[w[g[j]]])
    <3>1. j \in 1 .. Len(from) - 1
      BY <2>4
    <3>2. Past(i, j) \in 1 .. Len(from) /\ Past(i, j) # i /\ g[j] = from[Past(i, j)]
      BY <2>4, <3>1
    <3>3. u[Past(i, j)] = w[g[j]]
      BY <1>4, <3>2
    <3>4. Hdr(x.cells[w[g[j]]]) = Hdr(s.e.cells[w[g[j]]])
      BY <2>2, <3>2, <3>3
    <3> QED BY <1>7, <3>2, <3>4
  <2>10. ASSUME NEW q \in 1 .. Len(g), g[q] = k + 1 PROVE s.lp = Before(Picked(w, g), q)
    <3>1. q \in 1 .. Len(from) - 1 /\ q \in Nat /\ i \in Nat /\ 1 <= q /\ 1 <= i
      BY <1>4, <2>4
    <3>2. Past(i, q) \in 1 .. Len(from) /\ from[Past(i, q)] = k + 1
      BY <2>4, <2>10, <3>1
    <3>3. Past(i, q) = i + 1
      BY <1>11, <3>2
    <3>4. q = i
      BY <3>1, <3>3 DEF Past
    <3>5. CASE i = 1
      BY <1>7, <3>4, <3>5 DEF Before
    <3>6. CASE i # 1
      <4>1. i - 1 \in 1 .. Len(u) - 1 /\ i - 1 < i
        BY <1>4, <3>1, <3>4, <3>6
      <4>2. Past(i, i - 1) = i - 1
        BY <4>1 DEF Past
      <4>3. Without(u, i)[i - 1] = u[i - 1]
        <5>1. \A j \in 1 .. Len(u) - 1 : Without(u, i)[j] = u[Past(i, j)]
          <6>1. Removed(Without(u, i), u, i)
            BY <1>4, <1>8, WithoutFacts
          <6> QED BY <6>1 DEF Removed
        <5> QED BY <4>1, <4>2, <5>1
      <4> QED BY <1>7, <2>3, <3>4, <3>6, <4>3 DEF Before
    <3> QED BY <3>5, <3>6
  <2>11. Pruned(e, w, x, s.lp, k, g)
    BY <2>2, <2>3, <2>9, <2>10 DEF Pruned
  <2> QED BY <1>2, <2>1, <2>2, <2>8, <2>11 DEF Cut
<1> QED BY <1>12, <1>13

Taken(old, new, name, val) ==
  \E from \in Seq(1 .. Len(old)) :
    /\ Increasing(from) /\ Len(new) = Len(from)
    /\ \A i \in 1 .. Len(from) : new[i] = old[from[i]]
    /\ \A j \in 1 .. Len(old) :
         (\E i \in 1 .. Len(from) : from[i] = j) <=> ~Doomed(old[j], name, val)

\* The loop of esl_event_del_header_val over the list w.
Deletes(e, w, name, val, d) ==
  d = [k \in 0 .. Len(w) |-> IF k = 0 THEN [e |-> e, lp |-> NULL]
                             ELSE Turn(w, name, val, k, d[k - 1])]

LEMMA StartCuts ==
  ASSUME NEW e \in Event, NEW w \in Seq(Nat), Chain(e, w), NEW name, NEW val
  PROVE  [e |-> e, lp |-> NULL] \in Cut(e, w, name, val, 0)
<1> DEFINE from == [i \in 1 .. Len(w) |-> i]
<1>1. /\ Len(w) \in Nat /\ from \in Seq(1 .. Len(w)) /\ Len(from) = Len(w)
      /\ \A i \in 1 .. Len(w) : from[i] = i
  OBVIOUS
<1> HIDE DEF from
<1>2. Picked(w, from) = w
  <2>1. /\ Picked(w, from) \in Seq(Nat) /\ Len(Picked(w, from)) = Len(w)
        /\ \A i \in 1 .. Len(w) : Picked(w, from)[i] = w[from[i]]
    BY <1>1, PickedFacts
  <2>2. \A i \in 1 .. Len(w) : Picked(w, from)[i] = w[i]
    BY <1>1, <2>1
  <2> QED BY <2>1, <2>2, SeqEqual
<1>3. Left(e, w, name, val, 0, from)
  <2>1. Increasing(from)
    BY <1>1 DEF Increasing
  <2>2. ASSUME NEW j \in 1 .. Len(w)
        PROVE  j > 0 /\ \E i \in 1 .. Len(from) : from[i] = j
    BY <1>1
  <2> QED BY <1>1, <2>1, <2>2 DEF Left
<1>4. ASSUME NEW i \in 1 .. Len(from), from[i] = 0 + 1 PROVE NULL = Before(w, i)
  <2>1. i \in 1 .. Len(w)
    BY <1>1
  <2>2. from[i] = i
    BY <1>1, <2>1
  <2>3. i = 1
    BY <1>4, <2>1, <2>2
  <2> QED BY <2>3 DEF Before
<1>5. Pruned(e, w, e, NULL, 0, from)
  BY <1>2, <1>4 DEF Pruned
<1>6. [e |-> e, lp |-> NULL] \in [e : Event, lp : Nat]
  BY DEF NULL
<1> QED BY <1>3, <1>5, <1>6 DEF Cut

LEMMA DeletesExist ==
  ASSUME NEW e \in Event, NEW w \in Seq(Nat), Chain(e, w), NEW name, NEW val
  PROVE  \E d : Deletes(e, w, name, val, d)
<1> DEFINE n == Len(w)
           a == [e |-> e, lp |-> NULL]
           X == [k \in 0 .. n |-> Cut(e, w, name, val, k)]
           F == [k \in 1 .. n |-> [s \in Cut(e, w, name, val, k - 1) |-> Turn(w, name, val, k, s)]]
<1>1. n \in Nat /\ \A k \in 1 .. n : k \in 0 .. n /\ k - 1 \in 0 .. n
  OBVIOUS
<1>2. a \in X[0]
  <2>1. 0 \in 0 .. n
    BY <1>1
  <2>2. X[0] = Cut(e, w, name, val, 0)
    BY <2>1
  <2> QED BY <2>2, StartCuts
<1>3. ASSUME NEW k \in 1 .. n, NEW s \in X[k - 1]
      PROVE  F[k][s] = Turn(w, name, val, k, s) /\ F[k][s] \in X[k]
  <2>1. X[k - 1] = Cut(e, w, name, val, k - 1) /\ X[k] = Cut(e, w, name, val, k)
    BY <1>1
  <2>2. s \in Cut(e, w, name, val, k - 1)
    BY <2>1
  <2>3. F[k] = [t \in Cut(e, w, name, val, k - 1) |-> Turn(w, name, val, k, t)]
    OBVIOUS
  <2>4. F[k][s] = Turn(w, name, val, k, s)
    BY <2>2, <2>3
  <2>5. Turn(w, name, val, k, s) \in Cut(e, w, name, val, k)
    BY <2>2, TurnCuts
  <2> QED BY <2>1, <2>4, <2>5
<1>4. PICK f : Runs(f, F, a, n) /\ \A k \in 0 .. n : f[k] \in X[k]
  <2> HIDE DEF F, X, a, n
  <2>1. \A k \in 1 .. n : \A s \in X[k - 1] : F[k][s] \in X[k]
    BY <1>3
  <2> QED BY <1>1, <1>2, <2>1, LoopRuns
<1>5. f = [k \in 0 .. n |-> IF k = 0 THEN a ELSE F[k][f[k - 1]]]
  BY <1>4 DEF Runs
<1>6. ASSUME NEW k \in 1 .. n PROVE F[k][f[k - 1]] = Turn(w, name, val, k, f[k - 1])
  <2>1. f[k - 1] \in X[k - 1]
    BY <1>1, <1>4
  <2> HIDE DEF F, X
  <2> QED BY <1>3, <2>1
<1>7. ASSUME NEW k \in 0 .. n
      PROVE  (IF k = 0 THEN a ELSE F[k][f[k - 1]])
               = IF k = 0 THEN a ELSE Turn(w, name, val, k, f[k - 1])
  <2>1. k = 0 \/ k \in 1 .. n
    BY <1>1
  <2> HIDE DEF F, X, a, n
  <2> QED BY <1>6, <2>1
<1>8. f = [k \in 0 .. n |-> IF k = 0 THEN a ELSE Turn(w, name, val, k, f[k - 1])]
  <2> HIDE DEF F, X, a, n
  <2> QED BY <1>5, <1>7
<1>9. Deletes(e, w, name, val, f)
  BY <1>8 DEF Deletes
<1> QED BY <1>9

LEMMA DeletedFacts ==
  ASSUME NEW e \in Event, NEW w \in Seq(Nat), Chain(e, w), NEW name, NEW val
  PROVE  /\ Sound(Deleted(e, name, val))
         /\ Taken(Listed(e), Listed(Deleted(e, name, val)), name, val)
<1> DEFINE n == Len(w)
           d == CHOOSE d : Deletes(e, w, name, val, d)
<1>1. n \in Nat /\ Walk(e) = w /\ n \in 0 .. n
  BY WalkIsChain
<1>2. Deletes(e, w, name, val, d)
  BY DeletesExist
<1>3. Deleted(e, name, val) = d[n].e
  BY <1>1 DEF Deleted, Deletes, Turn
<1> HIDE DEF d
<1>4. d[0] = [e |-> e, lp |-> NULL] /\ \A k \in 1 .. n : d[k] = Turn(w, name, val, k, d[k - 1])
  BY <1>1, <1>2 DEF Deletes
<1>5. d[n] \in Cut(e, w, name, val, n)
  <2> DEFINE X == [k \in 0 .. n |-> Cut(e, w, name, val, k)]
  <2>1. d[0] \in X[0]
    <3>1. 0 \in 0 .. n
      BY <1>1
    <3>2. X[0] = Cut(e, w, name, val, 0)
      BY <3>1
    <3> QED BY <1>4, <3>2, StartCuts
  <2>2. ASSUME NEW k \in 1 .. n, d[k - 1] \in X[k - 1] PROVE d[k] \in X[k]
    <3>1. X[k - 1] = Cut(e, w, name, val, k - 1) /\ X[k] = Cut(e, w, name, val, k)
      BY <1>1
    <3> HIDE DEF X
    <3>2. d[k - 1] \in Cut(e, w, name, val, k - 1)
      BY <2>2, <3>1
    <3>3. Turn(w, name, val, k, d[k - 1]) \in Cut(e, w, name, val, k)
      BY <3>2, TurnCuts
    <3> QED BY <1>4, <3>1, <3>3
  <2>3. \A k \in 0 .. n : d[k] \in X[k]
    <3> HIDE DEF X
    <3> QED BY <1>1, <2>1, <2>2, LoopKeeps
  <2> QED BY <1>1, <2>3
<1> DEFINE x == d[n].e
<1>6. PICK from : /\ Left(e, w, name, val, n, from)
                  /\ Pruned(e, w, x, d[n].lp, n, from)
  BY <1>5 DEF Cut
<1>7. x \in Event
  BY <1>5 DEF Cut
<1> HIDE DEF x
<1>8. from \in Seq(1 .. n) /\ Chain(x, Picked(w, from)) /\ Picked(w, from) \in Seq(Nat)
  BY <1>6, PickedFacts DEF Left, Pruned
<1>9. Sound(x)
  BY <1>7, <1>8 DEF Sound
<1>10. Taken(Listed(e), Listed(x), name, val)
  <2>1. Len(Listed(e)) = n /\ \A k \in 1 .. n : Listed(e)[k] = Hdr(e.cells[w[k]])
    BY ListedFacts
  <2>2. /\ Len(Picked(w, from)) = Len(from)
        /\ \A i \in 1 .. Len(from) : from[i] \in 1 .. n /\ Picked(w, from)[i] = w[from[i]]
    BY <1>8, PickedFacts
  <2>3. /\ Len(Listed(x)) = Len(from)
        /\ \A i \in 1 .. Len(from) : Listed(x)[i] = Hdr(x.cells[Picked(w, from)[i]])
    <3> DEFINE v == Picked(w, from)
    <3>1. v \in Seq(Nat) /\ Chain(x, v) /\ Len(v) = Len(from)
      BY <1>8, <2>2
    <3> HIDE DEF v
    <3>2. Len(Listed(x)) = Len(v) /\ \A i \in 1 .. Len(v) : Listed(x)[i] = Hdr(x.cells[v[i]])
      BY <1>7, <3>1, ListedFacts
    <3> QED BY <3>1, <3>2 DEF v
  <2>4. ASSUME NEW i \in 1 .. Len(from) PROVE Listed(x)[i] = Listed(e)[from[i]]
    <3>1. Hdr(x.cells[w[from[i]]]) = Hdr(e.cells[w[from[i]]])
      BY <1>6 DEF Pruned
    <3> QED BY <2>1, <2>2, <2>3, <3>1
  <2>5. ASSUME NEW j \in 1 .. n
        PROVE  (\E i \in 1 .. Len(from) : from[i] = j) <=> ~Doomed(Listed(e)[j], name, val)
    <3>1. (\E i \in 1 .. Len(from) : from[i] = j)
            <=> (j > n \/ ~Doomed(Hdr(e.cells[w[j]]), name, val))
      BY <1>6 DEF Left
    <3>2. ~(j > n)
      BY <1>1
    <3> QED BY <2>1, <3>1, <3>2
  <2>6. Increasing(from)
    BY <1>6 DEF Left
  <2> QED BY <1>8, <2>1, <2>3, <2>4, <2>5, <2>6 DEF Taken
<1> QED BY <1>3, <1>9, <1>10 DEF x

\* Nothing is taken out when no header is meant.
LEMMA TakenNone ==
  ASSUME NEW old \in Seq(Headers), NEW new \in Seq(Headers), NEW name, NEW val,
         Taken(old, new, name, val), \A j \in 1 .. Len(old) : ~Doomed(old[j], name, val)
  PROVE  new = old
<1> DEFINE n == Len(old)
<1>1. PICK from \in Seq(1 .. n) :
        /\ Increasing(from) /\ Len(new) = Len(from)
        /\ \A i \in 1 .. Len(from) : new[i] = old[from[i]]
        /\ \A j \in 1 .. n : \E i \in 1 .. Len(from) : from[i] = j
  BY DEF Taken
<1>2. /\ n \in Nat /\ Len(from) \in Nat
      /\ \A i \in 1 .. Len(from) : from[i] \in Nat /\ 1 <= from[i] /\ from[i] <= n
  <2>1. n \in Nat /\ Len(from) \in Nat /\ \A i \in 1 .. Len(from) : from[i] \in 1 .. n
    OBVIOUS
  <2> QED BY <2>1
<1> HIDE DEF n
<1> DEFINE S == {m \in Nat : m = 0 \/ (m \in 1 .. Len(from) /\ from[m] = m)}
<1>3. ASSUME NEW m \in Nat, m \in S, m < n PROVE m + 1 \in S
  <2>1. m + 1 \in 1 .. n
    BY <1>2, <1>3
  <2>2. PICK q \in 1 .. Len(from) : from[q] = m + 1
    BY <1>1, <2>1
  <2>3. CASE m = 0
    <3>1. 1 \in 1 .. Len(from) /\ q \in Nat /\ q >= 1 /\ from[1] \in Nat /\ from[1] >= 1
      BY <1>2, <2>2
    <3>2. CASE q # 1
      <4>1. 1 < q
        BY <3>1, <3>2
      <4>2. from[1] < from[q]
        BY <1>1, <3>1, <4>1 DEF Increasing
      <4> QED BY <2>2, <2>3, <3>1, <4>2
    <3>3. CASE q = 1
      <4>1. m + 1 = 1 /\ m + 1 \in Nat
        BY <2>3
      <4> QED BY <2>2, <3>1, <3>3, <4>1
    <3> QED BY <3>2, <3>3
  <2>4. CASE m # 0
    <3>1. m \in 1 .. Len(from) /\ from[m] = m /\ from[q] = from[m] + 1
      BY <1>3, <2>2, <2>4
    <3>2. q = m + 1
      <4> HIDE DEF S
      <4> QED BY <1>1, <1>2, <3>1, NextPlace
    <3> QED BY <2>2, <3>2
  <2> QED BY <2>3, <2>4
<1>4. \A m \in 0 .. n : m \in S
  <2>1. 0 \in S
    OBVIOUS
  <2> HIDE DEF S
  <2> QED BY <1>2, <1>3, <2>1, UpTo DEF Inductive
<1>5. ASSUME NEW i \in 1 .. n PROVE i \in 1 .. Len(from) /\ from[i] = i
  <2>1. i \in 0 .. n /\ i # 0
    BY <1>2
  <2>2. i \in S
    BY <1>4, <2>1
  <2> QED BY <2>1, <2>2
<1> HIDE DEF S
<1>6. Len(from) = n
  <2>1. n <= Len(from)
    <3>1. n = 0 \/ n \in 1 .. n
      BY <1>2
    <3>2. n = 0 \/ n \in 1 .. Len(from)
      BY <1>5, <3>1
    <3> QED BY <1>2, <3>2
  <2>2. ASSUME n < Len(from) PROVE FALSE
    <3> DEFINE q == Len(from)
    <3>1. q \in 1 .. Len(from) /\ from[q] \in 1 .. n /\ q \in Nat /\ q > n
      BY <1>1, <1>2, <2>2
    <3>2. from[q] \in 1 .. Len(from) /\ from[from[q]] = from[q] /\ from[q] < q
      BY <1>2, <1>5, <3>1
    <3>3. from[from[q]] < from[q]
      <4> HIDE DEF q
      <4> QED BY <1>1, <3>1, <3>2 DEF Increasing
    <3>4. from[q] \in Nat
      BY <1>2, <3>1
    <3> QED BY <3>2, <3>3, <3>4
  <2> QED BY <1>2, <2>1, <2>2
<1>7. /\ Len(new) = Len(old) /\ \A i \in 1 .. Len(old) : new[i] = old[i]
  BY <1>1, <1>5, <1>6 DEF n
<1> QED BY <1>7, SeqEqual

-----------------------------------------------------------------------------
(* Adding.                                                                   *)

\* What one call does to a list.
Effect(old, new, name) ==
  \/ new = old
  \/ ChangedFirst(old, new, name)
  \/ \E h : AddedLast(old, new, h) \/ AddedFirst(old, new, h)
  \/ \E val : Taken(old, new, name, val)

\* What pushing does.
Pushes(old, new, name) ==
  \/ ChangedFirst(old, new, name)
  \/ /\ \A i \in 1 .. Len(old) : old[i].name # name
     /\ new = old \/ \E h : h.name = name /\ AddedLast(old, new, h)

LEMMA SoundList ==
  ASSUME NEW e, Sound(e)
  PROVE  e \in Event /\ Listed(e) \in Seq(Headers)
BY ListedFacts DEF Sound

LEMMA NameOf ==
  ASSUME NEW e \in Event, NEW w \in Seq(Nat), Chain(e, w), NEW k \in 1 .. Len(w)
  PROVE  /\ Listed(e)[k].name = e.cells[w[k]].name /\ Listed(e)[k].value = e.cells[w[k]].value
         /\ e.cells[w[k]] \in Cell /\ w[k] \in 1 .. Len(e.cells) /\ e.cells[w[k]].name # NoName
<1>1. w[k] \in 1 .. Len(e.cells) /\ e.cells[w[k]].name # NoName
  BY DEF Chain
<1>2. e.cells[w[k]] \in Cell
  BY <1>1, EventFacts
<1>3. Listed(e)[k] = Hdr(e.cells[w[k]])
  BY ListedFacts
<1> QED BY <1>1, <1>2, <1>3, CellFacts

LEMMA EmptyText == Empty \in Text
BY DEF Empty, Text, Piece

LEMMA RedrawnFacts ==
  ASSUME NEW c \in Cell, NEW array \in Text
  PROVE  /\ Redrawn(c, array) \in Cell /\ Redrawn(c, array).name = c.name
         /\ Redrawn(c, array).next = c.next
BY DEF Redrawn, Cell, Text

LEMMA FreshFacts ==
  ASSUME NEW name \in Name, NEW stack, NEW part \in Piece
  PROVE  /\ Fresh(name, stack, part) \in Cell /\ Fresh(name, stack, part).name = name
         /\ Fresh(name, stack, part).next = NULL /\ name # NoName
         /\ NewHeader(name) \in Cell /\ NewHeader(name).name = name
         /\ NewHeader(name).next = NULL /\ NewHeader(name).array = <<>>
<1>1. name \in Name \cup {NoName} /\ name # NoName
  <2>1. "priority" # "" /\ "Content-Length" # ""
    OBVIOUS
  <2> QED BY <2>1, HeadersAssumption DEF Name, NoName
<1>2. <<part>> \in Text /\ <<part>> \in Seq(Piece)
  BY DEF Text
<1>3. Freed \in Cell
  BY FreedCell
<1>4. NewHeader(name) = [name |-> name, value |-> Empty, array |-> <<>>, next |-> NULL]
  BY DEF NewHeader, Freed
<1>5. NewHeader(name) \in Cell
  <2>1. Empty \in Text /\ <<>> \in Seq(Piece) /\ NULL \in Nat
    <3>1. Empty \in Text
      BY EmptyText
    <3>2. <<>> \in Seq(Piece) /\ NULL \in Nat
      BY DEF NULL
    <3> QED BY <3>1, <3>2
  <2>2. [name |-> name, value |-> Empty, array |-> <<>>, next |-> NULL] \in Cell
    BY <1>1, <2>1 DEF Cell
  <2> QED BY <1>4, <2>2
<1>6. CASE stack = BOTTOM
  <2>1. Fresh(name, stack, part) = [NewHeader(name) EXCEPT !.value = <<part>>]
    BY <1>6 DEF Fresh
  <2>2. Fresh(name, stack, part) = [name |-> name, value |-> <<part>>, array |-> <<>>, next |-> NULL]
    BY <1>4, <2>1
  <2>3. [name |-> name, value |-> <<part>>, array |-> <<>>, next |-> NULL] \in Cell
    <3>1. <<>> \in Seq(Piece) /\ NULL \in Nat
      BY DEF NULL
    <3> QED BY <1>1, <1>2, <3>1 DEF Cell
  <2> QED BY <1>1, <1>4, <1>5, <2>2, <2>3
<1>7. CASE stack # BOTTOM
  <2>1. Fresh(name, stack, part) = Redrawn(NewHeader(name), <<part>>)
    BY <1>7 DEF Fresh
  <2> QED BY <1>1, <1>2, <1>4, <1>5, <2>1, RedrawnFacts
<1> QED BY <1>6, <1>7

LEMMA InPlaceFacts ==
  ASSUME NEW c \in Cell, NEW stack, NEW part \in Piece
  PROVE  /\ InPlace(c, stack, part) \in Cell /\ InPlace(c, stack, part).name = c.name
         /\ InPlace(c, stack, part).next = c.next
<1>1. <<part>> \in Text /\ <<part>> \in Seq(Piece) /\ c.value \in Seq(Piece) /\ c.array \in Seq(Piece)
  BY DEF Text, Cell
<1>2. CASE stack = TOP
  BY <1>1, <1>2 DEF InPlace, Cell
<1>3. CASE stack # TOP
  <2> DEFINE a == (IF c.array = <<>> THEN c.value ELSE c.array) \o <<part>>
  <2>1. ASSUME NEW s \in Seq(Piece) PROVE s \o <<part>> \in Text
    <3>1. s \o <<part>> \in Seq(Piece) /\ Len(s \o <<part>>) = Len(s) + 1 /\ Len(s) \in Nat
      BY <1>1
    <3>2. s \o <<part>> # <<>>
      BY <3>1
    <3> QED BY <3>1, <3>2 DEF Text
  <2>2. a \in Text
    BY <1>1, <2>1
  <2>3. InPlace(c, stack, part) = Redrawn(c, a)
    BY <1>3 DEF InPlace, Pushed
  <2> HIDE DEF a
  <2> QED BY <2>2, <2>3, RedrawnFacts
<1> QED BY <1>2, <1>3

\* A call of the header that HeaderPtr finds.
LEMMA ChangedAtPtr ==
  ASSUME NEW e \in Event, NEW w \in Seq(Nat), Chain(e, w), NEW name,
         HeaderPtr(e, name) # NULL, NEW c \in Cell,
         c.name = e.cells[HeaderPtr(e, name)].name, c.next = e.cells[HeaderPtr(e, name)].next
  PROVE  /\ Sound([e EXCEPT !.cells[HeaderPtr(e, name)] = c])
         /\ ChangedFirst(Listed(e), Listed([e EXCEPT !.cells[HeaderPtr(e, name)] = c]), name)
         /\ \E i \in 1 .. Len(Listed(e)) :
              /\ IsFirst(Listed(e), i, name) /\ Listed(e)[i] = Hdr(e.cells[HeaderPtr(e, name)])
              /\ Replaced(Listed(e), Listed([e EXCEPT !.cells[HeaderPtr(e, name)] = c]), i, Hdr(c))
<1>1. PICK k \in 1 .. Len(w) : /\ HeaderPtr(e, name) = w[k]
                               /\ e.cells[w[k]].name = name
                               /\ \A j \in 1 .. k - 1 : e.cells[w[j]].name # name
  BY PtrFacts
<1>2. /\ c.name = e.cells[w[k]].name /\ c.next = e.cells[w[k]].next /\ c.name = name
      /\ \A j \in 1 .. k - 1 : e.cells[w[j]].name # e.cells[w[k]].name
  BY <1>1
<1>3. /\ Sound([e EXCEPT !.cells[w[k]] = c])
      /\ ChangedFirst(Listed(e), Listed([e EXCEPT !.cells[w[k]] = c]), c.name)
      /\ Replaced(Listed(e), Listed([e EXCEPT !.cells[w[k]] = c]), k, Hdr(c))
  BY <1>2, ChangeInPlace
<1>4. IsFirst(Listed(e), k, name) /\ Listed(e)[k] = Hdr(e.cells[w[k]]) /\ k \in 1 .. Len(Listed(e))
  <2>1. Len(Listed(e)) = Len(w) /\ Len(w) \in Nat
    BY ListedFacts
  <2>2. \A j \in 1 .. k - 1 : j \in 1 .. Len(w)
    BY <2>1
  <2>3. \A j \in 1 .. Len(w) : Listed(e)[j].name = e.cells[w[j]].name
    BY NameOf
  <2> QED BY <1>1, <2>1, <2>2, <2>3, ListedFacts DEF IsFirst
<1> QED BY <1>1, <1>2, <1>3, <1>4

LEMMA PtrCell ==
  ASSUME NEW e \in Event, NEW w \in Seq(Nat), Chain(e, w), NEW name, HeaderPtr(e, name) # NULL
  PROVE  e.cells[HeaderPtr(e, name)] \in Cell /\ HeaderPtr(e, name) \in 1 .. Len(e.cells)
BY PtrFacts, NameOf

\* No header of that name.
LEMMA PtrNull ==
  ASSUME NEW e \in Event, NEW w \in Seq(Nat), Chain(e, w), NEW name, HeaderPtr(e, name) = NULL
  PROVE  \A i \in 1 .. Len(Listed(e)) : Listed(e)[i].name # name
<1>1. \A k \in 1 .. Len(w) : e.cells[w[k]].name # name
  BY PtrFacts
<1>2. Len(Listed(e)) = Len(w)
  BY ListedFacts
<1> QED BY <1>1, <1>2, NameOf

LEMMA PlainFacts ==
  ASSUME NEW e, Sound(e), NEW stack \in 0 .. 3, NEW name \in Name, NEW part \in Piece
  PROVE  /\ Sound(AddPlain(e, stack, name, part))
         /\ Effect(Listed(e), Listed(AddPlain(e, stack, name, part)), name)
         /\ stack = PUSH => Pushes(Listed(e), Listed(AddPlain(e, stack, name, part)), name)
<1>1. PICK w \in Seq(Nat) : Chain(e, w)
  BY DEF Sound
<1>2. e \in Event
  BY DEF Sound
<1> DEFINE p == HeaderPtr(e, name)
           f == AddPlain(e, stack, name, part)
<1>3. CASE stack # BOTTOM /\ p # NULL
  <2> DEFINE c == InPlace(e.cells[p], stack, part)
  <2>1. f = [e EXCEPT !.cells[p] = c]
    BY <1>3 DEF AddPlain
  <2>2. e.cells[p] \in Cell
    BY <1>1, <1>2, <1>3, PtrCell
  <2>3. c \in Cell /\ c.name = e.cells[p].name /\ c.next = e.cells[p].next
    BY <2>2, InPlaceFacts
  <2> HIDE DEF c
  <2>4. Sound([e EXCEPT !.cells[p] = c]) /\ ChangedFirst(Listed(e), Listed([e EXCEPT !.cells[p] = c]), name)
    BY <1>1, <1>2, <1>3, <2>3, ChangedAtPtr
  <2> HIDE DEF f, p
  <2> QED BY <2>1, <2>4 DEF Effect, Pushes, f
<1>4. CASE ~(stack # BOTTOM /\ p # NULL) /\ part = ""
  <2>1. f = Deleted(e, name, Empty)
    BY <1>4 DEF AddPlain
  <2>2. Sound(f) /\ Taken(Listed(e), Listed(f), name, Empty)
    BY <1>1, <1>2, <2>1, DeletedFacts
  <2>3. ASSUME stack = PUSH PROVE Pushes(Listed(e), Listed(f), name)
    <3>1. p = NULL
      <4>1. stack # BOTTOM
        BY <2>3 DEF PUSH, BOTTOM
      <4> QED BY <1>4, <4>1
    <3>2. \A i \in 1 .. Len(Listed(e)) : Listed(e)[i].name # name
      BY <1>1, <1>2, <3>1, PtrNull
    <3>3. Listed(f) = Listed(e)
      <4>1. Listed(f) \in Seq(Headers) /\ Listed(e) \in Seq(Headers)
        BY <2>2, SoundList
      <4>2. \A i \in 1 .. Len(Listed(e)) : ~Doomed(Listed(e)[i], name, Empty)
        BY <3>2 DEF Doomed
      <4> HIDE DEF f
      <4> QED BY <2>2, <4>1, <4>2, TakenNone
    <3> QED BY <3>2, <3>3 DEF Pushes
  <2> QED BY <2>2, <2>3 DEF Effect
<1>5. CASE ~(stack # BOTTOM /\ p # NULL) /\ part # ""
  <2> DEFINE h == Fresh(name, stack, part)
  <2>1. f = Linked(e, h, stack)
    BY <1>5 DEF AddPlain
  <2>2. h \in Cell /\ h.name = name /\ h.name # NoName /\ h.next = NULL
    BY FreshFacts
  <2> HIDE DEF h
  <2>3. CASE stack % 2 = 1
    <3>1. Sound(f) /\ AddedFirst(Listed(e), Listed(f), Hdr(h))
      BY <1>1, <1>2, <2>1, <2>2, <2>3, LinkInFront
    <3>2. stack # PUSH
      BY <2>3 DEF PUSH
    <3> HIDE DEF f
    <3> QED BY <3>1, <3>2 DEF Effect, f
  <2>4. CASE stack % 2 # 1
    <3>1. Sound(f) /\ AddedLast(Listed(e), Listed(f), Hdr(h))
      BY <1>1, <1>2, <2>1, <2>2, <2>4, LinkAtEnd
    <3>2. ASSUME stack = PUSH PROVE Pushes(Listed(e), Listed(f), name)
      <4>1. p = NULL
        <5>1. stack # BOTTOM
          BY <3>2 DEF PUSH, BOTTOM
        <5> QED BY <1>5, <5>1
      <4>2. \A i \in 1 .. Len(Listed(e)) : Listed(e)[i].name # name
        BY <1>1, <1>2, <4>1, PtrNull
      <4>3. Hdr(h).name = name
        BY <2>2, CellFacts
      <4> HIDE DEF f
      <4> QED BY <3>1, <4>2, <4>3 DEF Pushes
    <3> HIDE DEF f
    <3> QED BY <3>1, <3>2 DEF Effect, f
  <2> QED BY <2>3, <2>4
<1> QED BY <1>3, <1>4, <1>5

\* What pushing several parts does.
Grown(old, new, name) ==
  \/ new = old
  \/ ChangedFirst(old, new, name)
  \/ /\ \A i \in 1 .. Len(old) : old[i].name # name
     /\ \E h : h.name = name /\ AddedLast(old, new, h)

LEMMA PushesGrow ==
  ASSUME NEW old \in Seq(Headers), NEW mid \in Seq(Headers), NEW new \in Seq(Headers),
         NEW name, Grown(old, mid, name), Pushes(mid, new, name)
  PROVE  Grown(old, new, name)
<1>1. Len(old) \in Nat /\ Len(mid) \in Nat /\ Len(new) \in Nat
  OBVIOUS
<1>2. CASE mid = old
  BY <1>2 DEF Grown, Pushes
<1>3. CASE ChangedFirst(old, mid, name)
  <2>1. PICK i \in 1 .. Len(old) :
          /\ old[i].name = name /\ mid[i].name = name
          /\ \A j \in 1 .. Len(old) : j # i => mid[j] = old[j]
          /\ \A j \in 1 .. i - 1 : old[j].name # name
    BY <1>3 DEF ChangedFirst
  <2>2. Len(mid) = Len(old)
    BY <1>3 DEF ChangedFirst
  <2>3. ChangedFirst(mid, new, name)
    BY <2>1, <2>2 DEF Pushes
  <2>4. PICK k \in 1 .. Len(mid) :
          /\ mid[k].name = name /\ new[k].name = name
          /\ \A j \in 1 .. Len(mid) : j # k => new[j] = mid[j]
          /\ \A j \in 1 .. k - 1 : mid[j].name # name
    BY <2>3 DEF ChangedFirst
  <2>5. Len(new) = Len(mid)
    BY <2>3 DEF ChangedFirst
  <2>6. k = i
    <3>1. ~(i \in 1 .. k - 1)
      BY <2>1, <2>4
    <3>2. ASSUME k \in 1 .. i - 1 PROVE FALSE
      <4>1. k \in 1 .. Len(old) /\ k # i /\ old[k].name # name
        BY <1>1, <2>1, <2>2, <3>2
      <4>2. mid[k] = old[k]
        BY <2>1, <4>1
      <4> QED BY <2>4, <4>1, <4>2
    <3>3. i \in Nat /\ k \in Nat /\ i >= 1 /\ k >= 1
      BY <1>1
    <3> QED BY <3>1, <3>2, <3>3
  <2>7. \A j \in 1 .. Len(old) : j # i => new[j] = old[j]
    BY <2>1, <2>2, <2>4, <2>6
  <2>8. new[i].name = name
    BY <2>4, <2>6
  <2>9. ChangedFirst(old, new, name)
    BY <2>1, <2>2, <2>5, <2>7, <2>8 DEF ChangedFirst
  <2> QED BY <2>9 DEF Grown
<1>4. CASE /\ \A i \in 1 .. Len(old) : old[i].name # name
           /\ \E h : h.name = name /\ AddedLast(old, mid, h)
  <2>1. PICK h : h.name = name /\ AddedLast(old, mid, h)
    BY <1>4
  <2>2. /\ Len(mid) = Len(old) + 1 /\ mid[Len(old) + 1].name = name
        /\ \A i \in 1 .. Len(old) : mid[i] = old[i]
    BY <2>1 DEF AddedLast
  <2>3. ChangedFirst(mid, new, name)
    <3>1. Len(old) + 1 \in 1 .. Len(mid)
      BY <1>1, <2>2
    <3> QED BY <2>2, <3>1 DEF Pushes
  <2>4. PICK k \in 1 .. Len(mid) :
          /\ mid[k].name = name /\ new[k].name = name
          /\ \A j \in 1 .. Len(mid) : j # k => new[j] = mid[j]
    BY <2>3 DEF ChangedFirst
  <2>5. k = Len(old) + 1
    <3>1. ASSUME k \in 1 .. Len(old) PROVE FALSE
      BY <1>4, <2>2, <2>4, <3>1
    <3>2. k \in 1 .. Len(old) + 1
      BY <2>2
    <3> QED BY <1>1, <3>1, <3>2
  <2>6. Len(new) = Len(old) + 1
    BY <2>2, <2>3 DEF ChangedFirst
  <2>7. ASSUME NEW i \in 1 .. Len(old) PROVE new[i] = old[i]
    <3>1. i \in 1 .. Len(mid) /\ i # k
      BY <1>1, <2>2, <2>5
    <3> QED BY <2>2, <2>4, <3>1
  <2>8. AddedLast(old, new, new[Len(old) + 1])
    BY <2>6, <2>7 DEF AddedLast
  <2>9. new[Len(old) + 1].name = name
    BY <2>4, <2>5
  <2> QED BY <1>4, <2>8, <2>9 DEF Grown
<1> QED BY <1>2, <1>3, <1>4 DEF Grown

\* The loop of esl_event_add_array.
Adds(e, name, text, a) ==
  a = [k \in 0 .. Len(text) |-> IF k = 0 THEN e ELSE AddPlain(a[k - 1], PUSH, name, text[k])]
Growths(e, name) == {x \in Event : Sound(x) /\ Grown(Listed(e), Listed(x), name)}

LEMMA PushGrows ==
  ASSUME NEW e, Sound(e), NEW name \in Name, NEW part \in Piece, NEW x \in Growths(e, name)
  PROVE  AddPlain(x, PUSH, name, part) \in Growths(e, name)
<1> DEFINE y == AddPlain(x, PUSH, name, part)
<1>1. Sound(x) /\ Grown(Listed(e), Listed(x), name)
  BY DEF Growths
<1>2. PUSH \in 0 .. 3
  BY DEF PUSH
<1>3. Sound(y) /\ Pushes(Listed(x), Listed(y), name)
  BY <1>1, <1>2, PlainFacts
<1> HIDE DEF y
<1>4. /\ Listed(e) \in Seq(Headers) /\ Listed(x) \in Seq(Headers) /\ Listed(y) \in Seq(Headers)
      /\ y \in Event
  BY <1>1, <1>3, SoundList
<1>5. Grown(Listed(e), Listed(y), name)
  BY <1>1, <1>3, <1>4, PushesGrow
<1> QED BY <1>3, <1>4, <1>5 DEF Growths, y

LEMMA AddsExist ==
  ASSUME NEW e, Sound(e), NEW name \in Name, NEW text \in Seq(Piece)
  PROVE  \E a : Adds(e, name, text, a)
<1> DEFINE n == Len(text)
           G == Growths(e, name)
           X == [k \in 0 .. n |-> G]
           F == [k \in 1 .. n |-> [x \in G |-> AddPlain(x, PUSH, name, text[k])]]
<1>1. n \in Nat /\ \A k \in 1 .. n : k \in 0 .. n /\ k - 1 \in 0 .. n /\ text[k] \in Piece
  OBVIOUS
<1>2. e \in G
  BY SoundList DEF Growths, Grown
<1> HIDE DEF G
<1>3. \A k \in 0 .. n : X[k] = G
  OBVIOUS
<1>4. ASSUME NEW k \in 1 .. n, NEW x \in G
      PROVE  F[k][x] = AddPlain(x, PUSH, name, text[k]) /\ F[k][x] \in G
  <2>1. F[k][x] = AddPlain(x, PUSH, name, text[k])
    OBVIOUS
  <2>2. text[k] \in Piece
    BY <1>1
  <2>3. AddPlain(x, PUSH, name, text[k]) \in G
    BY <2>2, PushGrows DEF G
  <2> QED BY <2>1, <2>3
<1> HIDE DEF F, X
<1>5. PICK f : Runs(f, F, e, n) /\ \A k \in 0 .. n : f[k] \in X[k]
  <2>1. e \in X[0]
    <3>1. 0 \in 0 .. n
      BY <1>1
    <3> QED BY <1>2, <1>3, <3>1
  <2>2. \A k \in 1 .. n : \A x \in X[k - 1] : F[k][x] \in X[k]
    BY <1>1, <1>3, <1>4
  <2> HIDE DEF n
  <2> QED BY <1>1, <2>1, <2>2, LoopRuns
<1>6. f = [k \in 0 .. n |-> IF k = 0 THEN e ELSE F[k][f[k - 1]]]
  BY <1>5 DEF Runs
<1>7. ASSUME NEW k \in 0 .. n
      PROVE  (IF k = 0 THEN e ELSE F[k][f[k - 1]])
               = IF k = 0 THEN e ELSE AddPlain(f[k - 1], PUSH, name, text[k])
  <2>1. CASE k = 0
    BY <2>1
  <2>2. CASE k # 0
    <3>1. k \in 1 .. n
      BY <1>1, <2>2
    <3>2. f[k - 1] \in G
      BY <1>1, <1>3, <1>5, <3>1
    <3> QED BY <1>4, <2>2, <3>1, <3>2
  <2> QED BY <2>1, <2>2
<1>8. f = [k \in 0 .. n |-> IF k = 0 THEN e ELSE AddPlain(f[k - 1], PUSH, name, text[k])]
  <2> HIDE DEF n
  <2> QED BY <1>6, <1>7
<1>9. Adds(e, name, text, f)
  BY <1>8 DEF Adds
<1> QED BY <1>9

LEMMA ArrayFacts ==
  ASSUME NEW e, Sound(e), NEW name \in Name, NEW text \in Seq(Piece)
  PROVE  /\ Sound(AddArray(e, name, text))
         /\ Grown(Listed(e), Listed(AddArray(e, name, text)), name)
<1> DEFINE n == Len(text)
           a == CHOOSE a : Adds(e, name, text, a)
           G == Growths(e, name)
           X == [k \in 0 .. n |-> G]
<1>1. n \in Nat /\ n \in 0 .. n /\ \A k \in 1 .. n : text[k] \in Piece
  OBVIOUS
<1>2. Adds(e, name, text, a)
  BY AddsExist
<1>3. AddArray(e, name, text) = a[n]
  BY DEF AddArray, Adds
<1> HIDE DEF a
<1>4. a[0] = e /\ \A k \in 1 .. n : a[k] = AddPlain(a[k - 1], PUSH, name, text[k])
  BY <1>1, <1>2 DEF Adds
<1>5. e \in G
  BY SoundList DEF Growths, Grown
<1>6. \A k \in 1 .. n : a[k - 1] \in G => a[k] \in G
  BY <1>1, <1>4, PushGrows
<1> HIDE DEF G
<1>7. a[n] \in G
  <2>1. \A k \in 0 .. n : X[k] = G
    OBVIOUS
  <2>2. 0 \in 0 .. n /\ \A k \in 1 .. n : k \in 0 .. n /\ k - 1 \in 0 .. n
    BY <1>1
  <2> HIDE DEF X, n
  <2>3. \A k \in 0 .. n : a[k] \in X[k]
    BY <1>1, <1>4, <1>5, <1>6, <2>1, <2>2, LoopKeeps
  <2> QED BY <1>1, <2>1, <2>3
<1> QED BY <1>3, <1>7 DEF G, Growths

LEMMA GrownIsEffect ==
  ASSUME NEW old, NEW new, NEW name, Grown(old, new, name)
  PROVE  Effect(old, new, name)
BY DEF Grown, Effect

LEMMA HeaderFacts ==
  ASSUME NEW e, Sound(e), NEW stack \in 0 .. 3, NEW name \in Name, NEW text \in Text
  PROVE  /\ Sound(AddHeader(e, stack, name, text))
         /\ Effect(Listed(e), Listed(AddHeader(e, stack, name, text)), name)
<1>1. text \in Seq(Piece) /\ Len(text) \in Nat /\ text # <<>>
  BY DEF Text
<1>2. CASE Len(text) > 1
  <2>1. AddHeader(e, stack, name, text) = AddArray(e, name, text)
    BY <1>2 DEF AddHeader
  <2> QED BY <1>1, <2>1, ArrayFacts, GrownIsEffect
<1>3. CASE ~(Len(text) > 1)
  <2>1. AddHeader(e, stack, name, text) = AddPlain(e, stack, name, text[1])
    BY <1>3 DEF AddHeader
  <2>2. text[1] \in Piece
    <3>1. 1 \in 1 .. Len(text)
      BY <1>1
    <3> QED BY <1>1, <3>1
  <2> QED BY <2>1, <2>2, PlainFacts
<1> QED BY <1>2, <1>3

LEMMA FilledFacts ==
  ASSUME NEW array \in Seq(Piece), NEW i \in Nat, i >= Len(array), NEW part \in Piece
  PROVE  Filled(array, i, part) \in Text
<1> DEFINE gap == [k \in 1 .. i - Len(array) |-> ""]
<1>1. i - Len(array) \in Nat /\ "" \in Piece
  <2>1. Len(array) \in Nat
    OBVIOUS
  <2>2. "" \in Piece
    BY DEF Piece
  <2>3. i - Len(array) \in Nat
    BY <2>1
  <2> QED BY <2>2, <2>3
<1>2. gap \in Seq(Piece)
  <2>1. \A n \in Nat, x \in Piece : [k \in 1 .. n |-> x] \in Seq(Piece)
    OBVIOUS
  <2> QED BY <1>1, <2>1, Zenon
<1> HIDE DEF gap
<1>3. array \o gap \in Seq(Piece) /\ <<part>> \in Seq(Piece) /\ Len(<<part>>) = 1
  BY <1>2
<1>4. ASSUME NEW s \in Seq(Piece) PROVE s \o <<part>> \in Text
  <2>1. s \o <<part>> \in Seq(Piece) /\ Len(s \o <<part>>) = Len(s) + 1 /\ Len(s) \in Nat
    BY <1>3
  <2>2. s \o <<part>> # <<>>
    BY <2>1
  <2> QED BY <2>1, <2>2 DEF Text
<1>5. (array \o gap) \o <<part>> \in Text
  BY <1>3, <1>4
<1> QED BY <1>5 DEF Filled, gap

LEMMA IndexedFacts ==
  ASSUME NEW e, Sound(e), NEW name \in Name, NEW i \in Int, NEW part \in Piece
  PROVE  /\ Sound(AddIndexed(e, BOTTOM, name, i, part))
         /\ Effect(Listed(e), Listed(AddIndexed(e, BOTTOM, name, i, part)), name)
<1> DEFINE p == HeaderPtr(e, name)
           f == AddIndexed(e, BOTTOM, name, i, part)
<1>1. PICK w \in Seq(Nat) : Chain(e, w)
  BY DEF Sound
<1>2. e \in Event
  BY DEF Sound
<1>3. CASE i \notin 0 .. MaxIndex
  <2>1. f = e
    BY <1>3 DEF AddIndexed
  <2> QED BY <2>1 DEF Effect
<1>4. CASE i \in 0 .. MaxIndex /\ p = NULL
  <2> DEFINE h == Redrawn(NewHeader(name), Filled(<<>>, i, part))
  <2>1. f = Linked(e, h, BOTTOM)
    BY <1>4 DEF AddIndexed
  <2>2. Filled(<<>>, i, part) \in Text
    <3>1. <<>> \in Seq(Piece) /\ Len(<<>>) = 0 /\ i \in Nat /\ i >= 0
      BY <1>4
    <3> QED BY <3>1, FilledFacts
  <2>3. /\ NewHeader(name) \in Cell /\ NewHeader(name).name = name
        /\ NewHeader(name).next = NULL /\ name # NoName
    BY FreshFacts
  <2>4. h \in Cell /\ h.name # NoName /\ h.next = NULL
    BY <2>2, <2>3, RedrawnFacts
  <2> HIDE DEF h
  <2>5. BOTTOM % 2 # 1
    BY DEF BOTTOM
  <2>6. Sound(f) /\ AddedLast(Listed(e), Listed(f), Hdr(h))
    BY <1>1, <1>2, <2>1, <2>4, <2>5, LinkAtEnd
  <2> HIDE DEF f
  <2> QED BY <2>6 DEF Effect, f
<1>5. CASE i \in 0 .. MaxIndex /\ p # NULL
  <2>1. e.cells[p] \in Cell /\ e.cells[p].array \in Seq(Piece)
    <3>1. e.cells[p] \in Cell
      BY <1>1, <1>2, <1>5, PtrCell
    <3> QED BY <3>1, CellFacts
  <2>2. \E c \in Cell : /\ c.name = e.cells[p].name /\ c.next = e.cells[p].next
                        /\ f = [e EXCEPT !.cells[p] = c]
    <3>1. CASE i < Len(e.cells[p].array)
      <4> DEFINE c == [e.cells[p] EXCEPT !.array[i + 1] = part]
      <4>1. f = [e EXCEPT !.cells[p].array[i + 1] = part]
        BY <1>5, <3>1 DEF AddIndexed
      <4>2. f = [e EXCEPT !.cells[p] = c]
        BY <4>1
      <4>3. i + 1 \in 1 .. Len(e.cells[p].array)
        BY <1>5, <2>1, <3>1
      <4>4. [e.cells[p].array EXCEPT ![i + 1] = part] \in Seq(Piece)
        BY <2>1, <4>3
      <4>5. c = [e.cells[p] EXCEPT !.array = [e.cells[p].array EXCEPT ![i + 1] = part]]
        OBVIOUS
      <4>6. ASSUME NEW d \in Cell, NEW array \in Seq(Piece)
            PROVE  /\ [d EXCEPT !.array = array] \in Cell
                   /\ [d EXCEPT !.array = array].name = d.name
                   /\ [d EXCEPT !.array = array].next = d.next
        BY DEF Cell
      <4>7. c \in Cell /\ c.name = e.cells[p].name /\ c.next = e.cells[p].next
        <5> HIDE DEF c, p
        <5> QED BY <2>1, <4>4, <4>5, <4>6
      <4> HIDE DEF c
      <4> QED BY <4>2, <4>7
    <3>2. CASE ~(i < Len(e.cells[p].array))
      <4> DEFINE c == Redrawn(e.cells[p], Filled(e.cells[p].array, i, part))
      <4>1. f = [e EXCEPT !.cells[p] = c]
        BY <1>5, <3>2 DEF AddIndexed
      <4>2. Filled(e.cells[p].array, i, part) \in Text
        <5>1. i \in Nat /\ i >= Len(e.cells[p].array)
          BY <1>5, <2>1, <3>2
        <5> QED BY <2>1, <5>1, FilledFacts
      <4>3. c \in Cell /\ c.name = e.cells[p].name /\ c.next = e.cells[p].next
        BY <2>1, <4>2, RedrawnFacts
      <4> HIDE DEF c
      <4> QED BY <4>1, <4>3
    <3> QED BY <3>1, <3>2
  <2>3. PICK c \in Cell : /\ c.name = e.cells[p].name /\ c.next = e.cells[p].next
                          /\ f = [e EXCEPT !.cells[p] = c]
    BY <2>2
  <2>4. /\ Sound([e EXCEPT !.cells[p] = c])
        /\ ChangedFirst(Listed(e), Listed([e EXCEPT !.cells[p] = c]), name)
    BY <1>1, <1>2, <1>5, <2>3, ChangedAtPtr
  <2> HIDE DEF f, p
  <2> QED BY <2>3, <2>4 DEF Effect, f
<1> QED BY <1>3, <1>4, <1>5

-----------------------------------------------------------------------------
(* Copying: the headers of a list are added one after the other.             *)

OneCopied(x, h) ==
  IF h.array # <<>> THEN AddArray(x, h.name, h.array) ELSE AddHeader(x, BOTTOM, h.name, h.value)

LEMMA OneCopiedFacts ==
  ASSUME NEW x, Sound(x), NEW h \in Headers
  PROVE  Sound(OneCopied(x, h)) /\ Effect(Listed(x), Listed(OneCopied(x, h)), h.name)
<1>1. h.name \in Name /\ h.value \in Text /\ h.array \in Seq(Piece)
  BY DEF Headers, Name
<1>2. CASE h.array # <<>>
  <2>1. OneCopied(x, h) = AddArray(x, h.name, h.array)
    BY <1>2 DEF OneCopied
  <2> QED BY <1>1, <2>1, ArrayFacts, GrownIsEffect
<1>3. CASE h.array = <<>>
  <2>1. OneCopied(x, h) = AddHeader(x, BOTTOM, h.name, h.value)
    BY <1>3 DEF OneCopied
  <2>2. BOTTOM \in 0 .. 3
    BY DEF BOTTOM
  <2> QED BY <1>1, <2>1, <2>2, HeaderFacts
<1> QED BY <1>2, <1>3

Copies(target, from, c) ==
  c = [k \in 0 .. Len(from) |-> IF k = 0 THEN target ELSE OneCopied(c[k - 1], from[k])]

LEMMA CopiesExist ==
  ASSUME NEW target, Sound(target), NEW from \in Seq(Headers)
  PROVE  \E c : Copies(target, from, c)
<1> DEFINE n == Len(from)
           G == {x \in Event : Sound(x)}
           X == [k \in 0 .. n |-> G]
           F == [k \in 1 .. n |-> [x \in G |-> OneCopied(x, from[k])]]
<1>1. n \in Nat /\ \A k \in 1 .. n : k \in 0 .. n /\ k - 1 \in 0 .. n /\ from[k] \in Headers
  OBVIOUS
<1>2. \A x : x \in G <=> Sound(x)
  BY SoundList
<1> HIDE DEF G
<1>3. \A k \in 0 .. n : X[k] = G
  OBVIOUS
<1>4. ASSUME NEW k \in 1 .. n, NEW x \in G
      PROVE  F[k][x] = OneCopied(x, from[k]) /\ F[k][x] \in G
  <2>1. F[k][x] = OneCopied(x, from[k])
    OBVIOUS
  <2>2. OneCopied(x, from[k]) \in G
    BY <1>1, <1>2, OneCopiedFacts
  <2> QED BY <2>1, <2>2
<1> HIDE DEF F, X
<1>5. PICK f : Runs(f, F, target, n) /\ \A k \in 0 .. n : f[k] \in X[k]
  <2>1. target \in X[0]
    <3>1. 0 \in 0 .. n
      BY <1>1
    <3> QED BY <1>2, <1>3, <3>1
  <2>2. \A k \in 1 .. n : \A x \in X[k - 1] : F[k][x] \in X[k]
    BY <1>1, <1>3, <1>4
  <2> HIDE DEF n
  <2> QED BY <1>1, <2>1, <2>2, LoopRuns
<1>6. f = [k \in 0 .. n |-> IF k = 0 THEN target ELSE F[k][f[k - 1]]]
  BY <1>5 DEF Runs
<1>7. ASSUME NEW k \in 0 .. n
      PROVE  (IF k = 0 THEN target ELSE F[k][f[k - 1]])
               = IF k = 0 THEN target ELSE OneCopied(f[k - 1], from[k])
  <2>1. CASE k = 0
    BY <2>1
  <2>2. CASE k # 0
    <3>1. k \in 1 .. n
      BY <1>1, <2>2
    <3>2. f[k - 1] \in G
      BY <1>1, <1>3, <1>5, <3>1
    <3> QED BY <1>4, <2>2, <3>1, <3>2
  <2> QED BY <2>1, <2>2
<1>8. f = [k \in 0 .. n |-> IF k = 0 THEN target ELSE OneCopied(f[k - 1], from[k])]
  <2> HIDE DEF n
  <2> QED BY <1>6, <1>7
<1> QED BY <1>8 DEF Copies

\* Copies are sound; one that has one header to copy adds it, or does nothing.
LEMMA CopiedFacts ==
  ASSUME NEW target, Sound(target), NEW e, Sound(e)
  PROVE  /\ Sound(Copied(target, e))
         /\ Len(Listed(e)) = 0 => Copied(target, e) = target
         /\ Len(Listed(e)) = 1 =>
              \E name : Effect(Listed(target), Listed(Copied(target, e)), name)
<1> DEFINE from == Listed(e)
           n == Len(from)
           c == CHOOSE c : Copies(target, from, c)
           G == {x \in Event : Sound(x)}
           X == [k \in 0 .. n |-> G]
<1>1. from \in Seq(Headers) /\ n \in Nat /\ n \in 0 .. n /\ \A k \in 1 .. n : from[k] \in Headers
  BY SoundList
<1>2. Copies(target, from, c)
  <2> HIDE DEF from
  <2> QED BY <1>1, CopiesExist
<1>3. Copied(target, e) = c[n]
  BY DEF Copied, Copies, OneCopied
<1> HIDE DEF c, from
<1>4. c[0] = target /\ \A k \in 1 .. n : c[k] = OneCopied(c[k - 1], from[k])
  BY <1>1, <1>2 DEF Copies
<1>5. \A x : x \in G <=> Sound(x)
  BY SoundList
<1> HIDE DEF G
<1>6. \A k \in 1 .. n : c[k - 1] \in G => c[k] \in G
  BY <1>1, <1>4, <1>5, OneCopiedFacts
<1>7. c[n] \in G
  <2>1. \A k \in 0 .. n : X[k] = G
    OBVIOUS
  <2>2. 0 \in 0 .. n /\ \A k \in 1 .. n : k \in 0 .. n /\ k - 1 \in 0 .. n
    BY <1>1
  <2>3. c[0] \in G
    BY <1>4, <1>5
  <2> HIDE DEF X, n
  <2>4. \A k \in 0 .. n : c[k] \in X[k]
    BY <1>1, <1>6, <2>1, <2>2, <2>3, LoopKeeps
  <2> QED BY <1>1, <2>1, <2>4
<1>8. ASSUME n = 1 PROVE \E name : Effect(Listed(target), Listed(c[n]), name)
  <2>1. 1 \in 1 .. n /\ 1 - 1 = 0
    BY <1>8
  <2>2. c[1] = OneCopied(target, from[1])
    BY <1>4, <2>1
  <2>3. from[1] \in Headers
    BY <1>1, <2>1
  <2>4. Effect(Listed(target), Listed(c[1]), from[1].name)
    BY <2>2, <2>3, OneCopiedFacts
  <2> QED BY <1>8, <2>4
<1>9. n = 0 => c[n] = target
  BY <1>4
<1> QED BY <1>3, <1>5, <1>7, <1>8, <1>9 DEF from

-----------------------------------------------------------------------------
(* The calls on an event.                                                    *)

LEMMA CreatedFacts ==
  Sound(Created) /\ Listed(Created) = <<>>
<1>1. Created \in Event
  <2>1. <<>> \in Bodies
    BY DEF Bodies
  <2> QED BY <2>1 DEF Created, Event, NULL
<1>2. <<>> \in Seq(Nat) /\ Len(<<>>) = 0
  OBVIOUS
<1>3. Chain(Created, <<>>)
  BY DEF Created, Chain
<1>4. Listed(Created) \in Seq(Headers) /\ Len(Listed(Created)) = 0
  BY <1>1, <1>2, <1>3, ListedFacts
<1>5. \A l \in Seq(Headers) : Len(l) = 0 => l = <<>>
  OBVIOUS
<1>6. Listed(Created) = <<>>
  BY <1>4, <1>5, Zenon
<1> QED BY <1>1, <1>2, <1>3, <1>6 DEF Sound

\* A list that was empty has at most one header after a call.
LEMMA EffectOnEmpty ==
  ASSUME NEW new \in Seq(Headers), NEW name, Effect(<<>>, new, name)
  PROVE  Len(new) = 0 \/ Len(new) = 1
<1>1. Len(<<>>) = 0 /\ Len(<<>>) + 1 = 1 /\ 1 .. Len(<<>>) = {}
  OBVIOUS
<1>2. CASE new = <<>>
  BY <1>2
<1>3. CASE ChangedFirst(<<>>, new, name)
  BY <1>1, <1>3 DEF ChangedFirst
<1>4. CASE \E h : AddedLast(<<>>, new, h) \/ AddedFirst(<<>>, new, h)
  BY <1>1, <1>4 DEF AddedLast, AddedFirst
<1>5. CASE \E val : Taken(<<>>, new, name, val)
  <2>1. PICK val, from \in Seq(1 .. Len(<<>>)) : Len(new) = Len(from)
    BY <1>5 DEF Taken
  <2>2. Len(from) \in Nat /\ \A i \in 1 .. Len(from) : from[i] \in 1 .. Len(<<>>)
    BY <2>1
  <2>3. ~(1 \in 1 .. Len(from))
    BY <1>1, <2>2
  <2>4. Len(from) = 0
    BY <2>2, <2>3
  <2> QED BY <2>1, <2>4
<1> QED BY <1>2, <1>3, <1>4, <1>5 DEF Effect

LEMMA MergedFacts ==
  ASSUME NEW e, Sound(e), NEW name \in Name, NEW text \in Text
  PROVE  /\ Sound(Merged(e, AddHeader(Created, BOTTOM, name, text)))
         /\ \E n : Effect(Listed(e), Listed(Merged(e, AddHeader(Created, BOTTOM, name, text))), n)
<1> DEFINE other == AddHeader(Created, BOTTOM, name, text)
<1>1. BOTTOM \in 0 .. 3
  BY DEF BOTTOM
<1>2. Sound(other) /\ Effect(<<>>, Listed(other), name)
  BY <1>1, CreatedFacts, HeaderFacts
<1> HIDE DEF other
<1>3. Len(Listed(other)) = 0 \/ Len(Listed(other)) = 1
  BY <1>2, SoundList, EffectOnEmpty
<1>4. Merged(e, other) = Copied(e, other)
  BY DEF Merged
<1>5. Sound(Copied(e, other))
  BY <1>2, CopiedFacts
<1>6. \E n : Effect(Listed(e), Listed(Copied(e, other)), n)
  <2>1. CASE Len(Listed(other)) = 0
    BY <1>2, <2>1, CopiedFacts DEF Effect
  <2>2. CASE Len(Listed(other)) = 1
    BY <1>2, <2>2, CopiedFacts
  <2> QED BY <1>3, <2>1, <2>2
<1> QED BY <1>4, <1>5, <1>6 DEF other

LEMMA BodyFacts ==
  ASSUME NEW e, Sound(e), NEW body \in Bodies
  PROVE  /\ Sound([e EXCEPT !.body = body]) /\ Listed([e EXCEPT !.body = body]) = Listed(e)
         /\ [e EXCEPT !.body = body].body = body
<1> DEFINE f == [e EXCEPT !.body = body]
<1>1. e \in Event
  BY DEF Sound
<1>2. PICK w \in Seq(Nat) : Chain(e, w)
  BY DEF Sound
<1>3. f = [headers |-> e.headers, last |-> e.last, cells |-> e.cells, body |-> body]
  BY <1>1, EventFacts
<1> HIDE DEF f
<1>4. f.headers = e.headers /\ f.last = e.last /\ f.cells = e.cells /\ f.body = body
  BY <1>3
<1>5. f \in Event
  BY <1>1, <1>3, EventFacts DEF Event
<1>6. Chain(f, w)
  BY <1>2, <1>4 DEF Chain
<1>7. Listed(f) = Listed(e)
  <2>1. /\ Listed(e) \in Seq(Headers) /\ Len(Listed(e)) = Len(w)
        /\ \A k \in 1 .. Len(w) : Listed(e)[k] = Hdr(e.cells[w[k]])
    BY <1>1, <1>2, ListedFacts
  <2>2. /\ Listed(f) \in Seq(Headers) /\ Len(Listed(f)) = Len(w)
        /\ \A k \in 1 .. Len(w) : Listed(f)[k] = Hdr(e.cells[w[k]])
    BY <1>4, <1>5, <1>6, ListedFacts
  <2> QED BY <2>1, <2>2, SeqEqual
<1> QED BY <1>4, <1>5, <1>6, <1>7 DEF Sound, f

\* One step: the list stays sound, and one call is done to it.
LEMMA StepFacts ==
  ASSUME Sound(event), HeadersNext
  PROVE  /\ Sound(event')
         /\ \/ Listed(event)' = <<>>
            \/ \E name : Effect(Listed(event), Listed(event)', name)
<1>1. /\ HeaderNames \subseteq Name /\ "priority" \in Name
      /\ BOTTOM \in 0 .. 3 /\ TOP \in 0 .. 3 /\ PUSH \in 0 .. 3 /\ UNSHIFT \in 0 .. 3
  BY DEF Name, BOTTOM, TOP, PUSH, UNSHIFT
<1>2. Parts \subseteq Piece
  BY DEF Piece
<1>3. \A p \in Parts : <<p>> \in Text
  BY <1>2 DEF Text
<1>4. ASSUME NEW text \in Texts PROVE text \in Text
  <2>1. CASE \E p \in Parts : text = <<p>>
    BY <1>3, <2>1
  <2>2. CASE \E p, q \in Parts : text = <<p, q>>
    BY <1>2, <2>2 DEF Text
  <2> QED BY <2>1, <2>2 DEF Texts
<1>5. ASSUME NEW name \in HeaderNames, NEW text \in Texts, Add(name, text) \/ Merge(name, text)
      PROVE  Sound(event') /\ \E n : Effect(Listed(event), Listed(event'), n)
  <2>1. CASE Add(name, text)
    <3>1. event' = AddHeader(event, BOTTOM, name, text)
      BY <2>1 DEF Add, Becomes
    <3> QED BY <1>1, <1>4, <3>1, HeaderFacts
  <2>2. CASE Merge(name, text)
    <3>1. event' = Merged(event, AddHeader(Created, BOTTOM, name, text))
      BY <2>2 DEF Merge, Becomes
    <3> QED BY <1>1, <1>4, <3>1, MergedFacts
  <2> QED BY <1>5, <2>1, <2>2
<1>6. ASSUME NEW part \in Parts \ {""}, SetPriority(part)
      PROVE  Sound(event') /\ \E n : Effect(Listed(event), Listed(event'), n)
  <2>1. event' = AddHeader(event, TOP, "priority", <<part>>)
    BY <1>6 DEF SetPriority, Becomes
  <2> QED BY <1>1, <1>3, <2>1, HeaderFacts
<1>7. ASSUME NEW name \in HeaderNames, NEW part \in Parts,
             Push(name, part) \/ Unshift(name, part) \/ Delete(name, <<part>>)
      PROVE  Sound(event') /\ \E n : Effect(Listed(event), Listed(event'), n)
  <2>1. CASE Push(name, part)
    <3>1. event' = AddHeader(event, PUSH, name, <<part>>)
      BY <2>1 DEF Push, Becomes
    <3> QED BY <1>1, <1>3, <3>1, HeaderFacts
  <2>2. CASE Unshift(name, part)
    <3>1. event' = AddHeader(event, UNSHIFT, name, <<part>>)
      BY <2>2 DEF Unshift, Becomes
    <3> QED BY <1>1, <1>3, <3>1, HeaderFacts
  <2>3. CASE Delete(name, <<part>>)
    <3>1. event' = Deleted(event, name, <<part>>)
      BY <2>3 DEF Delete, Becomes
    <3>2. Sound(event') /\ Taken(Listed(event), Listed(event'), name, <<part>>)
      BY <3>1, DeletedFacts DEF Sound
    <3> QED BY <3>2 DEF Effect
  <2> QED BY <1>7, <2>1, <2>2, <2>3
<1>8. ASSUME NEW name \in HeaderNames, NEW i \in Indices, NEW part \in Parts,
             AddAt(name, i, part)
      PROVE  Sound(event') /\ \E n : Effect(Listed(event), Listed(event'), n)
  <2>1. event' = AddIndexed(event, BOTTOM, name, i, part)
    BY <1>8 DEF AddAt, Becomes
  <2>2. i \in Int
    BY HeadersAssumption
  <2> QED BY <1>1, <1>2, <2>1, <2>2, IndexedFacts
<1>9. ASSUME NEW body \in {Plain, Percent}, AddBody(body)
      PROVE  Sound(event') /\ \E n : Effect(Listed(event), Listed(event'), n)
  <2>1. event' = [event EXCEPT !.body = body]
    BY <1>9 DEF AddBody, Becomes
  <2>2. body \in Bodies
    BY DEF Bodies
  <2> QED BY <2>1, <2>2, BodyFacts DEF Effect
<1>10. ASSUME Destroy PROVE Sound(event') /\ Listed(event') = <<>>
  BY <1>10, CreatedFacts DEF Destroy
<1> QED BY <1>5, <1>6, <1>7, <1>8, <1>9, <1>10 DEF HeadersNext

LEMMA SoundMeansList ==
  ASSUME Sound(event)
  PROVE  ListSound
<1>1. event \in Event
  BY DEF Sound
<1>2. PICK w \in Seq(Nat) : Chain(event, w)
  BY DEF Sound
<1>3. Walk(event) = w /\ DOMAIN w = 1 .. Len(w) /\ DOMAIN event.cells = 1 .. Len(event.cells)
  BY <1>1, <1>2, WalkIsChain, EventFacts
<1>4. \A j, k \in DOMAIN w : w[j] = w[k] => j = k
  BY <1>2, <1>3 DEF Chain
<1>5. event.last = (IF w = <<>> THEN NULL ELSE Last(w))
  <2>1. w = <<>> <=> Len(w) = 0
    OBVIOUS
  <2> QED BY <1>2, <2>1 DEF Chain, Last
<1>6. ToSet(w) = {i \in DOMAIN event.cells : event.cells[i] # Freed}
  <2>1. ASSUME NEW k \in DOMAIN w PROVE w[k] \in DOMAIN event.cells /\ event.cells[w[k]] # Freed
    BY <1>2, <1>3, FreedCell DEF Chain
  <2>2. ASSUME NEW i \in DOMAIN event.cells, event.cells[i] # Freed
        PROVE  \E k \in DOMAIN w : w[k] = i
    BY <1>2, <1>3, <2>2 DEF Chain
  <2> QED BY <2>1, <2>2 DEF ToSet
<1> QED BY <1>3, <1>4, <1>5, <1>6 DEF ListSound

\* The pointers of an event describe one list (ListSound): for any names and
\* parts, whatever calls are made, headers, last and the next pointers of
\* esl_event.c lead through each header once, to the last one.
THEOREM ListIsSound == HeadersSpec => []ListSound
<1>1. HeadersInit => Sound(event)
  BY CreatedFacts DEF HeadersInit
<1>2. Sound(event) /\ [HeadersNext]_event => Sound(event)'
  <2>1. ASSUME Sound(event), HeadersNext PROVE Sound(event)'
    BY <2>1, StepFacts
  <2>2. ASSUME Sound(event), UNCHANGED event PROVE Sound(event)'
    BY <2>2
  <2> QED BY <2>1, <2>2
<1>3. Sound(event) => ListSound
  BY SoundMeansList
<1> QED BY <1>1, <1>2, <1>3, PTL DEF HeadersSpec

-----------------------------------------------------------------------------
(* The list of headers.                                                      *)

LEMMA AddedLastStep ==
  ASSUME NEW old \in Seq(Headers), NEW new \in Seq(Headers), NEW h, AddedLast(old, new, h)
  PROVE  Abstract!Added(old, new)
<1>1. Len(old) \in Nat /\ Len(new) = Len(old) + 1 /\ \A i \in 1 .. Len(old) : new[i] = old[i]
  BY DEF AddedLast
<1>2. /\ SubSeq(new, 1, Len(old)) \in Seq(Headers) /\ Len(SubSeq(new, 1, Len(old))) = Len(old)
      /\ \A i \in 1 .. Len(old) : SubSeq(new, 1, Len(old))[i] = new[i]
  BY <1>1
<1>3. SubSeq(new, 1, Len(old)) = old
  BY <1>1, <1>2, SeqEqual
<1> QED BY <1>1, <1>3 DEF Abstract!Added

LEMMA AddedFirstStep ==
  ASSUME NEW old \in Seq(Headers), NEW new \in Seq(Headers), NEW h, AddedFirst(old, new, h)
  PROVE  Abstract!Added(old, new)
<1>1. Len(old) \in Nat /\ Len(new) = Len(old) + 1 /\ \A i \in 1 .. Len(old) : new[i + 1] = old[i]
  BY DEF AddedFirst
<1>2. new # <<>>
  BY <1>1
<1>3. /\ Tail(new) \in Seq(Headers) /\ Len(Tail(new)) = Len(old)
      /\ \A i \in 1 .. Len(old) : Tail(new)[i] = new[i + 1]
  BY <1>1, <1>2
<1>4. Tail(new) = old
  BY <1>1, <1>3, SeqEqual
<1> QED BY <1>1, <1>4 DEF Abstract!Added

LEMMA ChangedStep ==
  ASSUME NEW old \in Seq(Headers), NEW new \in Seq(Headers), NEW name, ChangedFirst(old, new, name)
  PROVE  Abstract!Changed(old, new)
<1>1. DOMAIN old = 1 .. Len(old)
  OBVIOUS
<1>2. PICK i \in 1 .. Len(old) :
        /\ old[i].name = name /\ new[i].name = name
        /\ \A j \in 1 .. Len(old) : j # i => new[j] = old[j]
        /\ \A j \in 1 .. i - 1 : old[j].name # name
  BY DEF ChangedFirst
<1>3. \A j \in DOMAIN old : IF j = i THEN new[j].name = old[j].name ELSE new[j] = old[j]
  BY <1>1, <1>2
<1>4. Len(new) = Len(old)
  BY DEF ChangedFirst
<1> QED BY <1>1, <1>2, <1>3, <1>4 DEF Abstract!Changed

LEMMA TakenStep ==
  ASSUME NEW old \in Seq(Headers), NEW new \in Seq(Headers), NEW name, NEW val,
         Taken(old, new, name, val)
  PROVE  new = old \/ Abstract!Removed(old, new)
<1>1. DOMAIN old = 1 .. Len(old) /\ DOMAIN new = 1 .. Len(new) /\ Len(old) \in Nat
  OBVIOUS
<1>2. CASE \A j \in 1 .. Len(old) : ~Doomed(old[j], name, val)
  BY <1>2, TakenNone
<1>3. CASE \E i \in 1 .. Len(old) : Doomed(old[i], name, val)
  <2>1. PICK i \in 1 .. Len(old) : Doomed(old[i], name, val)
    BY <1>3
  <2>2. PICK from \in Seq(1 .. Len(old)) :
          /\ Increasing(from) /\ Len(new) = Len(from)
          /\ \A k \in 1 .. Len(from) : new[k] = old[from[k]]
          /\ \A j \in 1 .. Len(old) :
               (\E k \in 1 .. Len(from) : from[k] = j) <=> ~Doomed(old[j], name, val)
    BY DEF Taken
  <2>3. from \in [DOMAIN new -> DOMAIN old] /\ \A k \in DOMAIN new : from[k] \in 1 .. Len(old)
    BY <1>1, <2>2
  <2>4. /\ \A k, m \in DOMAIN new : k < m => from[k] < from[m]
        /\ \A k \in DOMAIN new : new[k] = old[from[k]]
    BY <1>1, <2>2 DEF Increasing
  <2> DEFINE kept == {j \in DOMAIN old : ~Doomed(old[j], name, val)}
  <2>5. {from[k] : k \in DOMAIN new} = kept
    <3>1. \A k \in DOMAIN new : from[k] \in kept
      BY <1>1, <2>2, <2>3
    <3>2. \A j \in kept : \E k \in DOMAIN new : from[k] = j
      BY <1>1, <2>2
    <3> HIDE DEF kept
    <3> QED BY <3>1, <3>2
  <2>6. Abstract!Keeps(old, new, kept)
    <3> HIDE DEF kept
    <3> QED BY <2>3, <2>4, <2>5 DEF Abstract!Keeps
  <2>7. old[i].name = name /\ val \in {Empty, old[i].value}
    BY <2>1 DEF Doomed
  <2>8. CASE val = Empty
    <3>1. kept = {j \in DOMAIN old : old[j].name # old[i].name}
      BY <2>7, <2>8 DEF Doomed
    <3> HIDE DEF kept
    <3> QED BY <1>1, <2>6, <3>1 DEF Abstract!Removed
  <2>9. CASE val # Empty
    <3>1. kept = {j \in DOMAIN old : old[j].name # old[i].name \/ old[j].value # old[i].value}
      BY <2>7, <2>9 DEF Doomed
    <3> HIDE DEF kept
    <3> QED BY <1>1, <2>6, <3>1 DEF Abstract!Removed
  <2> QED BY <2>8, <2>9
<1> QED BY <1>2, <1>3

LEMMA EffectStep ==
  ASSUME NEW old \in Seq(Headers), NEW new \in Seq(Headers), NEW name, Effect(old, new, name)
  PROVE  new = old \/ Abstract!Step(old, new)
BY AddedLastStep, AddedFirstStep, ChangedStep, TakenStep DEF Effect, Abstract!Step

\* Every call is one step of a list of headers (ListRefinement): it adds a
\* header at an end, changes the first of a name, or takes out headers of one
\* name, and no other header moves (esl_event.c).
THEOREM HeadersAreAList == HeadersSpec => ListRefinement
<1>1. HeadersInit => Sound(event) /\ Abstract!Init
  BY CreatedFacts DEF HeadersInit, Abstract!Init
<1>2. Sound(event) /\ [HeadersNext]_event => Sound(event)'
  BY StepFacts
<1>3. Sound(event) /\ [HeadersNext]_event => [Abstract!Next]_(Listed(event))
  <2>1. ASSUME Sound(event), HeadersNext
        PROVE  Listed(event)' = Listed(event) \/ Abstract!Step(Listed(event), Listed(event)')
    <3>1. Sound(event') /\ (\/ Listed(event)' = <<>>
                            \/ \E name : Effect(Listed(event), Listed(event)', name))
      BY <2>1, StepFacts
    <3>2. Listed(event) \in Seq(Headers) /\ Listed(event)' \in Seq(Headers)
      BY <2>1, <3>1, SoundList
    <3>3. CASE Listed(event)' = <<>>
      BY <3>3 DEF Abstract!Step, Abstract!Emptied
    <3>4. CASE \E name : Effect(Listed(event), Listed(event)', name)
      BY <3>2, <3>4, EffectStep
    <3> QED BY <3>1, <3>3, <3>4
  <2>2. ASSUME Sound(event), UNCHANGED event PROVE Listed(event)' = Listed(event)
    BY <2>2
  <2>3. Abstract!Step(Listed(event), Listed(event)') => Abstract!Next
    BY DEF Abstract!Next
  <2> QED BY <2>1, <2>2, <2>3
<1> QED BY <1>1, <1>2, <1>3, PTL DEF HeadersSpec, ListRefinement, Abstract!Spec

-----------------------------------------------------------------------------
(* What a copy says.  An item is added to a list whose arrays are the first  *)
(* of their names, and whose values begin with something.                    *)

Begun(name, text) == [name |-> name, value |-> text, array |-> text]
Textual(name, text) == [name |-> name, value |-> text, array |-> <<>>]
Grows(h, part) ==
  Begun(h.name, (IF h.array = <<>> THEN h.value ELSE h.array) \o <<part>>)

\* What adding a part does, pushed and at the bottom.
PushedTo(old, new, name, part) ==
  \/ \E i \in 1 .. Len(old) : IsFirst(old, i, name) /\ Replaced(old, new, i, Grows(old[i], part))
  \/ Absent(old, name) /\ part = "" /\ new = old
  \/ Absent(old, name) /\ part # "" /\ AddedLast(old, new, Begun(name, <<part>>))
PutTo(old, new, name, part) ==
  \/ part = "" /\ Taken(old, new, name, Empty)
  \/ part # "" /\ AddedLast(old, new, Textual(name, <<part>>))

LEMMA NewHeaderIs ==
  ASSUME NEW name \in Name
  PROVE  NewHeader(name) = [name |-> name, value |-> Empty, array |-> <<>>, next |-> NULL]
BY DEF NewHeader, Freed

LEMMA FreshBottom ==
  ASSUME NEW name \in Name, NEW part \in Piece
  PROVE  Hdr(Fresh(name, BOTTOM, part)) = Textual(name, <<part>>)
<1>1. Fresh(name, BOTTOM, part) = [NewHeader(name) EXCEPT !.value = <<part>>]
  BY DEF Fresh
<1>2. Fresh(name, BOTTOM, part) = [name |-> name, value |-> <<part>>, array |-> <<>>, next |-> NULL]
  BY <1>1, NewHeaderIs
<1> QED BY <1>2 DEF Hdr, Textual

LEMMA RedrawnHeader ==
  ASSUME NEW c \in Cell, NEW text
  PROVE  Hdr(Redrawn(c, text)) = Begun(c.name, text)
<1>1. Redrawn(c, text) = [[c EXCEPT !.array = text] EXCEPT !.value = text]
  BY DEF Redrawn
<1> DEFINE d == [c EXCEPT !.array = text]
<1>2. /\ DOMAIN d = {"name", "value", "array", "next"}
      /\ d.name = c.name /\ d.array = text
  BY DEF Cell
<1> HIDE DEF d
<1>3. /\ [d EXCEPT !.value = text].name = d.name /\ [d EXCEPT !.value = text].array = d.array
      /\ [d EXCEPT !.value = text].value = text
  BY <1>2
<1>4. Redrawn(c, text) = [d EXCEPT !.value = text]
  BY <1>1 DEF d
<1> QED BY <1>2, <1>3, <1>4 DEF Hdr, Begun

LEMMA FreshPush ==
  ASSUME NEW name \in Name, NEW part \in Piece
  PROVE  Hdr(Fresh(name, PUSH, part)) = Begun(name, <<part>>)
<1>1. Fresh(name, PUSH, part) = Redrawn(NewHeader(name), <<part>>)
  BY DEF Fresh, PUSH, BOTTOM
<1>2. NewHeader(name) \in Cell /\ NewHeader(name).name = name
  BY FreshFacts
<1> QED BY <1>1, <1>2, RedrawnHeader

LEMMA PushedHeader ==
  ASSUME NEW c \in Cell, NEW part \in Piece
  PROVE  Hdr(InPlace(c, PUSH, part)) = Grows(Hdr(c), part)
<1> DEFINE a == (IF c.array = <<>> THEN c.value ELSE c.array) \o <<part>>
<1>1. InPlace(c, PUSH, part) = Redrawn(c, a)
  BY DEF InPlace, Pushed, PUSH, TOP
<1>2. Hdr(c).array = c.array /\ Hdr(c).value = c.value /\ Hdr(c).name = c.name
  BY DEF Hdr
<1>3. Grows(Hdr(c), part) = Begun(c.name, a)
  BY <1>2 DEF Grows
<1> HIDE DEF a
<1> QED BY <1>1, <1>3, RedrawnHeader

LEMMA PushExact ==
  ASSUME NEW e, Sound(e), NEW name \in Name, NEW part \in Piece
  PROVE  PushedTo(Listed(e), Listed(AddPlain(e, PUSH, name, part)), name, part)
<1>1. PICK w \in Seq(Nat) : Chain(e, w)
  BY DEF Sound
<1>2. e \in Event /\ PUSH # BOTTOM /\ PUSH % 2 # 1
  BY DEF Sound, PUSH, BOTTOM
<1> DEFINE p == HeaderPtr(e, name)
           f == AddPlain(e, PUSH, name, part)
<1>3. CASE p # NULL
  <2> DEFINE c == InPlace(e.cells[p], PUSH, part)
  <2>1. f = [e EXCEPT !.cells[p] = c]
    BY <1>2, <1>3 DEF AddPlain
  <2>2. e.cells[p] \in Cell
    BY <1>1, <1>2, <1>3, PtrCell
  <2>3. c \in Cell /\ c.name = e.cells[p].name /\ c.next = e.cells[p].next
    BY <2>2, InPlaceFacts
  <2>4. Hdr(c) = Grows(Hdr(e.cells[p]), part)
    BY <2>2, PushedHeader
  <2> HIDE DEF c
  <2>5. PICK i \in 1 .. Len(Listed(e)) :
          /\ IsFirst(Listed(e), i, name) /\ Listed(e)[i] = Hdr(e.cells[p])
          /\ Replaced(Listed(e), Listed([e EXCEPT !.cells[p] = c]), i, Hdr(c))
    BY <1>1, <1>2, <1>3, <2>3, ChangedAtPtr
  <2> HIDE DEF f, p
  <2>6. Replaced(Listed(e), Listed(f), i, Grows(Listed(e)[i], part))
    BY <2>1, <2>4, <2>5
  <2> QED BY <2>5, <2>6 DEF PushedTo, f
<1>4. CASE p = NULL
  <2>1. Absent(Listed(e), name)
    BY <1>1, <1>2, <1>4, PtrNull DEF Absent
  <2>2. CASE part = ""
    <3>1. f = Deleted(e, name, Empty)
      BY <1>4, <2>2 DEF AddPlain
    <3>2. Sound(f) /\ Taken(Listed(e), Listed(f), name, Empty)
      BY <1>1, <1>2, <3>1, DeletedFacts
    <3>3. Listed(f) \in Seq(Headers) /\ Listed(e) \in Seq(Headers)
      BY <3>2, SoundList
    <3>4. \A i \in 1 .. Len(Listed(e)) : ~Doomed(Listed(e)[i], name, Empty)
      BY <2>1 DEF Doomed, Absent
    <3> HIDE DEF f
    <3>5. Listed(f) = Listed(e)
      BY <3>2, <3>3, <3>4, TakenNone
    <3> QED BY <2>1, <2>2, <3>5 DEF PushedTo, f
  <2>3. CASE part # ""
    <3> DEFINE h == Fresh(name, PUSH, part)
    <3>1. f = Linked(e, h, PUSH)
      BY <1>4, <2>3 DEF AddPlain
    <3>2. h \in Cell /\ h.name # NoName /\ h.next = NULL /\ Hdr(h) = Begun(name, <<part>>)
      BY FreshFacts, FreshPush
    <3> HIDE DEF h
    <3>3. AddedLast(Listed(e), Listed(f), Hdr(h))
      BY <1>1, <1>2, <3>1, <3>2, LinkAtEnd
    <3> HIDE DEF f
    <3> QED BY <2>1, <2>3, <3>2, <3>3 DEF PushedTo, f
  <2> QED BY <2>2, <2>3
<1> QED BY <1>3, <1>4

LEMMA PutExact ==
  ASSUME NEW e, Sound(e), NEW name \in Name, NEW part \in Piece
  PROVE  PutTo(Listed(e), Listed(AddPlain(e, BOTTOM, name, part)), name, part)
<1>1. PICK w \in Seq(Nat) : Chain(e, w)
  BY DEF Sound
<1>2. e \in Event /\ BOTTOM % 2 # 1
  BY DEF Sound, BOTTOM
<1> DEFINE f == AddPlain(e, BOTTOM, name, part)
<1>3. CASE part = ""
  <2>1. f = Deleted(e, name, Empty)
    BY <1>3 DEF AddPlain
  <2>2. Taken(Listed(e), Listed(f), name, Empty)
    BY <1>1, <1>2, <2>1, DeletedFacts
  <2> QED BY <1>3, <2>2 DEF PutTo
<1>4. CASE part # ""
  <2> DEFINE h == Fresh(name, BOTTOM, part)
  <2>1. f = Linked(e, h, BOTTOM)
    BY <1>4 DEF AddPlain
  <2>2. h \in Cell /\ h.name # NoName /\ h.next = NULL /\ Hdr(h) = Textual(name, <<part>>)
    BY FreshFacts, FreshBottom
  <2> HIDE DEF h
  <2>3. AddedLast(Listed(e), Listed(f), Hdr(h))
    BY <1>1, <1>2, <2>1, <2>2, LinkAtEnd
  <2> HIDE DEF f
  <2> QED BY <1>4, <2>2, <2>3 DEF PutTo, f
<1> QED BY <1>3, <1>4

-----------------------------------------------------------------------------
(* The body stays.                                                           *)

LEMMA UnlinkedBody ==
  ASSUME NEW e \in Event, NEW lp, NEW hp
  PROVE  Unlinked(e, lp, hp).body = e.body
BY EventFacts DEF Unlinked

LEMMA DeletedBody ==
  ASSUME NEW e \in Event, NEW w \in Seq(Nat), Chain(e, w), NEW name, NEW val
  PROVE  Deleted(e, name, val).body = e.body
<1> DEFINE n == Len(w)
           d == CHOOSE d : Deletes(e, w, name, val, d)
<1>1. n \in Nat /\ Walk(e) = w /\ n \in 0 .. n
  BY WalkIsChain
<1>2. Deletes(e, w, name, val, d)
  BY DeletesExist
<1>3. Deleted(e, name, val) = d[n].e
  BY <1>1 DEF Deleted, Deletes, Turn
<1> HIDE DEF d
<1>4. d[0] = [e |-> e, lp |-> NULL] /\ \A k \in 1 .. n : d[k] = Turn(w, name, val, k, d[k - 1])
  BY <1>1, <1>2 DEF Deletes
<1> DEFINE C == [k \in 0 .. n |-> Cut(e, w, name, val, k)]
           X == [k \in 0 .. n |-> {s \in C[k] : s.e.body = e.body}]
<1>5. \A k \in 0 .. n : C[k] = Cut(e, w, name, val, k)
  OBVIOUS
<1> HIDE DEF C
<1>6. d[0] \in X[0]
  <2>1. 0 \in 0 .. n
    BY <1>1
  <2>2. d[0] \in C[0]
    BY <1>4, <1>5, <2>1, StartCuts
  <2>3. d[0].e.body = e.body
    BY <1>4
  <2> QED BY <2>1, <2>2, <2>3
<1>7. ASSUME NEW k \in 1 .. n, d[k - 1] \in X[k - 1] PROVE d[k] \in X[k]
  <2>1. k \in 0 .. n /\ k - 1 \in 0 .. n
    BY <1>1
  <2>2. d[k - 1] \in Cut(e, w, name, val, k - 1) /\ d[k - 1].e.body = e.body
    BY <1>5, <1>7, <2>1
  <2>3. Turn(w, name, val, k, d[k - 1]) \in Cut(e, w, name, val, k)
    BY <2>2, TurnCuts
  <2>4. d[k - 1] \in [e : Event, lp : Nat]
    BY <2>2 DEF Cut
  <2>5. ASSUME NEW s \in [e : Event, lp : Nat]
        PROVE  Turn(w, name, val, k, s).e.body = s.e.body
    <3>1. CASE s.e.cells[w[k]].name = name /\ val \in {Empty, s.e.cells[w[k]].value}
      <4>1. Turn(w, name, val, k, s) = [s EXCEPT !.e = Unlinked(s.e, s.lp, w[k])]
        BY <3>1 DEF Turn
      <4>2. Turn(w, name, val, k, s).e = Unlinked(s.e, s.lp, w[k])
        BY <4>1
      <4> QED BY <4>2, UnlinkedBody
    <3>2. CASE ~(s.e.cells[w[k]].name = name /\ val \in {Empty, s.e.cells[w[k]].value})
      <4>1. Turn(w, name, val, k, s) = [s EXCEPT !.lp = w[k]]
        BY <3>2 DEF Turn
      <4> QED BY <4>1
    <3> QED BY <3>1, <3>2
  <2>6. d[k].e.body = e.body /\ d[k] \in C[k]
    BY <1>4, <1>5, <2>1, <2>2, <2>3, <2>4, <2>5
  <2> QED BY <2>1, <2>6
<1>8. \A k \in 0 .. n : d[k] \in X[k]
  <2> HIDE DEF X, n
  <2> QED BY <1>1, <1>6, <1>7, LoopKeeps
<1>9. d[n].e.body = e.body
  BY <1>1, <1>8
<1> QED BY <1>3, <1>9

LEMMA PlainBody ==
  ASSUME NEW e, Sound(e), NEW stack, NEW name, NEW part
  PROVE  AddPlain(e, stack, name, part).body = e.body
<1>1. PICK w \in Seq(Nat) : Chain(e, w)
  BY DEF Sound
<1>2. e \in Event
  BY DEF Sound
<1>3. \A h : Linked(e, h, stack).body = e.body
  BY <1>2, EventFacts DEF Linked
<1>4. Deleted(e, name, Empty).body = e.body
  BY <1>1, <1>2, DeletedBody
<1>5. \A p, c : [e EXCEPT !.cells[p] = c].body = e.body
  BY <1>2, EventFacts
<1> QED BY <1>3, <1>4, <1>5 DEF AddPlain

-----------------------------------------------------------------------------
(* What adding leaves: arrays are the first of their names.                  *)

Starts(text) == text[1] # ""
TidyHeader(h) ==
  /\ Starts(h.value)
  /\ h.array = h.value \/ (h.array = <<>> /\ Len(h.value) = 1)
Tidy(l) ==
  \A k \in 1 .. Len(l) : TidyHeader(l[k]) /\ (l[k].array # <<>> => IsFirst(l, k, l[k].name))

LEMMA TextFacts ==
  ASSUME NEW text \in Text
  PROVE  /\ text \in Seq(Piece) /\ Len(text) \in Nat /\ Len(text) >= 1 /\ text # <<>>
         /\ \A k \in 1 .. Len(text) : text[k] \in Piece
BY DEF Text

LEMMA PushedText ==
  ASSUME NEW s \in Text, NEW part \in Piece
  PROVE  /\ s \o <<part>> \in Text /\ (Starts(s) => Starts(s \o <<part>>))
         /\ s \o <<part>> # <<>>
<1>1. s \in Seq(Piece) /\ Len(s) \in Nat /\ Len(s) >= 1 /\ <<part>> \in Seq(Piece) /\ Len(<<part>>) = 1
  BY TextFacts
<1>2. s \o <<part>> \in Seq(Piece) /\ Len(s \o <<part>>) = Len(s) + 1
  BY <1>1
<1>3. s \o <<part>> # <<>>
  BY <1>1, <1>2
<1>4. (s \o <<part>>)[1] = s[1]
  BY <1>1
<1> QED BY <1>2, <1>3, <1>4 DEF Text, Starts

LEMMA BegunFacts ==
  ASSUME NEW name, NEW text
  PROVE  /\ Begun(name, text).name = name /\ Begun(name, text).value = text
         /\ Begun(name, text).array = text
         /\ Starts(text) => TidyHeader(Begun(name, text))
<1>1. /\ Begun(name, text).name = name /\ Begun(name, text).value = text
      /\ Begun(name, text).array = text
  BY DEF Begun
<1> QED BY <1>1, Zenon DEF TidyHeader

LEMMA GrownTidy ==
  ASSUME NEW h \in Headers, TidyHeader(h), NEW part \in Piece
  PROVE  TidyHeader(Grows(h, part)) /\ Grows(h, part).name = h.name
<1> DEFINE s == IF h.array = <<>> THEN h.value ELSE h.array
<1>1. h.value \in Text
  BY DEF Headers
<1>2. s = h.value
  BY Zenon DEF TidyHeader
<1>3. Grows(h, part) = Begun(h.name, h.value \o <<part>>)
  BY <1>2 DEF Grows
<1>4. Starts(h.value)
  BY DEF TidyHeader
<1>5. Starts(h.value \o <<part>>)
  BY <1>1, <1>4, PushedText
<1> DEFINE t == h.value \o <<part>>
<1>6. Grows(h, part) = Begun(h.name, t) /\ Starts(t)
  BY <1>3, <1>5
<1> HIDE DEF t, s
<1>7. TidyHeader(Begun(h.name, t)) /\ Begun(h.name, t).name = h.name
  BY <1>6, BegunFacts
<1> QED BY <1>6, <1>7

LEMMA TidyAdded ==
  ASSUME NEW old \in Seq(Headers), NEW new \in Seq(Headers), NEW h, AddedLast(old, new, h),
         Tidy(old), TidyHeader(h), h.array # <<>> => Absent(old, h.name)
  PROVE  Tidy(new)
<1> DEFINE n == Len(old)
<1>1. n \in Nat /\ Len(new) = n + 1 /\ new[n + 1] = h /\ \A i \in 1 .. n : new[i] = old[i]
  BY DEF AddedLast
<1>2. ASSUME NEW k \in 1 .. n + 1
      PROVE  TidyHeader(new[k]) /\ (new[k].array # <<>> => IsFirst(new, k, new[k].name))
  <2>1. CASE k = n + 1
    <3>1. \A j \in 1 .. k - 1 : j \in 1 .. n
      BY <1>1, <2>1
    <3>2. h.array # <<>> => \A j \in 1 .. k - 1 : new[j].name # h.name
      BY <1>1, <3>1 DEF Absent
    <3> QED BY <1>1, <2>1, <3>2 DEF IsFirst
  <2>2. CASE k # n + 1
    <3>1. k \in 1 .. n /\ \A j \in 1 .. k - 1 : j \in 1 .. n
      BY <1>1, <2>2
    <3>2. new[k] = old[k] /\ \A j \in 1 .. k - 1 : new[j] = old[j]
      BY <1>1, <3>1
    <3>3. TidyHeader(old[k]) /\ (old[k].array # <<>> => IsFirst(old, k, old[k].name))
      BY <3>1 DEF Tidy
    <3> QED BY <3>2, <3>3 DEF IsFirst
  <2> QED BY <2>1, <2>2
<1> QED BY <1>1, <1>2 DEF Tidy

LEMMA TidyPushed ==
  ASSUME NEW old \in Seq(Headers), NEW new \in Seq(Headers), NEW name \in Name, NEW part \in Piece,
         PushedTo(old, new, name, part), Tidy(old)
  PROVE  Tidy(new)
<1>1. CASE \E i \in 1 .. Len(old) : IsFirst(old, i, name) /\ Replaced(old, new, i, Grows(old[i], part))
  <2>1. PICK i \in 1 .. Len(old) : IsFirst(old, i, name) /\ Replaced(old, new, i, Grows(old[i], part))
    BY <1>1
  <2>2. TidyHeader(Grows(old[i], part)) /\ Grows(old[i], part).name = old[i].name
    BY GrownTidy DEF Tidy
  <2>3. Len(new) = Len(old) /\ Len(old) \in Nat /\ \A j \in 1 .. Len(old) : new[j].name = old[j].name
    BY <2>1, <2>2 DEF Replaced
  <2>4. \A k \in 1 .. Len(old) : \A nm : IsFirst(old, k, nm) => IsFirst(new, k, nm)
    <3>1. \A k \in 1 .. Len(old) : \A j \in 1 .. k - 1 : j \in 1 .. Len(old)
      BY <2>3
    <3> QED BY <2>3, <3>1 DEF IsFirst
  <2>5. ASSUME NEW k \in 1 .. Len(old)
        PROVE  TidyHeader(new[k]) /\ (new[k].array # <<>> => IsFirst(new, k, new[k].name))
    <3>1. CASE k = i
      <4>1. new[k] = Grows(old[i], part) /\ new[k].name = name
        BY <2>1, <2>2, <3>1 DEF Replaced, IsFirst
      <4> QED BY <2>1, <2>2, <2>4, <3>1, <4>1
    <3>2. CASE k # i
      <4>1. new[k] = old[k]
        BY <2>1, <3>2 DEF Replaced
      <4>2. TidyHeader(old[k]) /\ (old[k].array # <<>> => IsFirst(old, k, old[k].name))
        BY DEF Tidy
      <4> QED BY <2>4, <4>1, <4>2
    <3> QED BY <3>1, <3>2
  <2> QED BY <2>3, <2>5 DEF Tidy
<1>2. CASE new = old
  BY <1>2
<1>3. CASE Absent(old, name) /\ part # "" /\ AddedLast(old, new, Begun(name, <<part>>))
  <2> DEFINE h == Begun(name, <<part>>)
  <2>1. h.name = name /\ h.value = <<part>> /\ h.array = <<part>> /\ <<part>>[1] = part
    BY DEF Begun
  <2> HIDE DEF h
  <2>2. TidyHeader(h)
    BY <1>3, <2>1 DEF TidyHeader, Starts
  <2>3. AddedLast(old, new, h)
    BY <1>3 DEF h
  <2> QED BY <1>3, <2>1, <2>2, <2>3, TidyAdded
<1> QED BY <1>1, <1>2, <1>3 DEF PushedTo

LEMMA TidyTaken ==
  ASSUME NEW old \in Seq(Headers), NEW new \in Seq(Headers), NEW name,
         Taken(old, new, name, Empty), Tidy(old)
  PROVE  Tidy(new)
<1>1. PICK from \in Seq(1 .. Len(old)) :
        /\ Increasing(from) /\ Len(new) = Len(from)
        /\ \A k \in 1 .. Len(from) : new[k] = old[from[k]]
        /\ \A j \in 1 .. Len(old) :
             (\E k \in 1 .. Len(from) : from[k] = j) <=> ~Doomed(old[j], name, Empty)
  BY DEF Taken
<1>2. Len(old) \in Nat /\ Len(from) \in Nat /\ \A k \in 1 .. Len(from) : from[k] \in 1 .. Len(old)
  BY <1>1
<1>3. ASSUME NEW k \in 1 .. Len(from), NEW j \in 1 .. k - 1
      PROVE  j \in 1 .. Len(from) /\ from[j] \in 1 .. from[k] - 1 /\ new[j] = old[from[j]]
  <2>1. j \in 1 .. Len(from) /\ j < k
    BY <1>2
  <2>2. from[j] < from[k]
    BY <1>1, <2>1 DEF Increasing
  <2>3. from[j] \in 1 .. Len(old) /\ from[k] \in 1 .. Len(old)
    BY <1>2, <2>1
  <2>4. from[j] \in 1 .. from[k] - 1
    BY <1>2, <2>2, <2>3
  <2> QED BY <1>1, <2>1, <2>4
<1>4. ASSUME NEW k \in 1 .. Len(from)
      PROVE  TidyHeader(new[k]) /\ (new[k].array # <<>> => IsFirst(new, k, new[k].name))
  <2>1. new[k] = old[from[k]] /\ from[k] \in 1 .. Len(old)
    BY <1>1, <1>2
  <2>2. /\ TidyHeader(old[from[k]])
        /\ old[from[k]].array # <<>> => IsFirst(old, from[k], old[from[k]].name)
    BY <2>1 DEF Tidy
  <2>3. ASSUME old[from[k]].array # <<>>, NEW j \in 1 .. k - 1 PROVE new[j].name # new[k].name
    <3>1. from[j] \in 1 .. from[k] - 1 /\ new[j] = old[from[j]]
      BY <1>3
    <3> QED BY <2>1, <2>2, <2>3, <3>1 DEF IsFirst
  <2> QED BY <2>1, <2>2, <2>3 DEF IsFirst
<1> QED BY <1>1, <1>4 DEF Tidy

LEMMA TidyPut ==
  ASSUME NEW old \in Seq(Headers), NEW new \in Seq(Headers), NEW name \in Name, NEW part \in Piece,
         PutTo(old, new, name, part), Tidy(old)
  PROVE  Tidy(new)
<1>1. CASE Taken(old, new, name, Empty)
  BY <1>1, TidyTaken
<1>2. CASE part # "" /\ AddedLast(old, new, Textual(name, <<part>>))
  <2> DEFINE h == Textual(name, <<part>>)
  <2>1. h.value = <<part>> /\ h.array = <<>> /\ <<part>>[1] = part /\ Len(<<part>>) = 1
    BY DEF Textual
  <2> HIDE DEF h
  <2>2. TidyHeader(h)
    BY <1>2, <2>1 DEF TidyHeader, Starts
  <2>3. AddedLast(old, new, h)
    BY <1>2 DEF h
  <2> QED BY <2>1, <2>2, <2>3, TidyAdded
<1> QED BY <1>1, <1>2 DEF PutTo

-----------------------------------------------------------------------------
(* An item: a name and what is added under it, as an array or not.           *)

Item == [name : Name, isArray : BOOLEAN, items : Text]
ItemAdded(x, item) ==
  IF item.isArray THEN AddArray(x, item.name, item.items)
  ELSE AddHeader(x, BOTTOM, item.name, item.items)
IsWhole(item) == item.isArray \/ Len(item.items) > 1
Made(item) == IF IsWhole(item) THEN Begun(item.name, item.items) ELSE Textual(item.name, item.items)

\* A copy in the making, with the body b.
Copy(b) == {x \in Event : Sound(x) /\ Tidy(Listed(x)) /\ x.body = b}

LEMMA CopyFacts ==
  ASSUME NEW b, NEW x
  PROVE  /\ x \in Copy(b) <=> Sound(x) /\ Tidy(Listed(x)) /\ x.body = b
         /\ x \in Copy(b) => Listed(x) \in Seq(Headers)
BY SoundList DEF Copy

LEMMA PushKeeps ==
  ASSUME NEW b, NEW x \in Copy(b), NEW name \in Name, NEW part \in Piece
  PROVE  AddPlain(x, PUSH, name, part) \in Copy(b)
<1> DEFINE y == AddPlain(x, PUSH, name, part)
<1>1. Sound(x) /\ Tidy(Listed(x)) /\ x.body = b
  BY CopyFacts
<1>2. PUSH \in 0 .. 3
  BY DEF PUSH
<1>3. Sound(y) /\ y.body = b
  BY <1>1, <1>2, PlainFacts, PlainBody
<1>4. PushedTo(Listed(x), Listed(y), name, part)
  BY <1>1, PushExact
<1> HIDE DEF y
<1>5. Listed(x) \in Seq(Headers) /\ Listed(y) \in Seq(Headers)
  BY <1>1, <1>3, SoundList
<1>6. Tidy(Listed(y))
  BY <1>1, <1>4, <1>5, TidyPushed
<1>7. y \in Copy(b)
  BY <1>3, <1>6, CopyFacts
<1> QED BY <1>7 DEF y

LEMMA PutKeeps ==
  ASSUME NEW b, NEW x \in Copy(b), NEW name \in Name, NEW part \in Piece
  PROVE  AddPlain(x, BOTTOM, name, part) \in Copy(b)
<1> DEFINE y == AddPlain(x, BOTTOM, name, part)
<1>1. Sound(x) /\ Tidy(Listed(x)) /\ x.body = b
  BY CopyFacts
<1>2. BOTTOM \in 0 .. 3
  BY DEF BOTTOM
<1>3. Sound(y) /\ y.body = b
  BY <1>1, <1>2, PlainFacts, PlainBody
<1>4. PutTo(Listed(x), Listed(y), name, part)
  BY <1>1, PutExact
<1> HIDE DEF y
<1>5. Listed(x) \in Seq(Headers) /\ Listed(y) \in Seq(Headers)
  BY <1>1, <1>3, SoundList
<1>6. Tidy(Listed(y))
  BY <1>1, <1>4, <1>5, TidyPut
<1>7. y \in Copy(b)
  BY <1>3, <1>6, CopyFacts
<1> QED BY <1>7 DEF y

\* The turns of esl_event_add_array.
LEMMA ArrayTurns ==
  ASSUME NEW e, Sound(e), NEW name \in Name, NEW text \in Text
  PROVE  \E a : /\ a[0] = e /\ AddArray(e, name, text) = a[Len(text)]
                /\ \A k \in 1 .. Len(text) : a[k] = AddPlain(a[k - 1], PUSH, name, text[k])
<1> DEFINE n == Len(text)
           a == CHOOSE a : Adds(e, name, text, a)
<1>1. n \in Nat /\ n \in 0 .. n /\ text \in Seq(Piece)
  BY TextFacts
<1>2. Adds(e, name, text, a)
  BY <1>1, AddsExist
<1>3. AddArray(e, name, text) = a[n]
  BY DEF AddArray, Adds
<1> HIDE DEF a
<1>4. a[0] = e /\ \A k \in 1 .. n : a[k] = AddPlain(a[k - 1], PUSH, name, text[k])
  BY <1>1, <1>2 DEF Adds
<1> QED BY <1>3, <1>4

LEMMA ArrayKeeps ==
  ASSUME NEW b, NEW x \in Copy(b), NEW name \in Name, NEW text \in Text
  PROVE  AddArray(x, name, text) \in Copy(b)
<1> DEFINE n == Len(text)
           X == [k \in 0 .. n |-> Copy(b)]
<1>1. n \in Nat /\ n \in 0 .. n /\ 0 \in 0 .. n /\ \A k \in 1 .. n : k \in 0 .. n /\ k - 1 \in 0 .. n
  BY TextFacts
<1>2. PICK a : /\ a[0] = x /\ AddArray(x, name, text) = a[n]
               /\ \A k \in 1 .. n : a[k] = AddPlain(a[k - 1], PUSH, name, text[k])
  BY ArrayTurns, CopyFacts
<1>3. \A k \in 0 .. n : X[k] = Copy(b)
  OBVIOUS
<1>4. \A k \in 1 .. n : a[k - 1] \in X[k - 1] => a[k] \in X[k]
  BY <1>1, <1>2, <1>3, PushKeeps, TextFacts
<1>5. a[0] \in X[0]
  BY <1>1, <1>2, <1>3
<1> HIDE DEF X, n
<1>6. \A k \in 0 .. n : a[k] \in X[k]
  BY <1>1, <1>4, <1>5, LoopKeeps
<1> QED BY <1>1, <1>2, <1>3, <1>6

LEMMA ItemKeeps ==
  ASSUME NEW b, NEW x \in Copy(b), NEW item \in Item
  PROVE  ItemAdded(x, item) \in Copy(b)
<1>1. item.name \in Name /\ item.items \in Text
  BY DEF Item
<1>2. CASE item.isArray
  BY <1>1, <1>2, ArrayKeeps DEF ItemAdded
<1>3. CASE ~item.isArray /\ Len(item.items) > 1
  BY <1>1, <1>3, ArrayKeeps DEF ItemAdded, AddHeader
<1>4. CASE ~item.isArray /\ ~(Len(item.items) > 1)
  <2>1. item.items[1] \in Piece
    BY <1>1, TextFacts
  <2> QED BY <1>1, <1>4, <2>1, PutKeeps DEF ItemAdded, AddHeader
<1> QED BY <1>2, <1>3, <1>4

\* A header that is not there yet is added at the end, as an array ...
LEMMA FirstPart ==
  ASSUME NEW e, Sound(e), NEW name \in Name, NEW part \in Piece, part # "",
         Absent(Listed(e), name)
  PROVE  AddedLast(Listed(e), Listed(AddPlain(e, PUSH, name, part)), Begun(name, <<part>>))
<1> DEFINE y == AddPlain(e, PUSH, name, part)
<1>1. PushedTo(Listed(e), Listed(y), name, part)
  BY PushExact
<1> HIDE DEF y
<1>2. ~\E i \in 1 .. Len(Listed(e)) : IsFirst(Listed(e), i, name)
  BY DEF IsFirst, Absent
<1>3. AddedLast(Listed(e), Listed(y), Begun(name, <<part>>))
  BY <1>1, <1>2 DEF PushedTo
<1> QED BY <1>3 DEF y

LEMMA NextPart ==
  ASSUME NEW old \in Seq(Headers), NEW mid \in Seq(Headers), NEW new \in Seq(Headers),
         NEW name, NEW text \in Text, NEW part,
         Absent(old, name), AddedLast(old, mid, Begun(name, text)),
         PushedTo(mid, new, name, part)
  PROVE  AddedLast(old, new, Begun(name, text \o <<part>>))
<1> DEFINE n == Len(old)
<1>1. n \in Nat /\ Len(mid) = n + 1 /\ \A i \in 1 .. n : mid[i] = old[i]
  BY DEF AddedLast
<1>2. mid[n + 1] = Begun(name, text) /\ mid[n + 1].name = name
  <2>1. mid[n + 1] = Begun(name, text)
    BY DEF AddedLast
  <2>2. Begun(name, text).name = name
    BY BegunFacts
  <2> QED BY <2>1, <2>2
<1>3. n + 1 \in 1 .. Len(mid)
  BY <1>1
<1>4. ~Absent(mid, name)
  BY <1>2, <1>3 DEF Absent
<1>5. PICK i \in 1 .. Len(mid) : IsFirst(mid, i, name) /\ Replaced(mid, new, i, Grows(mid[i], part))
  BY <1>4 DEF PushedTo
<1>6. i = n + 1
  <2>1. ASSUME i \in 1 .. n PROVE FALSE
    BY <1>1, <1>5, <2>1 DEF IsFirst, Absent
  <2> QED BY <1>1, <2>1
<1>7. Grows(Begun(name, text), part) = Begun(name, text \o <<part>>)
  <2>1. text # <<>>
    BY TextFacts
  <2>2. /\ Begun(name, text).array = text /\ Begun(name, text).value = text
        /\ Begun(name, text).name = name
    BY BegunFacts
  <2> QED BY <2>1, <2>2 DEF Grows
<1>8. Len(new) = n + 1 /\ new[n + 1] = Begun(name, text \o <<part>>)
  BY <1>1, <1>2, <1>5, <1>6, <1>7 DEF Replaced
<1>9. \A j \in 1 .. n : new[j] = old[j]
  <2>1. \A j \in 1 .. n : j \in 1 .. Len(mid) /\ j # i
    BY <1>1, <1>6
  <2> QED BY <1>1, <1>5, <2>1 DEF Replaced
<1> QED BY <1>8, <1>9 DEF AddedLast

LEMMA FirstParts ==
  ASSUME NEW text \in Text
  PROVE  /\ SubSeq(text, 1, 1) = <<text[1]>> /\ SubSeq(text, 1, Len(text)) = text
         /\ \A k \in 1 .. Len(text) : SubSeq(text, 1, k) \in Text
         /\ \A k \in 1 .. Len(text) : k > 1 =>
              SubSeq(text, 1, k) = SubSeq(text, 1, k - 1) \o <<text[k]>>
<1> DEFINE n == Len(text)
<1>1. /\ text \in Seq(Piece) /\ n \in Nat /\ n >= 1
      /\ \A k \in 1 .. n : text[k] \in Piece /\ <<text[k]>> \in Seq(Piece) /\ Len(<<text[k]>>) = 1
  BY TextFacts
<1>2. ASSUME NEW k \in 1 .. n
      PROVE  /\ SubSeq(text, 1, k) \in Seq(Piece) /\ Len(SubSeq(text, 1, k)) = k
             /\ \A i \in 1 .. k : SubSeq(text, 1, k)[i] = text[i]
  BY <1>1
<1>3. SubSeq(text, 1, 1) = <<text[1]>>
  <2>1. 1 \in 1 .. n
    BY <1>1
  <2>2. \A i \in 1 .. 1 : SubSeq(text, 1, 1)[i] = <<text[1]>>[i]
    BY <1>2, <2>1
  <2> QED BY <1>1, <1>2, <2>1, <2>2, SeqEqual
<1>4. SubSeq(text, 1, n) = text
  <2>1. n \in 1 .. n
    BY <1>1
  <2> QED BY <1>1, <1>2, <2>1, SeqEqual
<1>5. ASSUME NEW k \in 1 .. n PROVE SubSeq(text, 1, k) \in Text
  <2>1. SubSeq(text, 1, k) # <<>>
    BY <1>2
  <2> QED BY <1>2, <2>1 DEF Text
<1>6. ASSUME NEW k \in 1 .. n, k > 1
      PROVE  SubSeq(text, 1, k) = SubSeq(text, 1, k - 1) \o <<text[k]>>
  <2> DEFINE s == SubSeq(text, 1, k - 1)
             t == SubSeq(text, 1, k)
  <2>1. k - 1 \in 1 .. n /\ k \in Nat
    BY <1>1, <1>6
  <2>2. s \in Seq(Piece) /\ Len(s) = k - 1 /\ \A i \in 1 .. k - 1 : s[i] = text[i]
    BY <1>2, <2>1
  <2>3. t \in Seq(Piece) /\ Len(t) = k /\ \A i \in 1 .. k : t[i] = text[i]
    BY <1>2
  <2> HIDE DEF s, t
  <2>4. s \o <<text[k]>> \in Seq(Piece) /\ Len(s \o <<text[k]>>) = k
    BY <1>1, <2>1, <2>2
  <2>5. \A i \in 1 .. k : (s \o <<text[k]>>)[i] = text[i]
    BY <1>1, <2>1, <2>2
  <2>6. t = s \o <<text[k]>>
    BY <2>3, <2>4, <2>5, SeqEqual
  <2> QED BY <2>6 DEF s, t
<1> QED BY <1>3, <1>4, <1>5, <1>6

LEMMA ArrayAppends ==
  ASSUME NEW e, Sound(e), NEW name \in Name, NEW text \in Text, Starts(text),
         Absent(Listed(e), name)
  PROVE  AddedLast(Listed(e), Listed(AddArray(e, name, text)), Begun(name, text))
<1>4. PUSH \in 0 .. 3
  BY DEF PUSH
<1> DEFINE n == Len(text)
<1>1. /\ n \in Nat /\ n >= 1 /\ n \in 0 .. n /\ 0 \in 0 .. n
      /\ \A k \in 1 .. n : k \in 0 .. n /\ k - 1 \in 0 .. n /\ k # 0 /\ text[k] \in Piece
  BY TextFacts
<1>2. PICK a : /\ a[0] = e /\ AddArray(e, name, text) = a[n]
               /\ \A k \in 1 .. n : a[k] = AddPlain(a[k - 1], PUSH, name, text[k])
  BY ArrayTurns
<1> DEFINE Y(k) == {x \in Event : /\ Sound(x)
                                  /\ AddedLast(Listed(e), Listed(x), Begun(name, SubSeq(text, 1, k)))}
           X == [k \in 0 .. n |-> IF k = 0 THEN {e} ELSE Y(k)]
<1>3. X[0] = {e} /\ \A k \in 1 .. n : X[k] = Y(k)
  BY <1>1
<1> HIDE DEF X, n
<1>5. ASSUME NEW k \in 1 .. n, a[k - 1] \in X[k - 1] PROVE a[k] \in X[k]
  <2> DEFINE x == a[k - 1]
             y == a[k]
  <2>1. y = AddPlain(x, PUSH, name, text[k])
    BY <1>2
  <2>2. CASE k = 1
    <3>1. x = e
      <4>1. k - 1 = 0
        BY <2>2
      <4> HIDE DEF Y
      <4> QED BY <1>3, <1>5, <4>1
    <3>2. Sound(y)
      BY <1>1, <1>4, <2>1, <3>1, PlainFacts
    <3>3. AddedLast(Listed(e), Listed(y), Begun(name, <<text[1]>>))
      <4>1. text[1] # ""
        BY DEF Starts
      <4>2. text[1] \in Piece
        BY <1>1, <2>2
      <4> QED BY <2>1, <2>2, <3>1, <4>1, <4>2, FirstPart
    <3>4. SubSeq(text, 1, 1) = <<text[1]>>
      BY FirstParts
    <3> HIDE DEF y
    <3>5. y \in Y(1)
      BY <3>2, <3>3, <3>4, SoundList
    <3> QED BY <1>3, <2>2, <3>5 DEF y
  <2>3. CASE k # 1
    <3>1. k - 1 \in 1 .. n /\ k > 1
      <4> HIDE DEF Y
      <4> QED BY <1>1, <2>3
    <3>2. Sound(x) /\ AddedLast(Listed(e), Listed(x), Begun(name, SubSeq(text, 1, k - 1)))
      BY <1>3, <1>5, <3>1
    <3>3. Sound(y) /\ PushedTo(Listed(x), Listed(y), name, text[k])
      BY <1>1, <1>4, <2>1, <3>2, PlainFacts, PushExact
    <3>4. Listed(e) \in Seq(Headers) /\ Listed(x) \in Seq(Headers) /\ Listed(y) \in Seq(Headers)
      BY <3>2, <3>3, SoundList
    <3>5. /\ SubSeq(text, 1, k - 1) \in Text
          /\ SubSeq(text, 1, k) = SubSeq(text, 1, k - 1) \o <<text[k]>>
      BY <3>1, FirstParts DEF n
    <3> HIDE DEF x, y
    <3>6. AddedLast(Listed(e), Listed(y), Begun(name, SubSeq(text, 1, k)))
      BY <3>2, <3>3, <3>4, <3>5, NextPart
    <3>7. y \in Y(k)
      BY <3>3, <3>6, SoundList
    <3> QED BY <1>3, <3>7 DEF y
  <2> QED BY <2>2, <2>3
<1>6. \A k \in 0 .. n : a[k] \in X[k]
  <2>1. a[0] \in X[0]
    BY <1>2, <1>3
  <2> QED BY <1>1, <1>5, <2>1, LoopKeeps
<1>7. a[n] \in Y(n)
  <2>1. n \in 1 .. n
    BY <1>1
  <2> HIDE DEF Y
  <2> QED BY <1>1, <1>3, <1>6, <2>1
<1>8. SubSeq(text, 1, n) = text
  BY FirstParts DEF n
<1> QED BY <1>2, <1>7, <1>8

LEMMA OnePart ==
  ASSUME NEW text \in Text, Len(text) <= 1
  PROVE  text = <<text[1]>> /\ text[1] \in Piece
<1>1. text \in Seq(Piece) /\ Len(text) \in Nat /\ Len(text) >= 1
  BY TextFacts
<1>2. Len(text) = 1
  <2>1. \A k \in Nat : k >= 1 /\ k <= 1 => k = 1
    OBVIOUS
  <2> QED BY <1>1, <2>1
<1> QED BY <1>1, <1>2

LEMMA PlainAppends ==
  ASSUME NEW e, Sound(e), NEW name \in Name, NEW part \in Piece, part # ""
  PROVE  AddedLast(Listed(e), Listed(AddPlain(e, BOTTOM, name, part)), Textual(name, <<part>>))
<1> DEFINE y == AddPlain(e, BOTTOM, name, part)
<1>1. PutTo(Listed(e), Listed(y), name, part)
  BY PutExact
<1> HIDE DEF y
<1>2. AddedLast(Listed(e), Listed(y), Textual(name, <<part>>))
  BY <1>1 DEF PutTo
<1> QED BY <1>2 DEF y

\* ... and so is any other.
LEMMA ItemAppends ==
  ASSUME NEW e, Sound(e), NEW item \in Item, Starts(item.items),
         IsWhole(item) => Absent(Listed(e), item.name)
  PROVE  AddedLast(Listed(e), Listed(ItemAdded(e, item)), Made(item))
<1>1. item.name \in Name /\ item.items \in Text
  BY DEF Item
<1>2. CASE IsWhole(item)
  <2>1. ItemAdded(e, item) = AddArray(e, item.name, item.items)
    BY <1>2 DEF ItemAdded, IsWhole, AddHeader
  <2> QED BY <1>1, <1>2, <2>1, ArrayAppends DEF Made
<1>3. CASE ~IsWhole(item)
  <2>1. ItemAdded(e, item) = AddPlain(e, BOTTOM, item.name, item.items[1])
    BY <1>3 DEF ItemAdded, IsWhole, AddHeader
  <2>2. item.items = <<item.items[1]>> /\ item.items[1] \in Piece
    <3>1. Len(item.items) <= 1
      <4>1. Len(item.items) \in Nat
        BY <1>1, TextFacts
      <4> QED BY <1>3, <4>1 DEF IsWhole
    <3> QED BY <1>1, <3>1, OnePart
  <2>3. AddedLast(Listed(e), Listed(AddPlain(e, BOTTOM, item.name, item.items[1])),
                  Textual(item.name, <<item.items[1]>>))
    <3>1. item.items[1] # ""
      BY DEF Starts
    <3> QED BY <1>1, <2>2, <3>1, PlainAppends
  <2> QED BY <1>3, <2>1, <2>2, <2>3 DEF Made
<1> QED BY <1>2, <1>3

-----------------------------------------------------------------------------
(* Items one after the other.                                                *)

Fills(items, n, c) ==
  c[0] = Created /\ \A k \in 1 .. n : c[k] = ItemAdded(c[k - 1], items[k])
Fine(items, n) ==
  \A k \in 1 .. n : /\ Starts(items[k].items)
                    /\ IsWhole(items[k]) => \A j \in 1 .. k - 1 : items[j].name # items[k].name
AreItems(items, n) == \A k \in 1 .. n : items[k] \in Item

LEMMA CreatedCopy ==
  Created \in Copy(<<>>)
<1>1. Sound(Created) /\ Listed(Created) = <<>>
  BY CreatedFacts
<1>2. Tidy(<<>>)
  BY DEF Tidy
<1>3. Created.body = <<>>
  BY DEF Created
<1> QED BY <1>1, <1>2, <1>3, CopyFacts

LEMMA FillKeeps ==
  ASSUME NEW n \in Nat, NEW items, AreItems(items, n), NEW c, Fills(items, n, c)
  PROVE  \A k \in 0 .. n : c[k] \in Copy(<<>>)
<1> DEFINE X == [k \in 0 .. n |-> Copy(<<>>)]
<1>1. \A k \in 0 .. n : X[k] = Copy(<<>>)
  OBVIOUS
<1>2. c[0] = Created /\ \A k \in 1 .. n : c[k] = ItemAdded(c[k - 1], items[k]) /\ items[k] \in Item
  BY DEF Fills, AreItems
<1>3. 0 \in 0 .. n /\ \A k \in 1 .. n : k \in 0 .. n /\ k - 1 \in 0 .. n
  OBVIOUS
<1>4. c[0] \in X[0]
  BY <1>1, <1>2, <1>3, CreatedCopy
<1>5. \A k \in 1 .. n : c[k - 1] \in X[k - 1] => c[k] \in X[k]
  BY <1>1, <1>2, <1>3, ItemKeeps
<1> HIDE DEF X
<1>6. \A k \in 0 .. n : c[k] \in X[k]
  BY <1>4, <1>5, LoopKeeps
<1> QED BY <1>1, <1>6

LEMMA MadeFacts ==
  ASSUME NEW item
  PROVE  Made(item).name = item.name /\ Made(item).value = item.items
<1>1. Textual(item.name, item.items).name = item.name /\ Textual(item.name, item.items).value = item.items
  BY DEF Textual
<1>2. Begun(item.name, item.items).name = item.name /\ Begun(item.name, item.items).value = item.items
  BY DEF Begun
<1> QED BY <1>1, <1>2 DEF Made

\* Each item becomes a header, in their order.
Says(l, items, k) == Len(l) = k /\ \A i \in 1 .. k : l[i] = Made(items[i])

LEMMA FillAppends ==
  ASSUME NEW n \in Nat, NEW items, AreItems(items, n), Fine(items, n), NEW c, Fills(items, n, c)
  PROVE  \A k \in 0 .. n : Says(Listed(c[k]), items, k)
<1> DEFINE X == [k \in 0 .. n |-> {x \in Copy(<<>>) : Says(Listed(x), items, k)}]
<1>1. \A k \in 0 .. n : X[k] = {x \in Copy(<<>>) : Says(Listed(x), items, k)}
  OBVIOUS
<1>2. c[0] = Created /\ \A k \in 1 .. n : c[k] = ItemAdded(c[k - 1], items[k]) /\ items[k] \in Item
  BY DEF Fills, AreItems
<1>3. 0 \in 0 .. n /\ \A k \in 1 .. n : k \in 0 .. n /\ k - 1 \in 0 .. n
  OBVIOUS
<1>4. \A k \in 0 .. n : c[k] \in Copy(<<>>)
  BY FillKeeps
<1>5. c[0] \in X[0]
  <2>1. Listed(c[0]) = <<>>
    BY <1>2, CreatedFacts
  <2>2. Says(<<>>, items, 0)
    BY DEF Says
  <2> QED BY <1>1, <1>3, <1>4, <2>1, <2>2
<1> HIDE DEF X
<1>6. ASSUME NEW k \in 1 .. n, c[k - 1] \in X[k - 1] PROVE c[k] \in X[k]
  <2> DEFINE old == Listed(c[k - 1])
             new == Listed(c[k])
  <2>1. Says(old, items, k - 1) /\ Sound(c[k - 1])
    BY <1>1, <1>3, <1>6, CopyFacts
  <2>2. IsWhole(items[k]) => Absent(old, items[k].name)
    <3>1. ASSUME IsWhole(items[k]), NEW i \in 1 .. Len(old) PROVE old[i].name # items[k].name
      <4>1. i \in 1 .. k - 1 /\ old[i] = Made(items[i])
        BY <2>1 DEF Says
      <4>2. items[i].name # items[k].name
        BY <3>1, <4>1 DEF Fine
      <4> QED BY <4>1, <4>2, MadeFacts
    <3> QED BY <3>1 DEF Absent
  <2>3. Starts(items[k].items)
    BY DEF Fine
  <2>4. AddedLast(old, new, Made(items[k]))
    BY <1>2, <2>1, <2>2, <2>3, ItemAppends
  <2> HIDE DEF old, new
  <2>5. Says(new, items, k)
    <3>1. Len(old) = k - 1 /\ (k - 1) + 1 = k /\ k - 1 \in Nat /\ \A i \in 1 .. k - 1 : old[i] = Made(items[i])
      BY <2>1 DEF Says
    <3>2. Len(new) = k /\ new[k] = Made(items[k]) /\ \A i \in 1 .. k - 1 : new[i] = old[i]
      BY <2>4, <3>1 DEF AddedLast
    <3>3. ASSUME NEW i \in 1 .. k PROVE new[i] = Made(items[i])
      <4>1. i = k \/ i \in 1 .. k - 1
        OBVIOUS
      <4> QED BY <3>1, <3>2, <4>1
    <3> QED BY <3>2, <3>3 DEF Says
  <2> QED BY <1>1, <1>3, <1>4, <2>5 DEF new
<1>7. \A k \in 0 .. n : c[k] \in X[k]
  BY <1>5, <1>6, LoopKeeps
<1> QED BY <1>1, <1>7

LEMMA FillsOnce ==
  ASSUME NEW n \in Nat, NEW items, NEW c, NEW d, Fills(items, n, c), Fills(items, n, d)
  PROVE  c[n] = d[n]
<1> DEFINE X == [k \in 0 .. n |-> {d[k]}]
<1>1. \A k \in 0 .. n : X[k] = {d[k]}
  OBVIOUS
<1>2. 0 \in 0 .. n /\ n \in 0 .. n /\ \A k \in 1 .. n : k \in 0 .. n /\ k - 1 \in 0 .. n
  OBVIOUS
<1>3. c[0] \in X[0]
  BY <1>1, <1>2 DEF Fills
<1>4. \A k \in 1 .. n : c[k - 1] \in X[k - 1] => c[k] \in X[k]
  BY <1>1, <1>2 DEF Fills
<1> HIDE DEF X
<1>5. \A k \in 0 .. n : c[k] \in X[k]
  BY <1>3, <1>4, LoopKeeps
<1> QED BY <1>1, <1>2, <1>5

LEMMA ItemSound ==
  ASSUME NEW x, Sound(x), NEW item \in Item
  PROVE  Sound(ItemAdded(x, item))
<1>1. item.name \in Name /\ item.items \in Text /\ item.items \in Seq(Piece) /\ BOTTOM \in 0 .. 3
  BY TextFacts DEF Item, BOTTOM
<1> QED BY <1>1, ArrayFacts, HeaderFacts DEF ItemAdded

\* What esl_event_create_json does with an item.
ItemPut(x, item, printed) ==
  IF item.name = "_body" THEN [x EXCEPT !.body = printed] ELSE ItemAdded(x, item)
BodyItem(body) == [name |-> "_body", isArray |-> FALSE, items |-> body]
BodyItems == {BodyItem(body) : body \in Bodies}
Puts(items, printed, c) ==
  c = [k \in 0 .. Len(items) |->
         IF k = 0 THEN Created ELSE ItemPut(c[k - 1], items[k], printed)]

LEMMA NotBody ==
  ASSUME NEW item \in Item
  PROVE  item.name # "_body" /\ \A x, printed : ItemPut(x, item, printed) = ItemAdded(x, item)
<1>1. item.name \in HeaderNames \cup {"priority", "Content-Length"}
  BY DEF Item, Name
<1>2. "_body" \notin HeaderNames
  BY HeadersAssumption
<1>3. "priority" # "_body" /\ "Content-Length" # "_body"
  OBVIOUS
<1>4. item.name # "_body"
  BY <1>1, <1>2, <1>3
<1> QED BY <1>4 DEF ItemPut

LEMMA ItemPutSound ==
  ASSUME NEW x, Sound(x), NEW item \in Item \cup BodyItems, NEW printed \in Bodies
  PROVE  Sound(ItemPut(x, item, printed))
<1>1. CASE item \in Item
  BY <1>1, ItemSound, NotBody
<1>2. CASE item \in BodyItems
  <2>1. item.name = "_body"
    BY <1>2 DEF BodyItems, BodyItem
  <2>2. ItemPut(x, item, printed) = [x EXCEPT !.body = printed]
    BY <2>1 DEF ItemPut
  <2> QED BY <2>2, BodyFacts
<1> QED BY <1>1, <1>2

LEMMA PutsExist ==
  ASSUME NEW items \in Seq(Item \cup BodyItems), NEW printed \in Bodies
  PROVE  \E c : Puts(items, printed, c)
<1> DEFINE n == Len(items)
           G == {x \in Event : Sound(x)}
           X == [k \in 0 .. n |-> G]
           F == [k \in 1 .. n |-> [x \in G |-> ItemPut(x, items[k], printed)]]
<1>1. /\ n \in Nat
      /\ \A k \in 1 .. n : k \in 0 .. n /\ k - 1 \in 0 .. n /\ items[k] \in Item \cup BodyItems
  OBVIOUS
<1>2. \A x : x \in G <=> Sound(x)
  BY SoundList
<1> HIDE DEF G
<1>3. \A k \in 0 .. n : X[k] = G
  OBVIOUS
<1>4. ASSUME NEW k \in 1 .. n, NEW x \in G
      PROVE  F[k][x] = ItemPut(x, items[k], printed) /\ F[k][x] \in G
  <2>1. F[k][x] = ItemPut(x, items[k], printed)
    OBVIOUS
  <2>2. ItemPut(x, items[k], printed) \in G
    BY <1>1, <1>2, ItemPutSound
  <2> QED BY <2>1, <2>2
<1> HIDE DEF F, X
<1>5. PICK f : Runs(f, F, Created, n) /\ \A k \in 0 .. n : f[k] \in X[k]
  <2>1. Created \in X[0]
    <3>1. 0 \in 0 .. n
      BY <1>1
    <3> QED BY <1>2, <1>3, <3>1, CreatedFacts
  <2>2. \A k \in 1 .. n : \A x \in X[k - 1] : F[k][x] \in X[k]
    BY <1>1, <1>3, <1>4
  <2> HIDE DEF n
  <2> QED BY <1>1, <2>1, <2>2, LoopRuns
<1>6. f = [k \in 0 .. n |-> IF k = 0 THEN Created ELSE F[k][f[k - 1]]]
  BY <1>5 DEF Runs
<1>7. ASSUME NEW k \in 0 .. n
      PROVE  (IF k = 0 THEN Created ELSE F[k][f[k - 1]])
               = IF k = 0 THEN Created ELSE ItemPut(f[k - 1], items[k], printed)
  <2>1. CASE k = 0
    BY <2>1
  <2>2. CASE k # 0
    <3>1. k \in 1 .. n
      BY <1>1, <2>2
    <3>2. f[k - 1] \in G
      BY <1>1, <1>3, <1>5, <3>1
    <3> QED BY <1>4, <2>2, <3>1, <3>2
  <2> QED BY <2>1, <2>2
<1>8. f = [k \in 0 .. n |-> IF k = 0 THEN Created ELSE ItemPut(f[k - 1], items[k], printed)]
  <2> HIDE DEF n
  <2> QED BY <1>6, <1>7
<1> QED BY <1>8 DEF Puts

-----------------------------------------------------------------------------
(* Readers.                                                                  *)

Read(h, i) ==
  IF i < 0 THEN h.value ELSE IF i < Len(h.array) THEN <<h.array[i + 1]>> ELSE <<>>

LEMMA LookupFacts ==
  ASSUME NEW x, Sound(x), NEW name
  PROVE  \/ Absent(Listed(x), name) /\ \A i \in Int : Lookup(x, name, i) = <<>>
         \/ \E k \in 1 .. Len(Listed(x)) :
              /\ IsFirst(Listed(x), k, name)
              /\ \A i \in Int : Lookup(x, name, i) = Read(Listed(x)[k], i)
<1>1. PICK w \in Seq(Nat) : Chain(x, w)
  BY DEF Sound
<1>2. x \in Event
  BY DEF Sound
<1> DEFINE p == HeaderPtr(x, name)
<1>3. CASE p = NULL
  <2>1. Absent(Listed(x), name)
    BY <1>1, <1>2, <1>3, PtrNull DEF Absent
  <2>2. \A i \in Int : Lookup(x, name, i) = <<>>
    BY <1>3 DEF Lookup
  <2> QED BY <2>1, <2>2
<1>4. CASE p # NULL
  <2>1. PICK k \in 1 .. Len(w) : /\ p = w[k] /\ x.cells[w[k]].name = name
                                 /\ \A j \in 1 .. k - 1 : x.cells[w[j]].name # name
    BY <1>1, <1>2, <1>4, PtrFacts
  <2>2. /\ Len(Listed(x)) = Len(w) /\ Len(w) \in Nat
        /\ \A j \in 1 .. Len(w) : Listed(x)[j] = Hdr(x.cells[w[j]])
    BY <1>1, <1>2, ListedFacts
  <2>3. \A j \in 1 .. Len(w) : Listed(x)[j].name = x.cells[w[j]].name
    BY <1>1, <1>2, NameOf
  <2>4. IsFirst(Listed(x), k, name)
    <3>1. \A j \in 1 .. k - 1 : j \in 1 .. Len(w)
      BY <2>2
    <3> QED BY <2>1, <2>3, <3>1 DEF IsFirst
  <2>5. Listed(x)[k].value = x.cells[p].value /\ Listed(x)[k].array = x.cells[p].array
    <3>1. Listed(x)[k] = Hdr(x.cells[p])
      BY <2>1, <2>2
    <3> HIDE DEF p
    <3>2. Hdr(x.cells[p]).value = x.cells[p].value /\ Hdr(x.cells[p]).array = x.cells[p].array
      BY DEF Hdr
    <3> QED BY <3>1, <3>2
  <2>6. ASSUME NEW i \in Int PROVE Lookup(x, name, i) = Read(Listed(x)[k], i)
    <3> HIDE DEF p
    <3>1. CASE i < 0
      <4>1. Lookup(x, name, i) = x.cells[p].value
        BY <1>4, <3>1 DEF Lookup, p
      <4> QED BY <2>5, <3>1, <4>1 DEF Read
    <3>2. CASE i >= 0 /\ i < Len(x.cells[p].array)
      <4>1. Lookup(x, name, i) = <<x.cells[p].array[i + 1]>>
        BY <1>4, <3>2 DEF Lookup, p
      <4>2. ~(i < 0)
        BY <3>2
      <4> QED BY <2>5, <3>2, <4>1, <4>2 DEF Read
    <3>3. CASE i >= 0 /\ ~(i < Len(x.cells[p].array))
      <4>1. Lookup(x, name, i) = <<>>
        BY <1>4, <3>3 DEF Lookup, p
      <4>2. ~(i < 0)
        BY <3>3
      <4> QED BY <2>5, <3>3, <4>1, <4>2 DEF Read
    <3> QED BY <3>1, <3>2, <3>3
  <2> QED BY <2>2, <2>4, <2>6
<1> QED BY <1>3, <1>4

\* The list m says what l says, and then has only headers of the name CL.
CL == "Content-Length"
SaysOn(l, m) ==
  /\ Len(l) <= Len(m)
  /\ \A k \in 1 .. Len(l) : m[k].name = l[k].name /\ m[k].value = l[k].value
  /\ \A k \in 1 .. Len(m) : k > Len(l) => m[k].name = CL
SameArrays(l, m) == \A k \in 1 .. Len(l) : m[k].array = l[k].array

LEMMA FirstOnce ==
  ASSUME NEW l \in Seq(Headers), NEW m \in Seq(Headers), SaysOn(l, m), NEW name, name # CL
  PROVE  /\ Absent(l, name) <=> Absent(m, name)
         /\ \A j \in 1 .. Len(l), k \in 1 .. Len(m) :
              IsFirst(l, j, name) /\ IsFirst(m, k, name) => j = k
<1>1. /\ Len(l) \in Nat /\ Len(m) \in Nat /\ Len(l) <= Len(m)
      /\ \A k \in 1 .. Len(l) : k \in 1 .. Len(m) /\ m[k].name = l[k].name
      /\ \A k \in 1 .. Len(m) : k \in 1 .. Len(l) \/ m[k].name = CL
  BY DEF SaysOn
<1>2. Absent(l, name) <=> Absent(m, name)
  BY <1>1 DEF Absent
<1>3. ASSUME NEW j \in 1 .. Len(l), NEW k \in 1 .. Len(m), IsFirst(l, j, name), IsFirst(m, k, name)
      PROVE  j = k
  <2>1. k \in 1 .. Len(l) /\ l[k].name = name /\ m[j].name = name
    BY <1>1, <1>3 DEF IsFirst
  <2>2. ~(k \in 1 .. j - 1)
    BY <1>3, <2>1 DEF IsFirst
  <2>3. ~(j \in 1 .. k - 1)
    BY <1>3, <2>1 DEF IsFirst
  <2>4. j \in Nat /\ k \in Nat /\ j >= 1 /\ k >= 1
    BY <1>1
  <2> QED BY <2>2, <2>3, <2>4
<1> QED BY <1>2, <1>3

LEMMA ReadersAgree ==
  ASSUME NEW x, Sound(x), NEW y, Sound(y), SaysOn(Listed(x), Listed(y))
  PROVE  SameValues(x, y) /\ (SameArrays(Listed(x), Listed(y)) => SameElements(x, y))
<1> DEFINE l == Listed(x)
           m == Listed(y)
<1>1. l \in Seq(Headers) /\ m \in Seq(Headers)
  BY SoundList
<1>2. ASSUME NEW name \in HeaderNames
      PROVE  /\ Lookup(x, name, -1) = Lookup(y, name, -1)
             /\ SameArrays(l, m) => \A i \in Int : Lookup(x, name, i) = Lookup(y, name, i)
  <2>0. name # CL /\ -1 \in Int /\ -1 < 0
    <3>1. name # CL
      BY HeadersAssumption DEF CL
    <3>2. -1 \in Int /\ -1 < 0
      OBVIOUS
    <3> QED BY <3>1, <3>2
  <2>1. /\ \/ Absent(l, name) /\ \A i \in Int : Lookup(x, name, i) = <<>>
           \/ \E k \in 1 .. Len(l) : /\ IsFirst(l, k, name)
                                     /\ \A i \in Int : Lookup(x, name, i) = Read(l[k], i)
        /\ \/ Absent(m, name) /\ \A i \in Int : Lookup(y, name, i) = <<>>
           \/ \E k \in 1 .. Len(m) : /\ IsFirst(m, k, name)
                                     /\ \A i \in Int : Lookup(y, name, i) = Read(m[k], i)
    BY LookupFacts
  <2> HIDE DEF l, m
  <2>2. /\ Absent(l, name) <=> Absent(m, name)
        /\ \A j \in 1 .. Len(l), k \in 1 .. Len(m) :
             IsFirst(l, j, name) /\ IsFirst(m, k, name) => j = k
    <3>1. SaysOn(l, m)
      BY DEF l, m
    <3> QED BY <1>1, <2>0, <3>1, FirstOnce
  <2>3. /\ ~(Absent(l, name) /\ \E k \in 1 .. Len(l) : IsFirst(l, k, name))
        /\ ~(Absent(m, name) /\ \E k \in 1 .. Len(m) : IsFirst(m, k, name))
    BY DEF Absent, IsFirst
  <2>4. CASE Absent(l, name)
    <3>1. /\ \A i \in Int : Lookup(x, name, i) = <<>>
          /\ \A i \in Int : Lookup(y, name, i) = <<>>
      BY <2>1, <2>2, <2>3, <2>4
    <3> QED BY <2>0, <3>1
  <2>5. CASE ~Absent(l, name)
    <3>1. PICK j \in 1 .. Len(l) : /\ IsFirst(l, j, name)
                                   /\ \A i \in Int : Lookup(x, name, i) = Read(l[j], i)
      BY <2>1, <2>5
    <3>2. PICK k \in 1 .. Len(m) : /\ IsFirst(m, k, name)
                                   /\ \A i \in Int : Lookup(y, name, i) = Read(m[k], i)
      BY <2>1, <2>2, <2>5
    <3>3. k = j
      BY <2>2, <3>1, <3>2
    <3>4. m[j].value = l[j].value
      <4>1. SaysOn(l, m)
        BY DEF l, m
      <4> QED BY <4>1 DEF SaysOn
    <3>5. Read(l[j], -1) = l[j].value /\ Read(m[j], -1) = m[j].value
      BY <2>0 DEF Read
    <3>6. Lookup(x, name, -1) = Lookup(y, name, -1)
      <4>1. Lookup(x, name, -1) = Read(l[j], -1)
        BY <2>0, <3>1
      <4>2. Lookup(y, name, -1) = Read(m[j], -1)
        BY <2>0, <3>2, <3>3
      <4> QED BY <3>4, <3>5, <4>1, <4>2
    <3>7. ASSUME SameArrays(l, m), NEW i \in Int PROVE Lookup(x, name, i) = Lookup(y, name, i)
      <4>1. m[j].array = l[j].array
        BY <3>7 DEF SameArrays
      <4>2. Read(l[j], i) = Read(m[j], i)
        BY <3>4, <4>1 DEF Read
      <4> QED BY <3>1, <3>2, <3>3, <4>2
    <3> QED BY <3>6, <3>7
  <2> QED BY <2>4, <2>5
<1> HIDE DEF l, m
<1>3. SameValues(x, y)
  BY <1>2 DEF SameValues
<1>4. SameArrays(l, m) => SameElements(x, y)
  BY <1>2, HeadersAssumption DEF SameElements
<1> QED BY <1>3, <1>4 DEF l, m

-----------------------------------------------------------------------------
(* The duplicate of a duplicate.                                             *)

ItemOf(h) == [name |-> h.name, isArray |-> h.array # <<>>,
              items |-> IF h.array # <<>> THEN h.array ELSE h.value]
ItemsOf(l) == [k \in 1 .. Len(l) |-> ItemOf(l[k])]

LEMMA ItemOfFacts ==
  ASSUME NEW h \in Headers
  PROVE  /\ ItemOf(h) \in Item /\ ItemOf(h).name = h.name
         /\ ItemOf(h).isArray = (h.array # <<>>)
         /\ ItemOf(h).items = (IF h.array # <<>> THEN h.array ELSE h.value)
<1>1. h.name \in Name /\ h.value \in Text /\ h.array \in Seq(Piece)
  BY DEF Headers
<1>2. (h.array # <<>>) \in BOOLEAN
  OBVIOUS
<1>3. (IF h.array # <<>> THEN h.array ELSE h.value) \in Text
  <2>1. h.array # <<>> => h.array \in Text
    BY <1>1 DEF Text
  <2> QED BY <1>1, <2>1
<1> DEFINE b == (h.array # <<>>)
           t == IF h.array # <<>> THEN h.array ELSE h.value
<1>4. ItemOf(h) = [name |-> h.name, isArray |-> b, items |-> t]
  BY DEF ItemOf
<1>5. b \in BOOLEAN /\ t \in Text
  BY <1>2, <1>3
<1> HIDE DEF b, t
<1>6. ItemOf(h) \in Item
  BY <1>1, <1>4, <1>5 DEF Item
<1>7. ItemOf(h).name = h.name /\ ItemOf(h).isArray = b /\ ItemOf(h).items = t
  BY <1>4
<1> QED BY <1>6, <1>7 DEF b, t

LEMMA TidyItem ==
  ASSUME NEW h \in Headers, TidyHeader(h)
  PROVE  /\ Made(ItemOf(h)) = h /\ ItemOf(h).items = h.value /\ Starts(h.value)
         /\ Len(h.value) > 1 => h.array # <<>>
         /\ IsWhole(ItemOf(h)) => h.array # <<>>
<1>1. Starts(h.value) /\ (h.array = h.value \/ (h.array = <<>> /\ Len(h.value) = 1))
  BY DEF TidyHeader
<1>2. h = [name |-> h.name, value |-> h.value, array |-> h.array]
  BY DEF Headers
<1>3. h.value \in Text
  BY DEF Headers
<1>4. CASE h.array = h.value
  <2>1. h.array # <<>>
    BY <1>3, <1>4, TextFacts
  <2>2. ItemOf(h).isArray /\ ItemOf(h).items = h.value /\ ItemOf(h).name = h.name
    BY <1>4, <2>1, ItemOfFacts
  <2>3. Made(ItemOf(h)) = Begun(h.name, h.value)
    BY <2>2 DEF Made, IsWhole
  <2>4. Begun(h.name, h.value) = h
    BY <1>2, <1>4 DEF Begun
  <2> QED BY <1>1, <2>1, <2>2, <2>3, <2>4
<1>5. CASE h.array = <<>> /\ Len(h.value) = 1
  <2>1. /\ ItemOf(h).isArray = FALSE /\ ItemOf(h).items = h.value
        /\ ItemOf(h).name = h.name
    BY <1>5, ItemOfFacts
  <2>2. ~(Len(h.value) > 1)
    BY <1>5
  <2>3. ~IsWhole(ItemOf(h))
    BY <2>1, <2>2 DEF IsWhole
  <2>4. Made(ItemOf(h)) = Textual(h.name, h.value)
    BY <2>1, <2>3 DEF Made
  <2>5. Textual(h.name, h.value) = h
    BY <1>2, <1>5 DEF Textual
  <2> QED BY <1>1, <2>1, <2>2, <2>3, <2>4, <2>5
<1> QED BY <1>1, <1>4, <1>5

LEMMA CopiedFills ==
  ASSUME NEW e, Sound(e)
  PROVE  \E c : /\ Fills(ItemsOf(Listed(e)), Len(Listed(e)), c)
                /\ Copied(Created, e) = c[Len(Listed(e))]
<1> DEFINE from == Listed(e)
           n == Len(from)
           c == CHOOSE c : Copies(Created, from, c)
<1>1. from \in Seq(Headers) /\ n \in Nat /\ \A k \in 1 .. n : from[k] \in Headers
  BY SoundList
<1>2. Copies(Created, from, c)
  <2> HIDE DEF from
  <2> QED BY <1>1, CopiesExist, CreatedFacts
<1>3. Copied(Created, e) = c[n]
  BY DEF Copied, Copies, OneCopied
<1> HIDE DEF c, from
<1>4. c[0] = Created /\ \A k \in 1 .. n : c[k] = OneCopied(c[k - 1], from[k])
  BY <1>1, <1>2 DEF Copies
<1>5. ASSUME NEW k \in 1 .. n PROVE c[k] = ItemAdded(c[k - 1], ItemsOf(from)[k])
  <2>1. ItemsOf(from)[k] = ItemOf(from[k])
    BY DEF ItemsOf
  <2>2. OneCopied(c[k - 1], from[k]) = ItemAdded(c[k - 1], ItemOf(from[k]))
    BY <1>1, ItemOfFacts DEF OneCopied, ItemAdded
  <2> QED BY <1>4, <2>1, <2>2
<1>6. Fills(ItemsOf(from), n, c)
  BY <1>4, <1>5 DEF Fills
<1> QED BY <1>3, <1>6 DEF from

LEMMA AllItems ==
  ASSUME NEW l \in Seq(Headers)
  PROVE  AreItems(ItemsOf(l), Len(l))
BY ItemOfFacts DEF AreItems, ItemsOf

\* Copying a list that came from copying gives the same list.
LEMMA CopiedAgain ==
  ASSUME NEW e, Sound(e), Tidy(Listed(e))
  PROVE  Listed(Copied(Created, e)) = Listed(e)
<1> DEFINE l == Listed(e)
           n == Len(l)
<1>1. l \in Seq(Headers) /\ n \in Nat /\ n \in 0 .. n /\ \A k \in 1 .. n : l[k] \in Headers
  BY SoundList
<1>2. PICK c : Fills(ItemsOf(l), n, c) /\ Copied(Created, e) = c[n]
  BY CopiedFills
<1>3. Tidy(l)
  OBVIOUS
<1> HIDE DEF l
<1>4. \A k \in 1 .. n : /\ ItemsOf(l)[k] = ItemOf(l[k]) /\ TidyHeader(l[k])
                        /\ l[k].array # <<>> => IsFirst(l, k, l[k].name)
  BY <1>3 DEF Tidy, ItemsOf
<1>5. ASSUME NEW k \in 1 .. n
      PROVE  /\ Starts(ItemsOf(l)[k].items)
             /\ IsWhole(ItemsOf(l)[k]) => \A j \in 1 .. k - 1 : ItemsOf(l)[j].name # ItemsOf(l)[k].name
  <2>1. Starts(ItemsOf(l)[k].items) /\ (IsWhole(ItemsOf(l)[k]) => l[k].array # <<>>)
    BY <1>1, <1>4, TidyItem
  <2>2. ASSUME IsWhole(ItemsOf(l)[k]), NEW j \in 1 .. k - 1
        PROVE  ItemsOf(l)[j].name # ItemsOf(l)[k].name
    <3>1. j \in 1 .. n /\ l[j].name # l[k].name
      <4>1. IsFirst(l, k, l[k].name)
        BY <1>4, <2>1, <2>2
      <4> QED BY <1>1, <4>1 DEF IsFirst
    <3> QED BY <1>1, <1>4, <3>1, ItemOfFacts
  <2> QED BY <2>1, <2>2
<1>6. Fine(ItemsOf(l), n)
  BY <1>5 DEF Fine
<1>7. Says(Listed(c[n]), ItemsOf(l), n)
  BY <1>1, <1>2, <1>6, AllItems, FillAppends
<1>8. Listed(c[n]) \in Seq(Headers)
  <2>1. c[n] \in Copy(<<>>)
    BY <1>1, <1>2, AllItems, FillKeeps
  <2> QED BY <2>1, CopyFacts
<1>9. \A k \in 1 .. n : Listed(c[n])[k] = l[k]
  BY <1>1, <1>4, <1>7, TidyItem DEF Says
<1>10. Listed(c[n]) = l
  BY <1>1, <1>7, <1>8, <1>9, SeqEqual DEF Says
<1> QED BY <1>2, <1>10 DEF l

LEMMA DupFacts ==
  ASSUME NEW e, Sound(e)
  PROVE  /\ Sound(Dup(e)) /\ Tidy(Listed(Dup(e)))
         /\ Listed(Dup(e)) = Listed(Copied(Created, e))
<1>1. e.body \in Bodies
  BY EventFacts DEF Sound
<1>2. PICK c : /\ Fills(ItemsOf(Listed(e)), Len(Listed(e)), c)
               /\ Copied(Created, e) = c[Len(Listed(e))]
  BY CopiedFills
<1>3. Listed(e) \in Seq(Headers) /\ Len(Listed(e)) \in Nat /\ Len(Listed(e)) \in 0 .. Len(Listed(e))
  BY SoundList
<1>4. Copied(Created, e) \in Copy(<<>>)
  BY <1>2, <1>3, AllItems, FillKeeps
<1>5. Sound(Copied(Created, e)) /\ Tidy(Listed(Copied(Created, e)))
  BY <1>4, CopyFacts
<1> QED BY <1>1, <1>5, BodyFacts DEF Dup

LEMMA DupOfDup ==
  ASSUME NEW e, Sound(e)
  PROVE  Listed(Dup(Dup(e))) = Listed(Dup(e))
<1>1. Sound(Dup(e)) /\ Tidy(Listed(Dup(e)))
  BY DupFacts
<1>2. Listed(Dup(Dup(e))) = Listed(Copied(Created, Dup(e)))
  BY <1>1, DupFacts
<1>3. Listed(Copied(Created, Dup(e))) = Listed(Dup(e))
  BY <1>1, CopiedAgain
<1> QED BY <1>2, <1>3

-----------------------------------------------------------------------------
(* An event that is sent on.                                                 *)

Line == [name : Name, text : Text]
LineItem(line) == [name |-> line.name, isArray |-> FALSE, items |-> line.text]
LineItems(lines) == [k \in 1 .. Len(lines) |-> LineItem(lines[k])]

LEMMA Joined ==
  ASSUME NEW S, NEW s \in Seq(S), NEW t \in Seq(S)
  PROVE  /\ s \o t \in Seq(S) /\ Len(s \o t) = Len(s) + Len(t)
         /\ \A k \in 1 .. Len(s) : (s \o t)[k] = s[k]
         /\ \A k \in 1 .. Len(t) : (s \o t)[Len(s) + k] = t[k]
OBVIOUS

LEMMA LineItemFacts ==
  ASSUME NEW line \in Line
  PROVE  /\ LineItem(line) \in Item /\ LineItem(line).name = line.name
         /\ LineItem(line).items = line.text /\ LineItem(line).isArray = FALSE
BY DEF LineItem, Item, Line

LEMMA LengthLine ==
  /\ Length \in Line /\ Length.name = CL /\ Length.text = <<"length">>
  /\ Starts(Length.text) /\ Len(Length.text) = 1
<1>1. Length.name = CL /\ Length.text = <<"length">>
  BY DEF Length, CL
<1>2. "length" \in Piece /\ CL \in Name
  BY DEF Piece, Name, CL
<1>3. <<"length">> \in Seq(Piece) /\ Len(<<"length">>) = 1 /\ <<"length">> # <<>>
  BY <1>2
<1>4. <<"length">> \in Text
  BY <1>3 DEF Text
<1>5. Length \in Line
  BY <1>2, <1>4 DEF Length, Line, CL
<1>6. Starts(<<"length">>)
  <2>1. <<"length">>[1] = "length"
    OBVIOUS
  <2>2. "length" # ""
    OBVIOUS
  <2> QED BY <2>1, <2>2 DEF Starts
<1> QED BY <1>1, <1>3, <1>5, <1>6

Shown(value) == IF value = Empty THEN Undef ELSE value

LEMMA ShownText ==
  ASSUME NEW value \in Text
  PROVE  Shown(value) \in Text /\ (Starts(value) => Shown(value) = value)
<1>1. Undef \in Text
  <2>1. "_undef_" \in Piece
    BY DEF Piece
  <2> QED BY <2>1 DEF Undef, Text
<1>2. ~Starts(Empty)
  BY DEF Starts, Empty
<1> QED BY <1>1, <1>2 DEF Shown

\* The lines of an event.
LEMMA LinesFacts ==
  ASSUME NEW e, Sound(e)
  PROVE  /\ Serialized(e).lines \in Seq(Line) /\ Serialized(e).body = e.body
         /\ \A k \in 1 .. Len(Listed(e)) :
              Serialized(e).lines[k] = [name |-> Listed(e)[k].name, text |-> Shown(Listed(e)[k].value)]
         /\ e.body = <<>> => Len(Serialized(e).lines) = Len(Listed(e))
         /\ e.body # <<>> => /\ Len(Serialized(e).lines) = Len(Listed(e)) + 1
                             /\ Serialized(e).lines[Len(Listed(e)) + 1] = Length
<1> DEFINE l == Listed(e)
           n == Len(l)
           s == [k \in 1 .. n |-> [name |-> l[k].name, text |-> Shown(l[k].value)]]
           t == IF e.body = <<>> THEN <<>> ELSE <<Length>>
<1>1. l \in Seq(Headers) /\ n \in Nat /\ DOMAIN l = 1 .. n /\ \A k \in 1 .. n : l[k] \in Headers
  BY SoundList
<1>2. Serialized(e).lines = s \o t /\ Serialized(e).body = e.body
  <2>1. Lines(e) = s
    <3>1. Lines(e) = [k \in DOMAIN l |-> [name |-> l[k].name, text |-> Shown(l[k].value)]]
      BY DEF Lines, Shown
    <3> HIDE DEF l
    <3> QED BY <1>1, <3>1
  <2> HIDE DEF s
  <2> QED BY <2>1 DEF Serialized
<1> HIDE DEF l
<1>3. ASSUME NEW k \in 1 .. n PROVE [name |-> l[k].name, text |-> Shown(l[k].value)] \in Line
  <2>1. l[k].name \in Name /\ l[k].value \in Text
    BY <1>1 DEF Headers
  <2> QED BY <2>1, ShownText DEF Line
<1>4. s \in Seq(Line) /\ Len(s) = n
      /\ \A k \in 1 .. n : s[k] = [name |-> l[k].name, text |-> Shown(l[k].value)]
  <2> DEFINE T(k) == [name |-> l[k].name, text |-> Shown(l[k].value)]
  <2>1. \A k \in 1 .. n : T(k) \in Line
    BY <1>3
  <2> HIDE DEF T
  <2>2. [k \in 1 .. n |-> T(k)] \in Seq(Line) /\ Len([k \in 1 .. n |-> T(k)]) = n
    BY <1>1, <2>1
  <2>3. s = [k \in 1 .. n |-> T(k)] /\ \A k \in 1 .. n : s[k] = T(k)
    BY DEF T
  <2> QED BY <2>2, <2>3 DEF T
<1>5. t \in Seq(Line) /\ (e.body = <<>> => Len(t) = 0)
      /\ (e.body # <<>> => Len(t) = 1 /\ t[1] = Length)
  <2>1. <<>> \in Seq(Line) /\ Len(<<>>) = 0
    OBVIOUS
  <2>2. \A x \in Line : <<x>> \in Seq(Line) /\ Len(<<x>>) = 1 /\ <<x>>[1] = x
    OBVIOUS
  <2> QED BY <2>1, <2>2, LengthLine
<1> HIDE DEF s, t
<1>6. /\ s \o t \in Seq(Line) /\ Len(s \o t) = n + Len(t)
      /\ \A k \in 1 .. n : (s \o t)[k] = s[k]
      /\ \A k \in 1 .. Len(t) : (s \o t)[n + k] = t[k]
  BY <1>4, <1>5, Joined
<1>7. e.body = <<>> => Len(s \o t) = n
  BY <1>1, <1>5, <1>6
<1>8. e.body # <<>> => Len(s \o t) = n + 1 /\ (s \o t)[n + 1] = Length
  BY <1>5, <1>6
<1> QED BY <1>2, <1>4, <1>6, <1>7, <1>8 DEF l

\* esl_recv_event adds the lines one after the other.
Reads(lines, p) ==
  p = [k \in 0 .. Len(lines) |->
         IF k = 0 THEN Created ELSE AddHeader(p[k - 1], BOTTOM, lines[k].name, lines[k].text)]

LEMMA LineItemAdded ==
  ASSUME NEW line \in Line, NEW x, NEW printed
  PROVE  /\ ItemAdded(x, LineItem(line)) = AddHeader(x, BOTTOM, line.name, line.text)
         /\ ItemPut(x, LineItem(line), printed) = ItemAdded(x, LineItem(line))
<1>1. /\ LineItem(line) \in Item /\ LineItem(line).name = line.name
      /\ LineItem(line).items = line.text /\ LineItem(line).isArray = FALSE
  BY LineItemFacts
<1>2. ItemPut(x, LineItem(line), printed) = ItemAdded(x, LineItem(line))
  BY <1>1, NotBody
<1> QED BY <1>1, <1>2 DEF ItemAdded

LEMMA ReadsExist ==
  ASSUME NEW lines \in Seq(Line)
  PROVE  \E p : Reads(lines, p)
<1> DEFINE items == LineItems(lines)
           n == Len(lines)
<1>1. n \in Nat /\ \A k \in 1 .. n : lines[k] \in Line
  OBVIOUS
<1>2. items \in Seq(Item \cup BodyItems) /\ Len(items) = n /\ \A k \in 1 .. n : items[k] = LineItem(lines[k])
  <2>1. \A k \in 1 .. n : LineItem(lines[k]) \in Item \cup BodyItems
    BY <1>1, LineItemFacts
  <2> QED BY <1>1, <2>1 DEF LineItems
<1> HIDE DEF items
<1>3. PICK c : Puts(items, <<>>, c)
  <2>1. <<>> \in Bodies
    BY DEF Bodies
  <2> QED BY <1>2, <2>1, PutsExist
<1>4. c = [k \in 0 .. n |-> IF k = 0 THEN Created ELSE ItemPut(c[k - 1], items[k], <<>>)]
  BY <1>2, <1>3 DEF Puts
<1>5. ASSUME NEW k \in 0 .. n
      PROVE  (IF k = 0 THEN Created ELSE ItemPut(c[k - 1], items[k], <<>>))
               = IF k = 0 THEN Created
                 ELSE AddHeader(c[k - 1], BOTTOM, lines[k].name, lines[k].text)
  <2>1. CASE k = 0
    BY <2>1
  <2>2. CASE k # 0
    <3>1. k \in 1 .. n
      BY <1>1, <2>2
    <3>2. ItemPut(c[k - 1], items[k], <<>>) = AddHeader(c[k - 1], BOTTOM, lines[k].name, lines[k].text)
      BY <1>1, <1>2, <3>1, LineItemAdded
    <3> QED BY <2>2, <3>2
  <2> QED BY <2>1, <2>2
<1>6. c = [k \in 0 .. n |-> IF k = 0 THEN Created
                            ELSE AddHeader(c[k - 1], BOTTOM, lines[k].name, lines[k].text)]
  <2> HIDE DEF n
  <2> QED BY <1>4, <1>5
<1> QED BY <1>6 DEF Reads

LEMMA ParsedFills ==
  ASSUME NEW text, NEW lines \in Seq(Line), lines = text.lines
  PROVE  \E p : /\ Fills(LineItems(lines), Len(lines), p)
                /\ Parsed(text) = IF Lookup(p[Len(lines)], Length.name, -1) = <<>> THEN p[Len(lines)]
                                  ELSE [p[Len(lines)] EXCEPT !.body = text.body]
<1> DEFINE n == Len(lines)
           p == CHOOSE p : Reads(lines, p)
<1>1. n \in Nat /\ \A k \in 1 .. n : lines[k] \in Line
  OBVIOUS
<1>2. Reads(lines, p)
  BY ReadsExist
<1>3. Parsed(text) = IF Lookup(p[n], Length.name, -1) = <<>> THEN p[n]
                     ELSE [p[n] EXCEPT !.body = text.body]
  BY DEF Parsed, Reads
<1> HIDE DEF p
<1>4. /\ p[0] = Created
      /\ \A k \in 1 .. n : p[k] = AddHeader(p[k - 1], BOTTOM, lines[k].name, lines[k].text)
  <2>1. p = [k \in 0 .. n |-> IF k = 0 THEN Created
                            ELSE AddHeader(p[k - 1], BOTTOM, lines[k].name, lines[k].text)]
    BY <1>2 DEF Reads
  <2>2. 0 \in 0 .. n /\ \A k \in 1 .. n : k \in 0 .. n /\ k # 0
    BY <1>1
  <2> HIDE DEF n
  <2>3. p[0] = Created
    BY <2>1, <2>2
  <2>4. ASSUME NEW k \in 1 .. n
        PROVE  p[k] = AddHeader(p[k - 1], BOTTOM, lines[k].name, lines[k].text)
    BY <2>1, <2>2
  <2> QED BY <2>3, <2>4
<1>5. ASSUME NEW k \in 1 .. n PROVE p[k] = ItemAdded(p[k - 1], LineItems(lines)[k])
  <2>1. LineItems(lines)[k] = LineItem(lines[k])
    BY DEF LineItems
  <2> QED BY <1>1, <1>4, <2>1, LineItemAdded
<1>6. Fills(LineItems(lines), n, p)
  BY <1>4, <1>5 DEF Fills
<1> QED BY <1>3, <1>6

LEMMA AllLineItems ==
  ASSUME NEW lines \in Seq(Line)
  PROVE  /\ AreItems(LineItems(lines), Len(lines))
         /\ \A k \in 1 .. Len(lines) : LineItems(lines)[k] = LineItem(lines[k]) /\ lines[k] \in Line
<1>1. Len(lines) \in Nat /\ \A k \in 1 .. Len(lines) : lines[k] \in Line
  OBVIOUS
<1>2. \A k \in 1 .. Len(lines) : LineItems(lines)[k] = LineItem(lines[k])
  BY DEF LineItems
<1> QED BY <1>1, <1>2, LineItemFacts DEF AreItems

\* The header that the length of the body becomes.
LEMMA LengthAppends ==
  ASSUME NEW x, Sound(x)
  PROVE  /\ AddedLast(Listed(x), Listed(ItemAdded(x, LineItem(Length))), Made(LineItem(Length)))
         /\ Made(LineItem(Length)).name = CL
         /\ Lookup(ItemAdded(x, LineItem(Length)), Length.name, -1) # <<>>
<1> DEFINE item == LineItem(Length)
           y == ItemAdded(x, item)
<1>1. /\ item \in Item /\ item.name = CL /\ item.items = Length.text /\ item.isArray = FALSE
      /\ Starts(item.items) /\ Len(item.items) = 1
  BY LengthLine, LineItemFacts
<1> HIDE DEF item
<1>2. ~IsWhole(item)
  BY <1>1 DEF IsWhole
<1>3. AddedLast(Listed(x), Listed(y), Made(item))
  BY <1>1, <1>2, ItemAppends
<1>4. Made(item).name = CL
  BY <1>1, MadeFacts
<1>5. Sound(y)
  BY <1>1, ItemSound
<1> HIDE DEF y
<1>6. Listed(x) \in Seq(Headers) /\ Listed(y) \in Seq(Headers)
  BY <1>5, SoundList
<1>7. ~Absent(Listed(y), CL)
  <2>1. Len(Listed(x)) \in Nat /\ Len(Listed(y)) = Len(Listed(x)) + 1
    BY <1>3, <1>6 DEF AddedLast
  <2>2. Listed(y)[Len(Listed(x)) + 1].name = CL
    BY <1>3, <1>4 DEF AddedLast
  <2>3. Len(Listed(x)) + 1 \in 1 .. Len(Listed(y))
    BY <2>1
  <2> QED BY <2>2, <2>3 DEF Absent
<1>8. -1 \in Int /\ -1 < 0
  OBVIOUS
<1>9. PICK k \in 1 .. Len(Listed(y)) : \A i \in Int : Lookup(y, CL, i) = Read(Listed(y)[k], i)
  BY <1>5, <1>7, LookupFacts
<1>10. Lookup(y, CL, -1) = Listed(y)[k].value
  <2>1. Lookup(y, CL, -1) = Read(Listed(y)[k], -1)
    BY <1>8, <1>9
  <2> QED BY <1>8, <2>1 DEF Read
<1>11. Listed(y)[k].value \in Text
  <2>1. Listed(y)[k] \in Headers
    BY <1>6
  <2> QED BY <2>1 DEF Headers
<1>12. Lookup(y, CL, -1) # <<>>
  BY <1>10, <1>11, TextFacts
<1> QED BY <1>3, <1>4, <1>12, LengthLine DEF y, item

\* What arrives of an event, p being the event after each of its lines.
Arrives(e, p, n) ==
  /\ n = Len(Serialized(e).lines) /\ n \in Nat
  /\ Fills(LineItems(Serialized(e).lines), n, p)
  /\ Sound(Sent(e)) /\ Tidy(Listed(Sent(e))) /\ Sent(e).body = e.body
  /\ Listed(Sent(e)) = Listed(p[n])

LEMMA SentFacts ==
  ASSUME NEW e, Sound(e)
  PROVE  \E p, n : Arrives(e, p, n)
<1> DEFINE lines == Serialized(e).lines
           n == Len(lines)
           N == Len(Listed(e))
<1>1. /\ lines \in Seq(Line) /\ Serialized(e).body = e.body
      /\ e.body # <<>> => n = N + 1 /\ lines[N + 1] = Length
  BY LinesFacts
<1>2. N \in Nat /\ n \in Nat /\ n \in 0 .. n
  BY <1>1, SoundList
<1>3. PICK p : /\ Fills(LineItems(lines), n, p)
               /\ Parsed(Serialized(e)) = IF Lookup(p[n], Length.name, -1) = <<>> THEN p[n]
                                          ELSE [p[n] EXCEPT !.body = Serialized(e).body]
  BY <1>1, ParsedFills
<1> DEFINE x == p[n]
<1>4. Sent(e) = IF Lookup(x, Length.name, -1) = <<>> THEN x ELSE [x EXCEPT !.body = e.body]
  BY <1>1, <1>3 DEF Sent
<1> HIDE DEF lines, N
<1>5. \A k \in 0 .. n : p[k] \in Copy(<<>>)
  BY <1>1, <1>2, <1>3, AllLineItems, FillKeeps
<1>6. x \in Copy(<<>>)
  BY <1>2, <1>5
<1>7. Sound(x) /\ Tidy(Listed(x)) /\ x.body = <<>>
  BY <1>6, CopyFacts
<1>8. e.body # <<>> => Lookup(x, Length.name, -1) # <<>>
  <2>1. ASSUME e.body # <<>> PROVE Lookup(x, Length.name, -1) # <<>>
    <3>1. n = N + 1 /\ lines[n] = Length /\ n \in 1 .. n /\ N = n - 1 /\ n - 1 \in 0 .. n
      BY <1>1, <1>2, <2>1
    <3>2. LineItems(lines)[n] = LineItem(Length)
      BY <1>1, <3>1, AllLineItems
    <3>3. x = ItemAdded(p[n - 1], LineItem(Length))
      BY <1>3, <3>1, <3>2 DEF Fills
    <3>4. Sound(p[n - 1])
      BY <1>5, <3>1, CopyFacts
    <3> HIDE DEF x
    <3> QED BY <3>3, <3>4, LengthAppends
  <2> QED BY <2>1
<1>9. e.body \in Bodies
  BY EventFacts DEF Sound
<1> HIDE DEF x
<1>10. /\ Sound([x EXCEPT !.body = e.body]) /\ Listed([x EXCEPT !.body = e.body]) = Listed(x)
       /\ [x EXCEPT !.body = e.body].body = e.body
  BY <1>7, <1>9, BodyFacts
<1>11. /\ Sound(Sent(e)) /\ Tidy(Listed(Sent(e))) /\ Sent(e).body = e.body
       /\ Listed(Sent(e)) = Listed(x)
  <2>1. CASE Lookup(x, Length.name, -1) = <<>>
    <3>1. Sent(e) = x /\ e.body = <<>>
      BY <1>4, <1>8, <2>1
    <3> QED BY <1>7, <3>1
  <2>2. CASE Lookup(x, Length.name, -1) # <<>>
    <3>1. Sent(e) = [x EXCEPT !.body = e.body]
      BY <1>4, <2>2
    <3> QED BY <1>7, <1>10, <3>1
  <2> QED BY <2>1, <2>2
<1> QED BY <1>2, <1>3, <1>11 DEF Arrives, lines, x

\* Sending on a list that came from adding.
LEMMA SentAgain ==
  ASSUME NEW s, Sound(s), Tidy(Listed(s))
  PROVE  SaysOn(Listed(s), Listed(Sent(s)))
<1> DEFINE l == Listed(s)
           n == Len(l)
           lines == Serialized(s).lines
           items == LineItems(lines)
<1>1. PICK p, m : Arrives(s, p, m)
  BY SentFacts
<1>2. /\ lines \in Seq(Line)
      /\ \A k \in 1 .. n : lines[k] = [name |-> l[k].name, text |-> Shown(l[k].value)]
      /\ s.body = <<>> => m = n
      /\ s.body # <<>> => m = n + 1 /\ lines[n + 1] = Length
  BY <1>1, LinesFacts DEF Arrives
<1>3. m = Len(lines) /\ m \in Nat /\ Fills(items, m, p) /\ Listed(Sent(s)) = Listed(p[m])
  BY <1>1 DEF Arrives
<1>4. /\ l \in Seq(Headers) /\ n \in Nat /\ n <= m
      /\ \A k \in 1 .. n : l[k] \in Headers
  <2>1. l \in Seq(Headers)
    BY SoundList
  <2> HIDE DEF l
  <2> QED BY <1>2, <2>1
<1>5. Tidy(l)
  OBVIOUS
<1> HIDE DEF l, lines
<1>6. \A k \in 1 .. m : items[k] = LineItem(lines[k]) /\ lines[k] \in Line /\ k \in 1 .. Len(lines)
  BY <1>2, <1>3, AllLineItems
<1>7. AreItems(items, m)
  BY <1>2, <1>3, AllLineItems
<1> HIDE DEF items
<1>8. ASSUME NEW k \in 1 .. n
      PROVE  /\ items[k].name = l[k].name /\ items[k].items = l[k].value
             /\ items[k].isArray = FALSE /\ k \in 1 .. m
  <2>0. k \in 1 .. m /\ l[k] \in Headers
    BY <1>3, <1>4
  <2>1. k \in 1 .. m /\ TidyHeader(l[k]) /\ l[k].value \in Text
    <3>1. TidyHeader(l[k])
      BY <1>5 DEF Tidy
    <3>2. l[k].value \in Text
      BY <2>0 DEF Headers
    <3> QED BY <2>0, <3>1, <3>2
  <2>2. Shown(l[k].value) = l[k].value
    BY <1>4, <2>1, TidyItem, ShownText
  <2>3. lines[k].name = l[k].name /\ lines[k].text = l[k].value
    <3>1. lines[k] = [name |-> l[k].name, text |-> l[k].value]
      BY <1>2, <2>2
    <3> QED BY <3>1
  <2>4. items[k] = LineItem(lines[k]) /\ lines[k] \in Line
    BY <1>6, <2>1
  <2>5. /\ LineItem(lines[k]).name = lines[k].name /\ LineItem(lines[k]).items = lines[k].text
        /\ LineItem(lines[k]).isArray = FALSE
    BY <2>4, LineItemFacts
  <2> QED BY <2>1, <2>3, <2>4, <2>5
<1>9. ASSUME NEW k \in 1 .. n
      PROVE  /\ Starts(items[k].items)
             /\ IsWhole(items[k]) => \A j \in 1 .. k - 1 : items[j].name # items[k].name
  <2>1. TidyHeader(l[k]) /\ (l[k].array # <<>> => IsFirst(l, k, l[k].name))
    BY <1>5 DEF Tidy
  <2>2. Starts(l[k].value) /\ (Len(l[k].value) > 1 => l[k].array # <<>>)
    BY <1>4, <2>1, TidyItem
  <2>3. ASSUME IsWhole(items[k]), NEW j \in 1 .. k - 1 PROVE items[j].name # items[k].name
    <3>1. Len(l[k].value) > 1
      BY <1>8, <2>3 DEF IsWhole
    <3>2. j \in 1 .. n /\ l[j].name # l[k].name
      <4>1. IsFirst(l, k, l[k].name)
        BY <2>1, <2>2, <3>1
      <4> QED BY <1>4, <4>1 DEF IsFirst
    <3> QED BY <1>8, <3>2
  <2> QED BY <1>8, <2>2, <2>3
<1>10. Fine(items, n)
  BY <1>9 DEF Fine
<1>11. Fills(items, n, p) /\ AreItems(items, n)
  <2>1. \A k \in 1 .. n : k \in 1 .. m
    BY <1>3, <1>4
  <2> QED BY <1>3, <1>7, <2>1 DEF Fills, AreItems
<1>12. Says(Listed(p[n]), items, n)
  <2>1. n \in 0 .. n
    BY <1>4
  <2> QED BY <1>4, <1>10, <1>11, <2>1, FillAppends
<1>13. \A k \in 1 .. n : /\ Listed(p[n])[k].name = l[k].name
                         /\ Listed(p[n])[k].value = l[k].value
  BY <1>8, <1>12, MadeFacts DEF Says
<1>14. Len(Listed(p[n])) = n
  BY <1>12 DEF Says
<1>15. SaysOn(l, Listed(p[m]))
  <2>1. CASE s.body = <<>>
    <3>1. m = n
      BY <1>2, <2>1
    <3> QED BY <1>4, <1>13, <1>14, <3>1 DEF SaysOn
  <2>2. CASE s.body # <<>>
    <3>1. m = n + 1 /\ m \in 1 .. m /\ m - 1 = n /\ n \in 0 .. m /\ lines[m] = Length
      BY <1>2, <1>4, <2>2
    <3>2. p[m] = ItemAdded(p[n], LineItem(Length))
      BY <1>3, <1>6, <3>1 DEF Fills
    <3>3. Sound(p[n])
      BY <1>3, <1>7, <3>1, FillKeeps, CopyFacts
    <3>4. AddedLast(Listed(p[n]), Listed(p[m]), Made(LineItem(Length))) /\ Made(LineItem(Length)).name = CL
      BY <3>2, <3>3, LengthAppends
    <3>5. /\ Len(Listed(p[m])) = n + 1 /\ Listed(p[m])[n + 1].name = CL
          /\ \A k \in 1 .. n : Listed(p[m])[k] = Listed(p[n])[k]
      BY <1>14, <3>4 DEF AddedLast
    <3>6. \A k \in 1 .. n + 1 : k > n => k = n + 1
      BY <1>4
    <3> QED BY <1>4, <1>13, <3>5, <3>6 DEF SaysOn
  <2> QED BY <2>1, <2>2
<1> QED BY <1>3, <1>15 DEF l

LEMMA SentTwice ==
  ASSUME NEW e, Sound(e)
  PROVE  SameValues(Sent(Sent(e)), Sent(e)) /\ Sent(e).body = e.body
<1>1. Sound(Sent(e)) /\ Tidy(Listed(Sent(e))) /\ Sent(e).body = e.body
  BY SentFacts DEF Arrives
<1>2. SaysOn(Listed(Sent(e)), Listed(Sent(Sent(e))))
  BY <1>1, SentAgain
<1>3. Sound(Sent(Sent(e)))
  BY <1>1, SentFacts DEF Arrives
<1>4. SameValues(Sent(e), Sent(Sent(e)))
  BY <1>1, <1>2, <1>3, ReadersAgree
<1> QED BY <1>1, <1>4 DEF SameValues

-----------------------------------------------------------------------------
(* An event that goes as JSON.                                               *)

Joins(u, s, t, S) ==
  /\ u \in Seq(S) /\ Len(u) = Len(s) + Len(t)
  /\ \A k \in 1 .. Len(s) : u[k] = s[k]
  /\ \A k \in 1 .. Len(t) : u[Len(s) + k] = t[k]

LEMMA JoinedAs ==
  ASSUME NEW S, NEW s \in Seq(S), NEW t \in Seq(S)
  PROVE  Joins(s \o t, s, t, S)
BY DEF Joins

LEMMA JsonFacts ==
  ASSUME NEW e, Sound(e)
  PROVE  /\ Json(e) \in Seq(Item \cup BodyItems)
         /\ \A k \in 1 .. Len(Listed(e)) : Json(e)[k] = ItemOf(Listed(e)[k])
         /\ e.body = <<>> => Len(Json(e)) = Len(Listed(e))
         /\ e.body # <<>> => /\ Len(Json(e)) = Len(Listed(e)) + 2
                             /\ Json(e)[Len(Listed(e)) + 1] = LineItem(Length)
                             /\ Json(e)[Len(Listed(e)) + 2] = BodyItem(e.body)
<1> DEFINE l == Listed(e)
           n == Len(l)
           All == Item \cup BodyItems
           s == [k \in 1 .. n |-> ItemOf(l[k])]
           t == IF e.body = <<>> THEN <<>> ELSE <<LineItem(Length), BodyItem(e.body)>>
<1>1. l \in Seq(Headers) /\ n \in Nat /\ DOMAIN l = 1 .. n /\ \A k \in 1 .. n : l[k] \in Headers
  BY SoundList
<1>2. e.body \in Bodies
  BY EventFacts DEF Sound
<1>3. Json(e) = s \o t
  <2>2. Json(e) = [k \in DOMAIN l |-> ItemOf(l[k])]
                  \o (IF e.body = <<>> THEN <<>>
                      ELSE << [name |-> Length.name, isArray |-> FALSE, items |-> Length.text],
                              [name |-> "_body", isArray |-> FALSE, items |-> e.body] >>)
    BY DEF Json, ItemOf
  <2>3. (IF e.body = <<>> THEN <<>>
         ELSE << [name |-> Length.name, isArray |-> FALSE, items |-> Length.text],
                 [name |-> "_body", isArray |-> FALSE, items |-> e.body] >>) = t
    BY DEF LineItem, BodyItem
  <2> HIDE DEF l, t
  <2> QED BY <1>1, <2>2, <2>3
<1> HIDE DEF l
<1>4. s \in Seq(All) /\ Len(s) = n /\ \A k \in 1 .. n : s[k] = ItemOf(l[k])
  <2> DEFINE T(k) == ItemOf(l[k])
  <2>1. \A k \in 1 .. n : T(k) \in All
    BY <1>1, ItemOfFacts
  <2> HIDE DEF T, All
  <2>2. [k \in 1 .. n |-> T(k)] \in Seq(All) /\ Len([k \in 1 .. n |-> T(k)]) = n
    BY <1>1, <2>1
  <2>3. s = [k \in 1 .. n |-> T(k)] /\ \A k \in 1 .. n : s[k] = T(k)
    BY DEF T
  <2> QED BY <2>2, <2>3 DEF T
<1>5. /\ t \in Seq(All) /\ (e.body = <<>> => Len(t) = 0)
      /\ e.body # <<>> => Len(t) = 2 /\ t[1] = LineItem(Length) /\ t[2] = BodyItem(e.body)
  <2>1. LineItem(Length) \in All /\ BodyItem(e.body) \in All
    BY <1>2, LengthLine, LineItemFacts DEF BodyItems
  <2> HIDE DEF All
  <2>2. <<>> \in Seq(All) /\ Len(<<>>) = 0
    OBVIOUS
  <2>3. \A x, y \in All : <<x, y>> \in Seq(All) /\ Len(<<x, y>>) = 2 /\ <<x, y>>[1] = x /\ <<x, y>>[2] = y
    OBVIOUS
  <2> QED BY <2>1, <2>2, <2>3
<1> HIDE DEF s, t, All
<1>6. /\ s \o t \in Seq(All) /\ Len(s \o t) = n + Len(t)
      /\ \A k \in 1 .. n : (s \o t)[k] = s[k]
      /\ \A k \in 1 .. Len(t) : (s \o t)[n + k] = t[k]
  <2>1. s \in Seq(All) /\ t \in Seq(All) /\ Len(s) = n
    BY <1>4, <1>5
  <2>2. Joins(s \o t, s, t, All)
    BY <2>1, JoinedAs
  <2> QED BY <2>1, <2>2 DEF Joins
<1>7. e.body = <<>> => Len(s \o t) = n
  BY <1>1, <1>5, <1>6
<1>8. e.body # <<>> => /\ Len(s \o t) = n + 2 /\ (s \o t)[n + 1] = LineItem(Length)
                       /\ (s \o t)[n + 2] = BodyItem(e.body)
  <2> SUFFICES ASSUME e.body # <<>>
               PROVE  /\ Len(s \o t) = n + 2 /\ (s \o t)[n + 1] = LineItem(Length)
                      /\ (s \o t)[n + 2] = BodyItem(e.body)
    OBVIOUS
  <2>1. Len(t) = 2 /\ t[1] = LineItem(Length) /\ t[2] = BodyItem(e.body)
    BY <1>5
  <2>2. 1 \in 1 .. Len(t) /\ 2 \in 1 .. Len(t)
    BY <2>1
  <2>3. (s \o t)[n + 1] = t[1] /\ (s \o t)[n + 2] = t[2]
    BY <1>6, <2>2
  <2>4. Len(s \o t) = n + 2
    BY <1>6, <2>1
  <2> QED BY <2>1, <2>3, <2>4
<1> QED BY <1>3, <1>4, <1>6, <1>7, <1>8 DEF l, All

LEMMA JsonAgrees ==
  ASSUME NEW e, Sound(e), NEW printed \in Bodies
  PROVE  /\ SameValues(FromJson(Json(e), printed), Dup(e))
         /\ SameElements(FromJson(Json(e), printed), Dup(e))
         /\ FromJson(Json(e), printed).body = IF e.body = <<>> THEN <<>> ELSE printed
<1> DEFINE json == Json(e)
           N == Len(json)
           n == Len(Listed(e))
           items == ItemsOf(Listed(e))
           j == CHOOSE j : Puts(json, printed, j)
<1>1. /\ json \in Seq(Item \cup BodyItems) /\ N \in Nat
      /\ \A k \in 1 .. n : json[k] = ItemOf(Listed(e)[k])
      /\ e.body = <<>> => N = n
      /\ e.body # <<>> => /\ N = n + 2 /\ json[n + 1] = LineItem(Length)
                          /\ json[n + 2] = BodyItem(e.body)
  BY JsonFacts
<1>2. Puts(json, printed, j)
  <2> HIDE DEF json
  <2> QED BY <1>1, PutsExist
<1>3. FromJson(json, printed) = j[N]
  <2> HIDE DEF json
  <2> QED BY DEF FromJson, Puts, ItemPut, ItemAdded
<1> HIDE DEF j, json
<1>4. Listed(e) \in Seq(Headers) /\ n \in Nat /\ n \in 0 .. n /\ n <= N
  <2>1. Listed(e) \in Seq(Headers)
    BY SoundList
  <2> QED BY <1>1, <2>1
<1>5. j[0] = Created /\ \A k \in 1 .. N : j[k] = ItemPut(j[k - 1], json[k], printed)
  <2>1. j = [k \in 0 .. N |-> IF k = 0 THEN Created ELSE ItemPut(j[k - 1], json[k], printed)]
    BY <1>2 DEF Puts
  <2>2. 0 \in 0 .. N /\ \A k \in 1 .. N : k \in 0 .. N /\ k # 0
    BY <1>1
  <2> HIDE DEF N
  <2>3. j[0] = Created
    BY <2>1, <2>2
  <2>4. ASSUME NEW k \in 1 .. N PROVE j[k] = ItemPut(j[k - 1], json[k], printed)
    BY <2>1, <2>2
  <2> QED BY <2>3, <2>4
<1>6. AreItems(items, n)
  BY <1>4, AllItems
<1>7. ASSUME NEW k \in 1 .. n PROVE j[k] = ItemAdded(j[k - 1], items[k])
  <2>1. k \in 1 .. N /\ items[k] = json[k] /\ items[k] \in Item
    <3>1. items[k] = ItemOf(Listed(e)[k])
      BY DEF ItemsOf
    <3> QED BY <1>1, <1>4, <1>6, <3>1 DEF AreItems
  <2>2. j[k] = ItemPut(j[k - 1], items[k], printed)
    BY <1>5, <2>1
  <2> QED BY <2>1, <2>2, NotBody
<1>8. Fills(items, n, j)
  BY <1>5, <1>7 DEF Fills
<1>9. j[n] = Copied(Created, e)
  BY <1>4, <1>8, CopiedFills, FillsOnce
<1>10. Sound(Dup(e)) /\ Listed(Dup(e)) = Listed(j[n])
  BY <1>9, DupFacts
<1>11. Sound(j[n]) /\ j[n].body = <<>>
  BY <1>4, <1>6, <1>8, FillKeeps, CopyFacts
<1> DEFINE D == Listed(j[n])
<1>12. D \in Seq(Headers) /\ Len(D) \in Nat
  BY <1>11, SoundList
<1>13. /\ Sound(j[N]) /\ SaysOn(D, Listed(j[N])) /\ SameArrays(D, Listed(j[N]))
       /\ j[N].body = IF e.body = <<>> THEN <<>> ELSE printed
  <2>1. CASE e.body = <<>>
    <3>1. N = n
      BY <1>1, <2>1
    <3>2. SaysOn(D, D) /\ SameArrays(D, D)
      BY <1>12 DEF SaysOn, SameArrays
    <3> QED BY <1>11, <2>1, <3>1, <3>2
  <2>2. CASE e.body # <<>>
    <3> DEFINE x == j[n]
               y == j[n + 1]
               z == j[n + 2]
    <3>1. /\ N = n + 2 /\ json[n + 1] = LineItem(Length) /\ json[n + 2] = BodyItem(e.body)
      BY <1>1, <2>2
    <3>2. n + 1 \in 1 .. N /\ n + 2 \in 1 .. N /\ (n + 1) - 1 = n /\ (n + 2) - 1 = n + 1
      BY <1>4, <3>1
    <3>3. y = ItemPut(x, LineItem(Length), printed) /\ z = ItemPut(y, BodyItem(e.body), printed)
      BY <1>5, <3>1, <3>2
    <3>4. y = ItemAdded(x, LineItem(Length)) /\ LineItem(Length) \in Item
      BY <3>3, LengthLine, LineItemAdded, LineItemFacts
    <3>5. z = [y EXCEPT !.body = printed]
      BY <3>3 DEF ItemPut, BodyItem
    <3> HIDE DEF x, y, z
    <3>6. Sound(x)
      BY <1>11 DEF x
    <3>7. Sound(y)
      BY <3>4, <3>6, ItemSound
    <3>8. AddedLast(Listed(x), Listed(y), Made(LineItem(Length))) /\ Made(LineItem(Length)).name = CL
      BY <3>4, <3>6, LengthAppends
    <3>10. Sound(z) /\ Listed(z) = Listed(y) /\ z.body = printed
      BY <3>5, <3>7, BodyFacts
    <3>11. Listed(x) = D
      BY DEF x
    <3> HIDE DEF D
    <3>12. /\ Len(Listed(z)) = Len(D) + 1 /\ Listed(z)[Len(D) + 1].name = CL
           /\ \A k \in 1 .. Len(D) : Listed(z)[k] = D[k]
      BY <3>8, <3>10, <3>11 DEF AddedLast
    <3>13. \A k \in 1 .. Len(D) + 1 : k > Len(D) => k = Len(D) + 1
      BY <1>12
    <3>14. Len(D) <= Len(D) + 1
      BY <1>12
    <3>15. SaysOn(D, Listed(z))
      BY <3>12, <3>13, <3>14 DEF SaysOn
    <3>16. SameArrays(D, Listed(z))
      BY <3>12 DEF SameArrays
    <3> QED BY <2>2, <3>1, <3>10, <3>15, <3>16 DEF z
  <2> QED BY <2>1, <2>2
<1>14. SameValues(Dup(e), j[N]) /\ SameElements(Dup(e), j[N])
  BY <1>10, <1>13, ReadersAgree
<1>15. SameValues(j[N], Dup(e)) /\ SameElements(j[N], Dup(e))
  BY <1>14 DEF SameValues, SameElements
<1> QED BY <1>3, <1>13, <1>15 DEF json

\* A copy loses what it loses at once (CopiesSettle): for any names and parts,
\* after whatever calls, the duplicate of a duplicate is the duplicate, a
\* second hop over the socket changes no value, and the JSON copy says what
\* the duplicate says, of the body too unless there is a % in it
\* (esl_event_dup, esl_event_serialize, esl_recv_event,
\* esl_event_serialize_json and esl_event_create_json of esl_event.c and esl.c).
THEOREM CopiesAgree == HeadersSpec => []CopiesSettle
<1>1. HeadersInit => Sound(event)
  BY CreatedFacts DEF HeadersInit
<1>2. Sound(event) /\ [HeadersNext]_event => Sound(event)'
  <2>1. ASSUME Sound(event), HeadersNext PROVE Sound(event)'
    BY <2>1, StepFacts
  <2>2. ASSUME Sound(event), UNCHANGED event PROVE Sound(event)'
    BY <2>2
  <2> QED BY <2>1, <2>2
<1>3. Sound(event) => CopiesSettle
  <2> SUFFICES ASSUME Sound(event) PROVE CopiesSettle
    OBVIOUS
  <2>1. /\ Listed(Dup(Dup(event))) = Listed(Dup(event))
        /\ SameValues(Sent(Sent(event)), Sent(event)) /\ Sent(event).body = event.body
    BY DupOfDup, SentTwice
  <2>2. event.body \in Bodies
    BY EventFacts DEF Sound
  <2>3. ASSUME NEW json \in JsonCopies(event)
        PROVE  /\ SameValues(json, Dup(event)) /\ SameElements(json, Dup(event))
               /\ event.body # Percent => json.body = event.body
    <3>1. PICK printed \in Printed(event.body) : json = FromJson(Json(event), printed)
      BY DEF JsonCopies
    <3>2. printed \in Bodies /\ (event.body # Percent => printed = event.body)
      BY <2>2, <3>1 DEF Printed
    <3>3. /\ SameValues(json, Dup(event)) /\ SameElements(json, Dup(event))
          /\ json.body = IF event.body = <<>> THEN <<>> ELSE printed
      BY <3>1, <3>2, JsonAgrees
    <3> QED BY <3>2, <3>3
  <2> QED BY <2>1, <2>3, Zenon DEF CopiesSettle
<1> QED BY <1>1, <1>2, <1>3, PTL DEF HeadersSpec
=============================================================================
