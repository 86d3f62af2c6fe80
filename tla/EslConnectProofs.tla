-------------------------- MODULE EslConnectProofs --------------------------
(* An attempt to connect that succeeds was judged by its own connection, and *)
(* the client and the switch wait for each other only on a header that an    *)
(* earlier connection left, for any number of descriptors and of units under *)
(* way.                                                                      *)
(*                                                                           *)
(* The invariant describes what the client has and is about to read as one   *)
(* line: what is left of earlier connections stands in front; then comes what *)
(* the switch said on this one, from its beginning as long as something old  *)
(* stands before it.  A greeting that an earlier connection left, complete,  *)
(* is all that it left.                                                      *)
EXTENDS EslConnect, WellFoundedInduction, TLAPS

Kinds == {"greeting", "rude", "accepted", "refused", "reply", "event", "notice"}
Units == [kind : Kinds, part : {1, 2, 3}, own : BOOLEAN]

Typed == /\ packet_buf \in Seq(Units) /\ rx \in Seq(Units)
         /\ revent \in [packet : Seq(Units), kind : Kinds \cup {"garbled", "none"},
                        length : 0 .. BodyUnits]
         /\ pc \in {"try", "sleep", "greeting", "verdict", "subscribe", "events",
                    "close", "done"}
         /\ ~Receiving => revent = NoEvent

AllOwn(w) == \A i \in DOMAIN w : w[i].own
AllOld(w) == \A i \in DOMAIN w : ~w[i].own
Begins(u, kind) == u.kind = kind /\ u.part = 1

(* The line: what is old is in front.                                        *)
OldFirst(w) == \A i, j \in DOMAIN w : i < j /\ w[i].own => w[j].own
(* The end of a header comes right behind its beginning.                     *)
Paired(w, at) == \A i \in DOMAIN w :
    w[i].own /\ w[i].part = 1 =>
      IF i + 1 \in DOMAIN w THEN w[i + 1].kind = w[i].kind /\ w[i + 1].part = 2
      ELSE at = "closed"
(* Behind something old the switch is heard from its beginning,              *)
FromBeginning(w) == \A i, j \in DOMAIN w :
    j = i + 1 /\ ~w[i].own /\ w[j].own => w[j].part = 1
(* which is the only place of its greeting.                                  *)
GreetingFirst(w) == \A i, j \in DOMAIN w :
    j < i /\ w[i].own /\ Begins(w[i], "greeting") => ~w[j].own
(* An old greeting that something old completes is complete, and alone.      *)
OldGreeting(w) == \A i, j \in DOMAIN w :
    i < j /\ Begins(w[i], "greeting") /\ w[j].part = 2 /\ ~w[j].own =>
      /\ i = 1 /\ j = 2 /\ w[2].kind = "greeting"
      /\ \A k \in DOMAIN w : k > 2 => w[k].own
Line(w, at) == /\ OldFirst(w) /\ Paired(w, at) /\ FromBeginning(w)
               /\ GreetingFirst(w) /\ OldGreeting(w)

(* What is complete is taken before more is read, and of a body no more is   *)
(* read than what it lacks.                                                  *)
ReadsLate(b) == \A i, k \in DOMAIN b : ~b[i].own /\ b[k].own => b[i].part # 2
ReadsForBody(b, n) == \A k \in DOMAIN b : b[k].own =>
    /\ Begins(b[k], "greeting") => k <= n
    /\ \A i \in DOMAIN b : ~b[i].own => i <= n
Reads(b, r) == IF r = NoEvent THEN ReadsLate(b) ELSE ReadsForBody(b, r.length)

(* Two units of the line are the header of this kind.                        *)
HeaderAt(w, i, kind) == /\ i \in DOMAIN w /\ w[i] = Unit(kind, 1)
                        /\ i + 1 \in DOMAIN w /\ w[i + 1] = Unit(kind, 2)
(* The last thing in the line, and the only thing that is not old.           *)
EndsGreeting(w) == /\ Len(w) >= 2 /\ HeaderAt(w, Len(w) - 1, "greeting")
                   /\ \A i \in DOMAIN w : i < Len(w) - 1 => ~w[i].own
NotBegun(w, kind) == \A i \in DOMAIN w : w[i].own => ~Begins(w[i], kind)

HasOld(p) == \E i \in DOMAIN p : ~p[i].own

(* While the greeting is awaited, and the switch is at `at'.                 *)
Greeted(w, r, at) ==
  /\ at \in {"greet", "wait", "bye", "closed"}
  /\ NotBegun(w, "accepted")
  /\ r # NoEvent /\ r.kind = "greeting" => AllOwn(w)
  /\ at = "greet" => /\ AllOld(w)
                     /\ r # NoEvent => /\ HasOld(r.packet)
                                       /\ r.kind = "greeting" => r.length = 0
  /\ at = "wait" /\ r = NoEvent => EndsGreeting(w)
  /\ at = "wait" /\ r # NoEvent =>
       \/ /\ EndsGreeting(w) /\ HasOld(r.packet)
          /\ r.kind = "greeting" => r.length = 0
       \/ /\ w = <<>> /\ Own(r.packet, "greeting")
          /\ HasOld(r.packet) \/ r.length = 0

Said(kind) == [kind |-> kind, own |-> TRUE]

(* While the verdict is awaited: the greeting was that of this connection, or *)
(* an old one, and then its own is still to come and no verdict.             *)
Heard(w, at, h) ==
  \/ /\ h = <<Said("greeting")>> /\ at # "greet"
     /\ at = "judge" => w = <<>>
     /\ at = "wait" => Len(w) = 2 /\ HeaderAt(w, 1, "accepted")
  \/ at = "greet" /\ w = <<>>
  \/ at # "greet" /\ HeaderAt(w, 1, "greeting")
  \/ at \in {"bye", "closed"} /\ NotBegun(w, "accepted")
Awaited(w, r, at, h) ==
  /\ at \in {"greet", "wait", "judge", "bye", "closed"}
  /\ AllOwn(w)
  /\ r = NoEvent => Heard(w, at, h)
  /\ r # NoEvent => /\ at # "greet"
                    /\ at \in {"wait", "judge"} => r.length = 0
                    /\ r.kind = "accepted" => /\ h = <<Said("greeting")>>
                                              /\ Own(r.packet, "accepted")

Attempt == InConnect => /\ Line(packet_buf \o rx, peer)
                        /\ AllOwn(rx) /\ Reads(packet_buf, revent)
AtGreeting == pc = "greeting" => heard = <<>> /\ Greeted(packet_buf \o rx, revent, peer)
AtVerdict == pc = "verdict" => Awaited(packet_buf \o rx, revent, peer, heard)
AtSession == pc \in {"subscribe", "events"} => heard = <<Said("greeting"), Said("accepted")>>

(* What a failed attempt leaves.                                             *)
Leftover(q) == \A i, j \in DOMAIN q :
    i < j /\ Begins(q[i], "greeting") /\ q[j].part = 2 =>
      i = 1 /\ j = 2 /\ Len(q) = 2 /\ q[2].kind = "greeting"
Between == pc \in {"try", "sleep"} => Leftover(packet_buf)

IInv == Typed /\ Attempt /\ AtGreeting /\ AtVerdict /\ AtSession /\ Between

-----------------------------------------------------------------------------
(* Sequences.                                                                *)

Glue(w, p, q) == /\ Len(w) = Len(p) + Len(q)
                 /\ \A i \in 1 .. Len(p) : w[i] = p[i]
                 /\ \A i \in 1 .. Len(q) : w[Len(p) + i] = q[i]
LEMMA Joined ==
  ASSUME NEW S, NEW p \in Seq(S), NEW q \in Seq(S)
  PROVE  p \o q \in Seq(S) /\ Glue(p \o q, p, q)
BY DEF Glue

LEMMA SameSeq ==
  ASSUME NEW S, NEW p \in Seq(S), NEW q \in Seq(S), Len(p) = Len(q),
         \A i \in 1 .. Len(p) : p[i] = q[i]
  PROVE  p = q
OBVIOUS

LEMMA Appended ==
  ASSUME NEW S, NEW a \in S, NEW b \in S
  PROVE  Append(<<a>>, b) = <<a, b>>
<1>1. <<a>> \in Seq(S) /\ Len(<<a>>) = 1 /\ <<a>>[1] = a
  OBVIOUS
<1>2. PICK s \in Seq(S) : s = <<a>>
  BY <1>1
<1>3. Append(s, b) \in Seq(S) /\ Len(Append(s, b)) = 2
      /\ Append(s, b)[1] = a /\ Append(s, b)[2] = b
  BY <1>1, <1>2
<1>4. <<a, b>> \in Seq(S) /\ Len(<<a, b>>) = 2 /\ <<a, b>>[1] = a /\ <<a, b>>[2] = b
  OBVIOUS
<1>5. PICK u \in Seq(S) : u = <<a, b>>
  BY <1>4
<1>6. \A i \in 1 .. 2 : Append(s, b)[i] = u[i]
  BY <1>3, <1>4, <1>5
<1>7. Append(s, b) = u
  BY <1>3, <1>4, <1>5, <1>6, SameSeq
<1> QED BY <1>2, <1>5, <1>7

LEMMA SecondSaid ==
  Append(<<Said("greeting")>>, Said("accepted")) = <<Said("greeting"), Said("accepted")>>
<1>1. PICK S : Said("greeting") \in S /\ Said("accepted") \in S
  <2>1. /\ Said("greeting") \in {Said("greeting"), Said("accepted")}
        /\ Said("accepted") \in {Said("greeting"), Said("accepted")}
    OBVIOUS
  <2> QED BY <2>1
<1> QED BY <1>1, Appended

LEMMA Suffix ==
  ASSUME NEW S, NEW p \in Seq(S), NEW e \in 0 .. Len(p)
  PROVE  /\ SubSeq(p, e + 1, Len(p)) \in Seq(S)
         /\ Len(SubSeq(p, e + 1, Len(p))) = Len(p) - e
         /\ \A i \in 1 .. Len(p) - e : SubSeq(p, e + 1, Len(p))[i] = p[e + i]
OBVIOUS

LEMMA Prefix ==
  ASSUME NEW S, NEW p \in Seq(S), NEW e \in 0 .. Len(p)
  PROVE  /\ SubSeq(p, 1, e) \in Seq(S) /\ Len(SubSeq(p, 1, e)) = e
         /\ \A i \in 1 .. e : SubSeq(p, 1, e)[i] = p[i]
OBVIOUS

(* Units that are read move from the connection to the buffer: q is a and b. *)
LEMMA Moved ==
  ASSUME NEW S, NEW p \in Seq(S), NEW q \in Seq(S), NEW a \in Seq(S), NEW b \in Seq(S),
         Glue(q, a, b)
  PROVE  (p \o a) \o b = p \o q
<1>0. /\ Len(q) = Len(a) + Len(b)
      /\ \A i \in 1 .. Len(a) : a[i] = q[i]
      /\ \A i \in 1 .. Len(b) : b[i] = q[Len(a) + i]
  BY DEF Glue
<1>1. PICK c \in Seq(S) : c = p \o a
  BY Joined
<1>2. Glue(c, p, a)
  BY <1>1, Joined
<1>3. c \o b \in Seq(S) /\ Glue(c \o b, c, b)
  BY Joined
<1>4. p \o q \in Seq(S) /\ Glue(p \o q, p, q)
  BY Joined
<1>5. ASSUME NEW i \in 1 .. Len(c \o b) PROVE (c \o b)[i] = (p \o q)[i]
  <2>0. /\ Len(p) \in Nat /\ Len(a) \in Nat /\ Len(b) \in Nat /\ Len(q) \in Nat
        /\ i \in Nat
    BY <1>3 DEF Glue
  <2>1. CASE i <= Len(p)
    <3>1. i \in 1 .. Len(p) /\ i \in 1 .. Len(c)
      BY <2>0, <2>1, <1>2, <1>3 DEF Glue
    <3> QED BY <3>1, <1>2, <1>3, <1>4 DEF Glue
  <2>2. CASE Len(p) < i /\ i <= Len(c)
    <3>1. PICK j \in Nat : i = Len(p) + j
      <4>1. i - Len(p) \in Nat /\ i = Len(p) + (i - Len(p))
        BY <2>0, <2>2
      <4> QED BY <4>1
    <3>2. j \in 1 .. Len(a) /\ j \in 1 .. Len(q) /\ i \in 1 .. Len(c)
      BY <2>0, <2>2, <3>1, <1>0, <1>2, <1>3 DEF Glue
    <3> QED BY <3>1, <3>2, <1>0, <1>2, <1>3, <1>4 DEF Glue
  <2>3. CASE Len(c) < i
    <3>1. PICK j \in Nat : i = Len(c) + j
      <4>1. i - Len(c) \in Nat /\ i = Len(c) + (i - Len(c))
        BY <2>0, <2>3, <1>2 DEF Glue
      <4> QED BY <4>1
    <3>2. j \in 1 .. Len(b) /\ Len(a) + j \in 1 .. Len(q) /\ i = Len(p) + (Len(a) + j)
      BY <2>0, <2>3, <3>1, <1>0, <1>2, <1>3 DEF Glue
    <3>3. (c \o b)[i] = b[j]
      BY <3>1, <3>2, <1>3 DEF Glue
    <3>4. b[j] = q[Len(a) + j]
      BY <3>2, <1>0
    <3>5. (p \o q)[i] = q[Len(a) + j]
      BY <3>2, <1>4 DEF Glue
    <3> QED BY <3>3, <3>4, <3>5
  <2> QED BY <2>0, <2>1, <2>2, <2>3, <1>2 DEF Glue
<1>6. Len(c \o b) = Len(p \o q)
  BY <1>0, <1>2, <1>3, <1>4 DEF Glue
<1> QED BY <1>1, <1>3, <1>4, <1>5, <1>6, SameSeq

(* A packet that is taken is cut off at the front: r is p without e units.   *)
After(r, p, e) == /\ Len(r) = Len(p) - e
                  /\ \A i \in 1 .. Len(r) : r[i] = p[e + i]
LEMMA Cut ==
  ASSUME NEW S, NEW p \in Seq(S), NEW q \in Seq(S), NEW r \in Seq(S), NEW e \in 1 .. Len(p),
         After(r, p, e)
  PROVE  r \o q \in Seq(S) /\ After(r \o q, p \o q, e)
<1>0. /\ Len(p) \in Nat /\ Len(r) \in Nat /\ Len(q) \in Nat
      /\ Len(r) = Len(p) - e /\ \A i \in 1 .. Len(r) : r[i] = p[e + i]
  BY DEF After
<1>2. r \o q \in Seq(S) /\ Glue(r \o q, r, q)
  BY Joined
<1>3. Glue(p \o q, p, q)
  BY Joined
<1>4. ASSUME NEW i \in 1 .. Len(r \o q) PROVE (r \o q)[i] = (p \o q)[e + i]
  <2>1. CASE i <= Len(r)
    <3>1. i \in 1 .. Len(r) /\ e + i \in 1 .. Len(p)
      BY <1>0, <2>1
    <3> QED BY <3>1, <1>0, <1>2, <1>3 DEF Glue
  <2>2. CASE i > Len(r)
    <3>1. PICK j \in Nat : i = Len(r) + j
      <4>1. i - Len(r) \in Nat /\ i = Len(r) + (i - Len(r))
        BY <1>0, <1>2, <2>2 DEF Glue
      <4> QED BY <4>1
    <3>2. j \in 1 .. Len(q) /\ e + i = Len(p) + j
      BY <1>0, <3>1, <2>2, <1>2 DEF Glue
    <3> QED BY <3>1, <3>2, <1>2, <1>3 DEF Glue
  <2> QED BY <2>1, <2>2, <1>0
<1>5. Len(r \o q) = Len(p \o q) - e
  BY <1>0, <1>2, <1>3 DEF Glue
<1> QED BY <1>2, <1>4, <1>5 DEF After

LEMMA MinEnds ==
  ASSUME packet_buf \in Seq(Units), Complete
  PROVE  /\ Min(Ends) \in 1 .. Len(packet_buf) /\ packet_buf[Min(Ends)].part = 2
         /\ \A i \in 1 .. Len(packet_buf) : packet_buf[i].part = 2 => Min(Ends) <= i
<1>1. Ends \subseteq Nat /\ Ends # {}
  BY DEF Ends, Complete
<1>2. PICK p \in Ends : \A q \in Ends : p <= q
  <2>1. PICK p \in Ends : \A q \in Ends : <<q, p>> \notin OpToRel(<, Nat)
    BY <1>1, WFMin, NatLessThanWellFounded
  <2>2. \A x, y \in Nat : x < y => <<x, y>> \in OpToRel(<, Nat)
    BY DEF OpToRel
  <2>3. ASSUME NEW q \in Ends PROVE p <= q
    <3>1. p \in Nat /\ q \in Nat
      BY <1>1
    <3>2. ~(q < p)
      BY <2>1, <2>2, <3>1
    <3> QED BY <3>1, <3>2
  <2> QED BY <2>3
<1>3. Min(Ends) \in Ends /\ \A q \in Ends : Min(Ends) <= q
  BY <1>2 DEF Min
<1> QED BY <1>3 DEF Ends

-----------------------------------------------------------------------------
(* The line.                                                                 *)

LEMMA UnitFields ==
  ASSUME NEW kind \in Kinds, NEW part \in {1, 2, 3}
  PROVE  /\ Unit(kind, part) \in Units /\ Unit(kind, part).kind = kind
         /\ Unit(kind, part).part = part /\ Unit(kind, part).own
BY DEF Unit, Units

(* What a message is made of.                                                *)
LEMMA MessageUnits ==
  ASSUME NEW kind \in Kinds
  PROVE  /\ Message(kind) \in Seq(Units) /\ Len(Message(kind)) = BodyLength(kind) + 2
         /\ Message(kind)[1] = Unit(kind, 1) /\ Message(kind)[2] = Unit(kind, 2)
         /\ \A i \in DOMAIN Message(kind) : i > 2 => Message(kind)[i] = Unit(kind, 3)
<1> DEFINE h == <<Unit(kind, 1), Unit(kind, 2)>>
           n == BodyLength(kind)
           b == [i \in 1 .. n |-> Unit(kind, 3)]
<1>1. n \in Nat
  BY ConnectAssumption DEF BodyLength
<1>2. h \in Seq(Units) /\ Len(h) = 2 /\ h[1] = Unit(kind, 1) /\ h[2] = Unit(kind, 2)
  BY UnitFields
<1> HIDE DEF n
<1>3. Unit(kind, 3) \in Units
  BY UnitFields
<1>4. b \in Seq(Units) /\ Len(b) = n /\ \A i \in 1 .. n : b[i] = Unit(kind, 3)
  BY <1>1, <1>3
<1>5. Message(kind) = h \o b
  BY DEF Message, Header, n
<1> HIDE DEF h, b
<1>6. h \o b \in Seq(Units) /\ Glue(h \o b, h, b)
  BY <1>2, <1>4, Joined
<1>7. Len(h \o b) = n + 2 /\ DOMAIN (h \o b) = 1 .. n + 2
  BY <1>1, <1>2, <1>4, <1>6 DEF Glue
<1>8. 1 \in 1 .. Len(h) /\ 2 \in 1 .. Len(h)
  BY <1>2
<1>9. (h \o b)[1] = Unit(kind, 1) /\ (h \o b)[2] = Unit(kind, 2)
  BY <1>2, <1>6, <1>8 DEF Glue
<1>10. ASSUME NEW i \in DOMAIN (h \o b), i > 2 PROVE (h \o b)[i] = Unit(kind, 3)
  <2>1. PICK j \in 1 .. n : i = 2 + j
    <3>1. i - 2 \in 1 .. n /\ i = 2 + (i - 2)
      BY <1>1, <1>7, <1>10
    <3> QED BY <3>1
  <2>2. (h \o b)[2 + j] = b[j]
    BY <1>2, <1>4, <1>6, <2>1 DEF Glue
  <2> QED BY <1>4, <2>1, <2>2
<1> QED BY <1>5, <1>6, <1>7, <1>9, <1>10 DEF n

LEMMA MessageOwn ==
  ASSUME NEW kind \in Kinds
  PROVE  /\ AllOwn(Message(kind))
         /\ \A i \in DOMAIN Message(kind) :
              /\ Message(kind)[i].kind = kind
              /\ Message(kind)[i].part = 1 <=> i = 1
              /\ Message(kind)[i].part = 2 <=> i = 2
<1>1. \A i \in DOMAIN Message(kind) : i \in Nat /\ i >= 1
  BY MessageUnits
<1>2. ASSUME NEW i \in DOMAIN Message(kind)
      PROVE  /\ Message(kind)[i].own /\ Message(kind)[i].kind = kind
             /\ Message(kind)[i].part = 1 <=> i = 1
             /\ Message(kind)[i].part = 2 <=> i = 2
  <2>1. i = 1 \/ i = 2 \/ i > 2
    BY <1>1
  <2> QED BY <2>1, MessageUnits, UnitFields
<1> QED BY <1>2 DEF AllOwn

LEMMA ShortMessage ==
  ASSUME NEW kind \in Kinds, ~HasBody(kind)
  PROVE  Len(Message(kind)) = 2
BY MessageUnits DEF BodyLength

(* A message comes behind the line.                                          *)
LEMMA LineAppend ==
  ASSUME NEW w \in Seq(Units), NEW at, at # "closed", Line(w, at), NEW next,
         NEW kind \in Kinds, kind = "greeting" => AllOld(w)
  PROVE  Line(w \o Message(kind), next)
<1> DEFINE m == Message(kind)
           v == w \o m
           n == Len(w)
<1>1. m \in Seq(Units) /\ Len(m) >= 2
  <2>1. BodyLength(kind) \in Nat
    BY ConnectAssumption DEF BodyLength
  <2> QED BY <2>1, MessageUnits
<1>2. /\ AllOwn(m)
      /\ \A i \in DOMAIN m : /\ m[i].kind = kind
                             /\ m[i].part = 1 <=> i = 1
                             /\ m[i].part = 2 <=> i = 2
  BY MessageOwn
<1> HIDE DEF m
<1>3. v \in Seq(Units) /\ Glue(v, w, m)
  BY <1>1, Joined
<1>4. n \in Nat /\ Len(m) \in Nat /\ Len(v) = n + Len(m) /\ DOMAIN v = 1 .. n + Len(m)
      /\ DOMAIN w = 1 .. n /\ DOMAIN m = 1 .. Len(m)
  BY <1>1, <1>3 DEF Glue
<1>5. \A i \in 1 .. n : v[i] = w[i]
  BY <1>3 DEF Glue
<1>6. ASSUME NEW i \in DOMAIN v, i \notin 1 .. n
      PROVE  /\ i > n /\ v[i].own /\ v[i].kind = kind
             /\ v[i].part = 1 <=> i = n + 1
             /\ v[i].part = 2 <=> i = n + 2
  <2>1. PICK j \in DOMAIN m : i = n + j
    <3>1. i - n \in 1 .. Len(m) /\ i = n + (i - n)
      BY <1>4, <1>6
    <3> QED BY <1>4, <3>1
  <2>2. v[n + j] = m[j]
    BY <1>3, <1>4, <2>1 DEF Glue
  <2>3. v[i].own /\ v[i].kind = kind /\ (v[i].part = 1 <=> j = 1) /\ (v[i].part = 2 <=> j = 2)
    BY <1>2, <2>1, <2>2 DEF AllOwn
  <2> QED BY <1>4, <2>1, <2>3
<1> HIDE DEF v, n
<1>7. OldFirst(v)
  BY <1>4, <1>5, <1>6 DEF Line, OldFirst
<1>8. Paired(v, next)
  <2> SUFFICES ASSUME NEW i \in DOMAIN v, v[i].own, v[i].part = 1
               PROVE  i + 1 \in DOMAIN v /\ v[i + 1].kind = v[i].kind /\ v[i + 1].part = 2
    BY DEF Paired
  <2>1. CASE i \in 1 .. n
    <3>1. i + 1 \in 1 .. n /\ w[i + 1].kind = w[i].kind /\ w[i + 1].part = 2
      BY <1>4, <1>5, <2>1 DEF Line, Paired
    <3> QED BY <1>4, <1>5, <2>1, <3>1
  <2>2. CASE i \notin 1 .. n
    <3>1. i = n + 1 /\ i + 1 \in DOMAIN v /\ i + 1 \notin 1 .. n /\ i + 1 = n + 2
      BY <1>1, <1>4, <1>6, <2>2
    <3> QED BY <1>6, <2>2, <3>1
  <2> QED BY <2>1, <2>2
<1>9. FromBeginning(v)
  <2> SUFFICES ASSUME NEW i \in DOMAIN v, NEW j \in DOMAIN v, j = i + 1, ~v[i].own, v[j].own
               PROVE  v[j].part = 1
    BY DEF FromBeginning
  <2>1. i \in 1 .. n
    BY <1>6
  <2>2. CASE j \in 1 .. n
    BY <1>4, <1>5, <2>1, <2>2 DEF Line, FromBeginning
  <2>3. CASE j \notin 1 .. n
    <3>1. j = n + 1
      BY <1>4, <1>6, <2>1, <2>3
    <3> QED BY <1>6, <2>3, <3>1
  <2> QED BY <2>2, <2>3
<1>10. GreetingFirst(v)
  <2> SUFFICES ASSUME NEW i \in DOMAIN v, NEW j \in DOMAIN v, j < i,
                      v[i].own, Begins(v[i], "greeting")
               PROVE  ~v[j].own
    BY DEF GreetingFirst
  <2>1. CASE i \in 1 .. n
    <3>1. j \in 1 .. n
      BY <1>4, <2>1
    <3> QED BY <1>4, <1>5, <2>1, <3>1 DEF Line, GreetingFirst
  <2>2. CASE i \notin 1 .. n
    <3>1. kind = "greeting" /\ i = n + 1
      BY <1>6, <2>2 DEF Begins
    <3>2. j \in 1 .. n
      BY <1>4, <3>1
    <3> QED BY <1>4, <1>5, <3>1, <3>2 DEF AllOld
  <2> QED BY <2>1, <2>2
<1>11. OldGreeting(v)
  <2> SUFFICES ASSUME NEW i \in DOMAIN v, NEW j \in DOMAIN v, i < j,
                      Begins(v[i], "greeting"), v[j].part = 2, ~v[j].own
               PROVE  /\ i = 1 /\ j = 2 /\ v[2].kind = "greeting"
                      /\ \A k \in DOMAIN v : k > 2 => v[k].own
    BY DEF OldGreeting
  <2>1. j \in 1 .. n
    BY <1>6
  <2>2. i \in 1 .. n
    BY <1>4, <2>1
  <2>3. /\ i = 1 /\ j = 2 /\ w[2].kind = "greeting"
        /\ \A k \in 1 .. n : k > 2 => w[k].own
    BY <1>4, <1>5, <2>1, <2>2 DEF Line, OldGreeting
  <2> QED BY <1>5, <1>6, <2>1, <2>3
<1> QED BY <1>7, <1>8, <1>9, <1>10, <1>11 DEF Line, v, m

(* The line breaks off.                                                      *)
Front(v, w) == Len(v) <= Len(w) /\ \A i \in 1 .. Len(v) : v[i] = w[i]
LEMMA LineBreaks ==
  ASSUME NEW w \in Seq(Units), NEW at, Line(w, at), NEW v \in Seq(Units), Front(v, w)
  PROVE  Line(v, "closed")
<1>1. /\ Len(v) \in Nat /\ Len(w) \in Nat /\ Len(v) <= Len(w)
      /\ DOMAIN v = 1 .. Len(v) /\ DOMAIN w = 1 .. Len(w)
  BY DEF Front
<1>2. \A i \in DOMAIN v : i \in DOMAIN w /\ v[i] = w[i]
  BY <1>1 DEF Front
<1>3. OldFirst(v)
  BY <1>2 DEF Line, OldFirst
<1>4. Paired(v, "closed")
  <2> SUFFICES ASSUME NEW i \in DOMAIN v, v[i].own, v[i].part = 1, i + 1 \in DOMAIN v
               PROVE  v[i + 1].kind = v[i].kind /\ v[i + 1].part = 2
    BY DEF Paired
  <2> QED BY <1>2 DEF Line, Paired
<1>5. FromBeginning(v)
  BY <1>2 DEF Line, FromBeginning
<1>6. GreetingFirst(v)
  BY <1>2 DEF Line, GreetingFirst
<1>7. OldGreeting(v)
  <2> SUFFICES ASSUME NEW i \in DOMAIN v, NEW j \in DOMAIN v, i < j,
                      Begins(v[i], "greeting"), v[j].part = 2, ~v[j].own
               PROVE  /\ i = 1 /\ j = 2 /\ v[2].kind = "greeting"
                      /\ \A k \in DOMAIN v : k > 2 => v[k].own
    BY DEF OldGreeting
  <2>1. /\ i = 1 /\ j = 2 /\ w[2].kind = "greeting"
        /\ \A k \in DOMAIN w : k > 2 => w[k].own
    BY <1>2 DEF Line, OldGreeting
  <2>2. v[2] = w[2]
    BY <1>2, <2>1
  <2> QED BY <1>2, <2>1, <2>2
<1> QED BY <1>3, <1>4, <1>5, <1>6, <1>7 DEF Line

(* A packet or a body is taken off its front.                                *)
LEMMA LineCut ==
  ASSUME NEW w \in Seq(Units), NEW at, Line(w, at), NEW e \in 1 .. Len(w),
         NEW v \in Seq(Units), After(v, w, e),
         NEW next, at = "closed" => next = "closed"
  PROVE  Line(v, next)
<1>1. /\ Len(v) \in Nat /\ Len(w) \in Nat /\ Len(v) = Len(w) - e /\ e \in Nat /\ e >= 1
      /\ DOMAIN v = 1 .. Len(v) /\ DOMAIN w = 1 .. Len(w)
  BY DEF After
<1>2. \A i \in DOMAIN v : e + i \in DOMAIN w /\ v[i] = w[e + i] /\ e + i > 1 /\ i \in Nat
  BY <1>1 DEF After
<1>3. OldFirst(v)
  <2> SUFFICES ASSUME NEW i \in DOMAIN v, NEW j \in DOMAIN v, i < j, v[i].own
               PROVE  v[j].own
    BY DEF OldFirst
  <2>1. e + i < e + j
    BY <1>1, <1>2
  <2> QED BY <1>2, <2>1 DEF Line, OldFirst
<1>4. Paired(v, next)
  <2> SUFFICES ASSUME NEW i \in DOMAIN v, v[i].own, v[i].part = 1
               PROVE  IF i + 1 \in DOMAIN v THEN v[i + 1].kind = v[i].kind /\ v[i + 1].part = 2
                      ELSE next = "closed"
    BY DEF Paired
  <2>0. i \in Nat /\ i >= 1 /\ (e + i) + 1 = e + (i + 1)
    BY <1>1, <1>2
  <2>1. i + 1 \in DOMAIN v <=> (e + i) + 1 \in DOMAIN w
    <3>1. i + 1 \in DOMAIN v <=> i + 1 <= Len(v)
      BY <1>1, <2>0
    <3>2. (e + i) + 1 \in DOMAIN w <=> (e + i) + 1 <= Len(w)
      BY <1>1, <2>0
    <3> QED BY <1>1, <2>0, <3>1, <3>2
  <2>2. IF (e + i) + 1 \in DOMAIN w
        THEN w[(e + i) + 1].kind = w[e + i].kind /\ w[(e + i) + 1].part = 2
        ELSE at = "closed"
    BY <1>2 DEF Line, Paired
  <2> QED BY <1>2, <2>0, <2>1, <2>2
<1>5. FromBeginning(v)
  <2> SUFFICES ASSUME NEW i \in DOMAIN v, NEW j \in DOMAIN v, j = i + 1, ~v[i].own, v[j].own
               PROVE  v[j].part = 1
    BY DEF FromBeginning
  <2>1. e + j = (e + i) + 1
    BY <1>1, <1>2
  <2> QED BY <1>2, <2>1 DEF Line, FromBeginning
<1>6. GreetingFirst(v)
  <2> SUFFICES ASSUME NEW i \in DOMAIN v, NEW j \in DOMAIN v, j < i,
                      v[i].own, Begins(v[i], "greeting")
               PROVE  ~v[j].own
    BY DEF GreetingFirst
  <2>1. e + j < e + i
    BY <1>1, <1>2
  <2> QED BY <1>2, <2>1 DEF Line, GreetingFirst
<1>7. OldGreeting(v)
  <2> SUFFICES ASSUME NEW i \in DOMAIN v, NEW j \in DOMAIN v, i < j,
                      Begins(v[i], "greeting"), v[j].part = 2, ~v[j].own
               PROVE  FALSE
    BY DEF OldGreeting
  <2>1. e + i < e + j
    BY <1>1, <1>2
  <2>2. e + i = 1
    BY <1>2, <2>1 DEF Line, OldGreeting
  <2> QED BY <1>2, <2>2
<1> QED BY <1>3, <1>4, <1>5, <1>6, <1>7 DEF Line

LEMMA LineNext ==
  ASSUME NEW w \in Seq(Units), NEW at, Line(w, at), NEW next, at = "closed" => next = "closed"
  PROVE  Line(w, next)
BY DEF Line, Paired

-----------------------------------------------------------------------------
(* What is read.                                                             *)

LEMMA RestIs ==
  ASSUME NEW p \in Seq(Units), NEW e \in 0 .. Len(p)
  PROVE  \E v \in Seq(Units) : v = SubSeq(p, e + 1, Len(p)) /\ After(v, p, e)
<1> DEFINE v == SubSeq(p, e + 1, Len(p))
<1>1. v \in Seq(Units) /\ After(v, p, e)
  BY Suffix DEF After
<1> QED BY <1>1, Zenon

(* Nothing is taken, or a front.                                             *)
LEMMA Taken ==
  ASSUME NEW b \in Seq(Units), NEW q \in Seq(Units), NEW n \in 0 .. Len(b),
         NEW at, Line(b \o q, at), NEW next, at = "closed" => next = "closed"
  PROVE  LET r == SubSeq(b, n + 1, Len(b))
         IN  /\ r \in Seq(Units) /\ After(r, b, n)
             /\ r \o q \in Seq(Units) /\ After(r \o q, b \o q, n)
             /\ Line(r \o q, next)
<1> DEFINE r == SubSeq(b, n + 1, Len(b))
<1>1. r \in Seq(Units) /\ After(r, b, n)
  BY Suffix DEF After
<1> HIDE DEF r
<1>2. b \o q \in Seq(Units) /\ Glue(b \o q, b, q)
  BY Joined
<1>3. n \in Nat /\ Len(b) \in Nat /\ Len(q) \in Nat /\ Len(b \o q) = Len(b) + Len(q)
  BY <1>2 DEF Glue
<1>4. CASE n = 0
  <2>1. Len(r) = Len(b) /\ \A i \in 1 .. Len(r) : r[i] = b[i]
    <3>1. \A i \in 1 .. Len(r) : 0 + i = i
      BY <1>1
    <3> QED BY <1>1, <1>3, <1>4, <3>1 DEF After
  <2>2. r = b
    BY <1>1, <2>1, SameSeq
  <2>3. After(b \o q, b \o q, 0)
    <3>1. \A i \in 1 .. Len(b \o q) : 0 + i = i
      BY <1>3
    <3> QED BY <1>2, <1>3, <3>1 DEF After
  <2> QED BY <1>1, <1>2, <1>4, <2>2, <2>3, LineNext DEF r
<1>5. CASE n # 0
  <2>1. n \in 1 .. Len(b) /\ n \in 1 .. Len(b \o q)
    BY <1>3, <1>5
  <2>2. r \o q \in Seq(Units) /\ After(r \o q, b \o q, n)
    BY <1>1, <2>1, Cut
  <2>3. Line(r \o q, next)
    BY <1>2, <2>1, <2>2, LineCut
  <2> QED BY <1>1, <2>2, <2>3 DEF r
<1> QED BY <1>4, <1>5

LEMMA AfterFacts ==
  ASSUME NEW w \in Seq(Units), NEW v \in Seq(Units), NEW e \in 0 .. Len(w), After(v, w, e)
  PROVE  /\ AllOwn(w) => AllOwn(v)
         /\ AllOld(w) => AllOld(v)
         /\ NotBegun(w, "accepted") => NotBegun(v, "accepted")
         /\ Len(v) = Len(w) - e
         /\ \A i \in DOMAIN v : i \in Nat /\ i >= 1 /\ e + i \in DOMAIN w /\ v[i] = w[e + i]
<1>1. /\ Len(v) \in Nat /\ Len(w) \in Nat /\ Len(v) = Len(w) - e /\ e \in Nat
      /\ DOMAIN v = 1 .. Len(v) /\ DOMAIN w = 1 .. Len(w)
  BY DEF After
<1>2. \A i \in DOMAIN v : i \in Nat /\ i >= 1 /\ e + i \in DOMAIN w /\ v[i] = w[e + i]
  BY <1>1 DEF After
<1> QED BY <1>1, <1>2 DEF AllOwn, AllOld, NotBegun

(* An attempt that fails on a message leaves at most a whole old greeting.    *)
LEMMA FailLeaves ==
  ASSUME NEW b \in Seq(Units), NEW q \in Seq(Units), NEW at, Line(b \o q, at),
         NEW n \in 0 .. Len(b), ReadsForBody(b, n),
         NEW v \in Seq(Units), After(v, b, n)
  PROVE  Leftover(v)
<1>1. b \o q \in Seq(Units) /\ Glue(b \o q, b, q)
  BY Joined
<1>2. n \in Nat /\ Len(b) \in Nat /\ Len(q) \in Nat /\ Len(b \o q) = Len(b) + Len(q)
      /\ DOMAIN b = 1 .. Len(b) /\ DOMAIN (b \o q) = 1 .. Len(b) + Len(q)
  BY <1>1 DEF Glue
<1>3. \A i \in DOMAIN b : i \in DOMAIN (b \o q) /\ (b \o q)[i] = b[i]
  BY <1>1, <1>2 DEF Glue
<1>4. Len(v) = Len(b) - n
      /\ \A i \in DOMAIN v : i \in Nat /\ i >= 1 /\ n + i \in DOMAIN b /\ v[i] = b[n + i]
  BY AfterFacts
<1> SUFFICES ASSUME NEW i \in DOMAIN v, NEW j \in DOMAIN v, i < j,
                    Begins(v[i], "greeting"), v[j].part = 2
             PROVE  i = 1 /\ j = 2 /\ Len(v) = 2 /\ v[2].kind = "greeting"
  BY DEF Leftover
<1>5. n + i \in DOMAIN b /\ n + j \in DOMAIN b /\ n + i < n + j /\ n + i > n
  BY <1>2, <1>4
<1>6. \A k \in DOMAIN b : ~b[k].own
  <2> SUFFICES ASSUME NEW k \in DOMAIN b, b[k].own PROVE FALSE
    OBVIOUS
  <2>1. CASE b[n + i].own
    <3>1. Begins(b[n + i], "greeting")
      BY <1>4
    <3>2. n + i <= n
      BY <1>5, <2>1, <3>1 DEF ReadsForBody
    <3> QED BY <1>2, <1>4, <3>2
  <2>2. CASE ~b[n + i].own
    <3>1. n + i <= n
      BY <1>5, <2>2 DEF ReadsForBody
    <3> QED BY <1>2, <1>4, <3>1
  <2> QED BY <2>1, <2>2
<1>7. n + i = 1 /\ n + j = 2 /\ b[2].kind = "greeting"
      /\ \A k \in DOMAIN (b \o q) : k > 2 => (b \o q)[k].own
  <2>1. Begins((b \o q)[n + i], "greeting") /\ (b \o q)[n + j].part = 2 /\ ~(b \o q)[n + j].own
    BY <1>3, <1>4, <1>5, <1>6
  <2>2. n + i = 1 /\ n + j = 2 /\ (b \o q)[2].kind = "greeting"
        /\ \A k \in DOMAIN (b \o q) : k > 2 => (b \o q)[k].own
    BY <1>3, <1>5, <2>1 DEF Line, OldGreeting
  <2> QED BY <1>3, <1>5, <2>2
<1>8. n = 0 /\ i = 1 /\ j = 2
  BY <1>2, <1>4, <1>7
<1>9. Len(b) = 2
  <2>1. 2 \in 1 .. Len(b)
    BY <1>2, <1>5, <1>7
  <2>2. ASSUME Len(b) > 2 PROVE FALSE
    <3>1. 3 \in DOMAIN b /\ 3 > 2
      BY <1>2, <2>2
    <3> QED BY <1>3, <1>6, <1>7, <3>1
  <2> QED BY <1>2, <2>1, <2>2
<1> QED BY <1>2, <1>4, <1>7, <1>8, <1>9

(* What was complete, or short of a body, when the connection was lost.      *)
LEMMA LostLeaves ==
  ASSUME NEW b \in Seq(Units), NEW at, Line(b, at),
         (\A i \in DOMAIN b : b[i].part # 2) \/ Len(b) < BodyUnits
  PROVE  Leftover(b)
<1>1. CASE \A i \in DOMAIN b : b[i].part # 2
  BY <1>1 DEF Leftover
<1>2. CASE Len(b) < BodyUnits
  <2>1. Len(b) \in Nat /\ Len(b) <= 2 /\ DOMAIN b = 1 .. Len(b)
    BY <1>2, ConnectAssumption
  <2> SUFFICES ASSUME NEW i \in DOMAIN b, NEW j \in DOMAIN b, i < j,
                      Begins(b[i], "greeting"), b[j].part = 2
               PROVE  i = 1 /\ j = 2 /\ Len(b) = 2 /\ b[2].kind = "greeting"
    BY DEF Leftover
  <2>2. i = 1 /\ j = 2 /\ Len(b) = 2 /\ 1 + 1 = 2
    BY <2>1
  <2>3. 1 \in DOMAIN b /\ 2 \in DOMAIN b /\ 1 + 1 \in DOMAIN b
    BY <2>2
  <2>4. b[1].kind = "greeting" /\ b[1].part = 1 /\ b[2].part = 2
    BY <2>2 DEF Begins
  <2>5. CASE ~b[2].own
    BY <2>2, <2>3, <2>4, <2>5 DEF Line, OldGreeting, Begins
  <2>6. CASE b[2].own /\ b[1].own
    <3>1. b[1 + 1].kind = b[1].kind
      BY <2>3, <2>4, <2>6 DEF Line, Paired
    <3> QED BY <2>2, <2>4, <3>1
  <2>7. CASE b[2].own /\ ~b[1].own
    <3>1. b[2].part = 1
      BY <2>2, <2>3, <2>7 DEF Line, FromBeginning
    <3> QED BY <2>4, <3>1
  <2> QED BY <2>2, <2>5, <2>6, <2>7
<1> QED BY <1>1, <1>2

(* A new connection is behind what is left.                                  *)
LEMMA StaleLine ==
  ASSUME NEW b \in Seq(Units), Leftover(b)
  PROVE  /\ Stale(b) \in Seq(Units) /\ AllOld(Stale(b)) /\ Line(Stale(b), "greet")
<1> DEFINE s == Stale(b)
<1>1. /\ s \in Seq(Units) /\ Len(s) = Len(b) /\ DOMAIN s = DOMAIN b /\ DOMAIN b = 1 .. Len(b)
      /\ \A i \in DOMAIN b : s[i].kind = b[i].kind /\ s[i].part = b[i].part /\ s[i].own = FALSE
  <2>1. s = [i \in 1 .. Len(b) |-> [b[i] EXCEPT !.own = FALSE]] /\ Len(b) \in Nat
    BY DEF Stale
  <2>2. ASSUME NEW i \in 1 .. Len(b)
        PROVE  /\ [b[i] EXCEPT !.own = FALSE] \in Units
               /\ [b[i] EXCEPT !.own = FALSE].kind = b[i].kind
               /\ [b[i] EXCEPT !.own = FALSE].part = b[i].part
               /\ [b[i] EXCEPT !.own = FALSE].own = FALSE
    <3>1. b[i] \in Units
      OBVIOUS
    <3> QED BY <3>1 DEF Units
  <2>3. \A i \in 1 .. Len(b) : s[i] = [b[i] EXCEPT !.own = FALSE]
    BY <2>1
  <2> HIDE DEF s
  <2>4. s \in Seq(Units) /\ Len(s) = Len(b)
    BY <2>1, <2>2
  <2>5. DOMAIN s = DOMAIN b /\ DOMAIN b = 1 .. Len(b)
    BY <2>4
  <2>6. ASSUME NEW i \in 1 .. Len(b)
        PROVE  s[i].kind = b[i].kind /\ s[i].part = b[i].part /\ s[i].own = FALSE
    <3>1. s[i] = [b[i] EXCEPT !.own = FALSE]
      BY <2>3
    <3> QED BY <3>1, <2>2, Zenon
  <2> QED BY <2>4, <2>5, <2>6
<1> HIDE DEF s
<1>2. AllOld(s)
  BY <1>1 DEF AllOld
<1>3. OldFirst(s) /\ Paired(s, "greet") /\ FromBeginning(s) /\ GreetingFirst(s)
  BY <1>2 DEF AllOld, OldFirst, Paired, FromBeginning, GreetingFirst
<1>4. OldGreeting(s)
  <2> SUFFICES ASSUME NEW i \in DOMAIN s, NEW j \in DOMAIN s, i < j,
                      Begins(s[i], "greeting"), s[j].part = 2
               PROVE  /\ i = 1 /\ j = 2 /\ s[2].kind = "greeting"
                      /\ \A k \in DOMAIN s : k > 2 => s[k].own
    BY DEF OldGreeting
  <2>1. Begins(b[i], "greeting") /\ b[j].part = 2
    BY <1>1 DEF Begins
  <2>2. i = 1 /\ j = 2 /\ Len(b) = 2 /\ b[2].kind = "greeting"
    BY <1>1, <2>1 DEF Leftover
  <2>3. \A k \in DOMAIN s : ~(k > 2)
    BY <1>1, <2>2
  <2> QED BY <1>1, <2>2, <2>3
<1> QED BY <1>1, <1>2, <1>3, <1>4 DEF Line, s

(* Two units are the header as this connection sent it.                      *)
LEMMA OwnPair ==
  ASSUME NEW p \in Seq(Units), NEW kind, Len(p) > 1,
         p[Len(p) - 1] = Unit(kind, 1), p[Len(p)] = Unit(kind, 2)
  PROVE  Own(p, kind)
<1> DEFINE n == Len(p)
           s == SubSeq(p, n - 1, n)
           h == <<p[n - 1], p[n]>>
<1>1. n \in Nat /\ n - 1 \in 1 .. n /\ n \in 1 .. n
  OBVIOUS
<1>2. s \in Seq(Units) /\ Len(s) = 2 /\ s[1] = p[n - 1] /\ s[2] = p[n]
  BY <1>1
<1>3. h \in Seq(Units) /\ Len(h) = 2 /\ h[1] = p[n - 1] /\ h[2] = p[n]
  BY <1>1
<1> HIDE DEF s
<1>4. PICK g \in Seq(Units) : g = h
  BY <1>3
<1> HIDE DEF h
<1>5. \A i \in 1 .. 2 : s[i] = g[i]
  BY <1>2, <1>3, <1>4
<1>6. s = g
  BY <1>2, <1>3, <1>4, <1>5, SameSeq
<1> QED BY <1>4, <1>6 DEF Own, Header, s, h, n

-----------------------------------------------------------------------------
(* A header that is read.                                                    *)

(* p is the front of the line up to the first unit that ends a header.       *)
Header1(p, w) == /\ Len(p) \in 1 .. Len(w) /\ \A i \in 1 .. Len(p) : p[i] = w[i]
                 /\ p[Len(p)].part = 2
                 /\ \A i \in 1 .. Len(p) : i < Len(p) => p[i].part # 2
                 /\ \A i \in 1 .. Len(w) : w[i].part = 2 => Len(p) <= i

LEMMA PacketIsFront ==
  ASSUME packet_buf \in Seq(Units), rx \in Seq(Units), Complete
  PROVE  /\ Packet \in Seq(Units) /\ Header1(Packet, packet_buf \o rx)
         /\ Len(Packet) = Min(Ends) /\ Min(Ends) \in 1 .. Len(packet_buf)
<1> DEFINE e == Min(Ends)
<1>1. /\ e \in 1 .. Len(packet_buf) /\ packet_buf[e].part = 2
      /\ \A i \in 1 .. Len(packet_buf) : packet_buf[i].part = 2 => e <= i
  BY MinEnds
<1> HIDE DEF e
<1>2. SubSeq(packet_buf, 1, e) \in Seq(Units) /\ Len(SubSeq(packet_buf, 1, e)) = e
      /\ \A i \in 1 .. e : SubSeq(packet_buf, 1, e)[i] = packet_buf[i]
  BY <1>1, Prefix
<1>3. PICK p \in Seq(Units) : p = SubSeq(packet_buf, 1, e)
  BY <1>2
<1>4. PICK w \in Seq(Units) : w = packet_buf \o rx
  BY Joined
<1>5. Glue(w, packet_buf, rx)
  BY <1>4, Joined
<1>6. Len(packet_buf) \in Nat /\ Len(rx) \in Nat /\ Len(w) = Len(packet_buf) + Len(rx)
      /\ e \in Nat /\ e >= 1 /\ e <= Len(packet_buf)
  BY <1>1, <1>5 DEF Glue
<1>7. \A i \in 1 .. e : p[i] = w[i]
  BY <1>1, <1>2, <1>3, <1>5, <1>6 DEF Glue
<1>8. ASSUME NEW i \in 1 .. Len(w), w[i].part = 2 PROVE e <= i
  <2>1. CASE i \in 1 .. Len(packet_buf)
    BY <1>1, <1>5, <1>8, <2>1 DEF Glue
  <2>2. CASE i \notin 1 .. Len(packet_buf)
    BY <1>6, <2>2
  <2> QED BY <2>1, <2>2
<1>9. \A i \in 1 .. e : i < e => p[i].part # 2
  BY <1>1, <1>2, <1>3, <1>6
<1>10. p[e].part = 2
  <2>1. e \in 1 .. e
    BY <1>6
  <2> QED BY <1>1, <1>2, <1>3, <2>1
<1>11. Header1(p, w)
  BY <1>2, <1>3, <1>6, <1>7, <1>8, <1>9, <1>10 DEF Header1
<1> QED BY <1>1, <1>2, <1>3, <1>4, <1>11 DEF Packet, e

(* What the client makes of it.                                              *)
Sense(r, p) == /\ r.packet = p /\ r.kind \in Kinds \cup {"garbled"}
               /\ r.length \in 0 .. BodyUnits
               /\ r.kind # "garbled" =>
                    \E j \in DOMAIN p : p[j].part = 1 /\ p[j].kind = r.kind
               /\ (\A j \in DOMAIN p : ~HasBody(p[j].kind)) => r.length = 0

LEMMA ReadingsSense ==
  ASSUME NEW p \in Seq(Units), Len(p) >= 1, NEW r \in Readings(p)
  PROVE  /\ Sense(r, p)
         /\ r \in [packet : Seq(Units), kind : Kinds \cup {"garbled", "none"},
                   length : 0 .. BodyUnits]
<1>0. BodyUnits \in Nat /\ 0 \in 0 .. BodyUnits /\ BodyUnits \in 0 .. BodyUnits
  BY ConnectAssumption
<1>1. \A j \in DOMAIN p : p[j] \in Units /\ p[j].kind \in Kinds
  <2>1. \A j \in DOMAIN p : p[j] \in Units
    OBVIOUS
  <2>2. \A u \in Units : u.kind \in Kinds
    BY DEF Units
  <2> QED BY <2>1, <2>2
<1>2. 1 \in DOMAIN p
  OBVIOUS
<1>3. CASE Whole(p)
  <2>1. r = [packet |-> p, kind |-> p[1].kind, length |-> BodyLength(p[1].kind)]
    BY <1>3 DEF Readings
  <2>2. p[1].part = 1
    <3>1. p[1] = [p[1] EXCEPT !.part = 1]
      <4>1. p = <<[p[1] EXCEPT !.part = 1], [p[1] EXCEPT !.part = 2]>>
        BY <1>3 DEF Whole
      <4>2. <<[p[1] EXCEPT !.part = 1], [p[1] EXCEPT !.part = 2]>>[1] = [p[1] EXCEPT !.part = 1]
        OBVIOUS
      <4> QED BY <4>1, <4>2, Zenon
    <3>2. [p[1] EXCEPT !.part = 1].part = 1
      BY <1>1, <1>2 DEF Units
    <3> QED BY <3>1, <3>2, Zenon
  <2>3. r.packet = p /\ r.kind = p[1].kind /\ r.length = BodyLength(p[1].kind)
    BY <2>1
  <2>4. BodyLength(p[1].kind) \in 0 .. BodyUnits
    BY <1>0 DEF BodyLength
  <2>5. ~HasBody(p[1].kind) => r.length = 0
    BY <2>3 DEF BodyLength
  <2>6. p[1].kind \in Kinds
    BY <1>1, <1>2
  <2> QED BY <1>2, <2>1, <2>2, <2>3, <2>4, <2>5, <2>6 DEF Sense
<1>4. CASE ~Whole(p)
  <2> DEFINE L == IF Announces(p) THEN 0 .. BodyUnits ELSE {0}
  <2>1. r \in [packet : {p}, kind : {"garbled"} \cup Begun(p), length : L]
    BY <1>4 DEF Readings
  <2>2. L \subseteq 0 .. BodyUnits
    BY <1>0
  <2>3. (\A j \in DOMAIN p : ~HasBody(p[j].kind)) => L = {0}
    BY DEF Announces
  <2> HIDE DEF L
  <2>4. r.packet = p /\ r.kind \in {"garbled"} \cup Begun(p) /\ r.length \in L
    BY <2>1
  <2>5. ASSUME r.kind # "garbled"
        PROVE  \E j \in DOMAIN p : p[j].part = 1 /\ p[j].kind = r.kind
    <3>1. r.kind \in Begun(p)
      BY <2>4, <2>5
    <3> QED BY <3>1, Zenon DEF Begun
  <2>6. r.kind \in Kinds \cup {"garbled"}
    BY <1>1, <2>5
  <2>7. r.length \in 0 .. BodyUnits
    BY <2>2, <2>4
  <2>8. (\A j \in DOMAIN p : ~HasBody(p[j].kind)) => r.length = 0
    BY <2>3, <2>4
  <2>9. Sense(r, p)
    BY <2>4, <2>5, <2>6, <2>7, <2>8 DEF Sense
  <2>10. r = [packet |-> p, kind |-> r.kind, length |-> r.length]
    BY <2>1
  <2> QED BY <2>6, <2>7, <2>9, <2>10
<1> QED BY <1>3, <1>4

(* What stands behind an own end of a header, or behind an old one.          *)
LEMMA Behind ==
  ASSUME NEW w \in Seq(Units), NEW at, Line(w, at),
         NEW p \in Seq(Units), Header1(p, w),
         NEW j \in 1 .. Len(p), p[j].part = 1
  PROVE  /\ j < Len(p)
         /\ w[j].own => \A i \in DOMAIN w : i > j => w[i].own
         /\ ~w[Len(p)].own /\ w[j].kind = "greeting" =>
               /\ Len(p) = 2 /\ w[1].kind = "greeting" /\ w[2].kind = "greeting"
               /\ \A i \in DOMAIN w : i > 2 => w[i].own
         /\ w[j].own => j + 1 = Len(p) /\ w[Len(p)].kind = w[j].kind
<1> DEFINE e == Len(p)
<1>1. /\ e \in Nat /\ Len(w) \in Nat /\ e >= 1 /\ e <= Len(w) /\ j \in Nat /\ j >= 1 /\ j <= e
      /\ DOMAIN w = 1 .. Len(w)
  BY DEF Header1
<1>2. p[e].part = 2 /\ p[j] = w[j] /\ p[e] = w[e] /\ e \in DOMAIN w /\ j \in DOMAIN w
      /\ (\A i \in 1 .. Len(w) : w[i].part = 2 => e <= i)
  <2>1. e \in 1 .. e
    BY <1>1
  <2> QED BY <1>1, <2>1 DEF Header1
<1> HIDE DEF e
<1>3. j < e
  BY <1>1, <1>2
<1>4. w[j].own => \A i \in DOMAIN w : i > j => w[i].own
  BY <1>1, <1>2 DEF Line, OldFirst
<1>5. ASSUME ~w[e].own, w[j].kind = "greeting"
      PROVE  /\ e = 2 /\ w[1].kind = "greeting" /\ w[2].kind = "greeting"
             /\ \A i \in DOMAIN w : i > 2 => w[i].own
  <2>1. Begins(w[j], "greeting") /\ w[e].part = 2
    BY <1>2, <1>5 DEF Begins
  <2>2. /\ j = 1 /\ e = 2 /\ w[2].kind = "greeting"
        /\ \A i \in DOMAIN w : i > 2 => w[i].own
    BY <1>2, <1>3, <1>5, <2>1 DEF Line, OldGreeting
  <2> QED BY <1>5, <2>2
<1>6. ASSUME w[j].own PROVE j + 1 = e /\ w[e].kind = w[j].kind
  <2>1. j + 1 \in DOMAIN w
    BY <1>1, <1>3
  <2>2. w[j + 1].kind = w[j].kind /\ w[j + 1].part = 2
    BY <1>2, <1>6, <2>1 DEF Line, Paired
  <2>3. e <= j + 1
    BY <1>1, <1>2, <2>1, <2>2
  <2> QED BY <1>1, <1>3, <2>2, <2>3
<1> QED BY <1>3, <1>4, <1>5, <1>6 DEF e

(* A packet of two units without a body.                                     *)
LEMMA PlainPacket ==
  ASSUME NEW p \in Seq(Units), NEW r, Sense(r, p), NEW kind, ~HasBody(kind),
         Len(p) = 2, p[1].kind = kind, p[2].kind = kind
  PROVE  r.length = 0
<1>1. \A j \in DOMAIN p : j = 1 \/ j = 2
  OBVIOUS
<1> QED BY <1>1 DEF Sense

(* Behind a header that was read nothing is older than it.                   *)
LEMMA ReadsBody ==
  ASSUME NEW b \in Seq(Units), NEW q \in Seq(Units), NEW at, Line(b \o q, at), ReadsLate(b),
         NEW e \in 1 .. Len(b), b[e].part = 2, NEW v \in Seq(Units), After(v, b, e), NEW n
  PROVE  ReadsForBody(v, n)
<1>1. b \o q \in Seq(Units) /\ Glue(b \o q, b, q)
  BY Joined
<1>2. e \in Nat /\ Len(b) \in Nat /\ Len(q) \in Nat
      /\ DOMAIN b = 1 .. Len(b) /\ DOMAIN (b \o q) = 1 .. Len(b) + Len(q)
  BY <1>1 DEF Glue
<1>3. \A i \in DOMAIN b : i \in DOMAIN (b \o q) /\ (b \o q)[i] = b[i]
  BY <1>1, <1>2 DEF Glue
<1>4. \A i \in DOMAIN v : i \in Nat /\ i >= 1 /\ e + i \in DOMAIN b /\ v[i] = b[e + i]
  BY AfterFacts
<1> SUFFICES ASSUME NEW k \in DOMAIN v, v[k].own
             PROVE  /\ ~Begins(v[k], "greeting")
                    /\ \A i \in DOMAIN v : v[i].own
  BY DEF ReadsForBody
<1>5. e \in DOMAIN b /\ e + k \in DOMAIN b /\ b[e + k].own /\ e < e + k
  BY <1>2, <1>4
<1>6. b[e].own
  BY <1>5 DEF ReadsLate
<1>7. ~Begins(v[k], "greeting")
  <2>1. e \in DOMAIN (b \o q) /\ e + k \in DOMAIN (b \o q)
        /\ (b \o q)[e].own /\ (b \o q)[e + k].own /\ (b \o q)[e + k] = v[k]
    BY <1>3, <1>4, <1>5, <1>6
  <2> QED BY <1>5, <2>1 DEF Line, GreetingFirst
<1>8. ASSUME NEW i \in DOMAIN v PROVE v[i].own
  <2>1. e + i \in DOMAIN b /\ e < e + i /\ v[i] = b[e + i]
    BY <1>2, <1>4
  <2>2. e \in DOMAIN (b \o q) /\ e + i \in DOMAIN (b \o q)
        /\ (b \o q)[e].own /\ (b \o q)[e + i] = v[i]
    BY <1>3, <1>5, <1>6, <2>1
  <2> QED BY <2>1, <2>2 DEF Line, OldFirst
<1> QED BY <1>7, <1>8

(* A header is read while the greeting is awaited.                           *)
LEMMA ReadGreeted ==
  ASSUME NEW w \in Seq(Units), NEW at, Line(w, at), Greeted(w, NoEvent, at),
         NEW p \in Seq(Units), Header1(p, w), NEW r, Sense(r, p),
         NEW v \in Seq(Units), After(v, w, Len(p))
  PROVE  Greeted(v, r, at)
<1> DEFINE e == Len(p)
           n == Len(w)
<1>1. /\ e \in Nat /\ n \in Nat /\ e \in 1 .. n /\ e >= 1 /\ e <= n /\ e \in 0 .. n
      /\ DOMAIN w = 1 .. n /\ DOMAIN p = 1 .. e
  BY DEF Header1
<1>2. p[e].part = 2 /\ e \in DOMAIN w /\ (\A i \in 1 .. e : p[i] = w[i]) /\ p[e] = w[e]
  <2>1. e \in 1 .. e
    BY <1>1
  <2> QED BY <1>1, <2>1 DEF Header1
<1>3. /\ AllOwn(w) => AllOwn(v)
      /\ AllOld(w) => AllOld(v)
      /\ NotBegun(w, "accepted") => NotBegun(v, "accepted")
      /\ Len(v) = n - e
      /\ \A i \in DOMAIN v : i \in Nat /\ i >= 1 /\ e + i \in DOMAIN w /\ v[i] = w[e + i]
  BY <1>1, AfterFacts
<1> HIDE DEF e, n
(* It says that it greets: then so does one of its beginnings.               *)
<1>4. ASSUME r.kind = "greeting"
      PROVE  /\ AllOwn(v)
             /\ ~w[e].own => r.length = 0
  <2>1. PICK j \in 1 .. e : p[j].part = 1 /\ p[j].kind = "greeting"
    BY <1>1, <1>4 DEF Sense
  <2>2. w[j].kind = "greeting"
    BY <1>2, <2>1
  <2>3. /\ j < e
        /\ w[j].own => \A i \in DOMAIN w : i > j => w[i].own
        /\ ~w[e].own /\ w[j].kind = "greeting" =>
               /\ e = 2 /\ w[1].kind = "greeting" /\ w[2].kind = "greeting"
               /\ \A i \in DOMAIN w : i > 2 => w[i].own
    BY <2>1, Behind DEF e
  <2>4. AllOwn(v)
    <3> SUFFICES ASSUME NEW i \in DOMAIN v PROVE v[i].own
      BY DEF AllOwn
    <3>1. i \in Nat /\ i >= 1 /\ e + i \in DOMAIN w /\ v[i] = w[e + i]
      BY <1>3
    <3>2. CASE w[j].own
      <4>1. e + i > j
        BY <1>1, <2>3, <3>1
      <4> QED BY <2>3, <3>1, <3>2, <4>1
    <3>3. CASE w[e].own
      <4>1. e < e + i
        BY <1>1, <3>1
      <4> QED BY <1>2, <3>1, <3>3, <4>1 DEF Line, OldFirst
    <3>4. CASE ~w[e].own
      <4>1. e = 2 /\ \A k \in DOMAIN w : k > 2 => w[k].own
        BY <2>2, <2>3, <3>4
      <4>2. e + i > 2
        BY <3>1, <4>1
      <4> QED BY <3>1, <4>1, <4>2
    <3> QED BY <3>3, <3>4
  <2>5. ASSUME ~w[e].own PROVE r.length = 0
    <3>1. e = 2 /\ w[1].kind = "greeting" /\ w[2].kind = "greeting"
      BY <2>2, <2>3, <2>5
    <3>2. 1 \in 1 .. e /\ 2 \in 1 .. e
      BY <3>1
    <3>3. p[1].kind = "greeting" /\ p[2].kind = "greeting"
      BY <1>2, <3>1, <3>2
    <3>4. ~HasBody("greeting")
      BY DEF HasBody
    <3> QED BY <3>1, <3>3, <3>4, PlainPacket DEF e
  <2> QED BY <2>4, <2>5
<1>5. r.packet = p
  BY DEF Sense
<1>6. r # NoEvent
  <2>1. r.kind # "none"
    BY DEF Sense, Kinds
  <2> QED BY <2>1 DEF NoEvent
<1>7. /\ at \in {"greet", "wait", "bye", "closed"} /\ NotBegun(w, "accepted")
      /\ at = "greet" => AllOld(w)
      /\ at = "wait" => EndsGreeting(w)
  BY DEF Greeted
<1>8. ASSUME NEW i \in 1 .. e, ~w[i].own PROVE HasOld(r.packet)
  BY <1>1, <1>2, <1>5, <1>8 DEF HasOld
<1>9. at = "greet" => /\ AllOld(v) /\ HasOld(r.packet)
                      /\ r.kind = "greeting" => r.length = 0
  <2>1. at = "greet" => ~w[e].own
    BY <1>2, <1>7 DEF AllOld
  <2>2. e \in 1 .. e
    BY <1>1
  <2> QED BY <1>3, <1>4, <1>7, <1>8, <2>1, <2>2
<1>10. ASSUME at = "wait"
       PROVE  \/ /\ EndsGreeting(v) /\ HasOld(r.packet)
                 /\ r.kind = "greeting" => r.length = 0
              \/ /\ v = <<>> /\ Own(r.packet, "greeting")
                 /\ HasOld(r.packet) \/ r.length = 0
  <2>1. /\ n >= 2 /\ n - 1 \in DOMAIN w /\ w[n - 1] = Unit("greeting", 1)
        /\ (n - 1) + 1 \in DOMAIN w /\ w[(n - 1) + 1] = Unit("greeting", 2)
        /\ \A i \in DOMAIN w : i < n - 1 => ~w[i].own
    BY <1>7, <1>10 DEF EndsGreeting, HeaderAt, n
  <2>2. (n - 1) + 1 = n
    BY <1>1
  <2>3. w[n - 1].part = 1 /\ w[n - 1].kind = "greeting"
        /\ w[n].part = 2 /\ w[n].kind = "greeting"
    BY <2>1, <2>2 DEF Unit
  <2>4. e # n - 1
    BY <1>2, <2>3
  <2>5. CASE e < n - 1
    <3>1. ~w[e].own
      BY <1>2, <2>1, <2>5
    <3>2. e \in 1 .. e
      BY <1>1
    <3>3. n - e \in Nat /\ Len(v) = n - e /\ Len(v) >= 2 /\ DOMAIN v = 1 .. n - e
      BY <1>1, <1>3, <2>5
    <3>4. HeaderAt(v, Len(v) - 1, "greeting")
      <4>1. PICK k \in DOMAIN v : k = Len(v) - 1
        BY <3>3
      <4>2. k + 1 \in DOMAIN v /\ e + k = n - 1 /\ e + (k + 1) = n
        BY <1>1, <3>3, <4>1
      <4>3. v[k] = w[n - 1] /\ v[k + 1] = w[n]
        BY <1>3, <4>2
      <4> QED BY <2>1, <2>2, <4>1, <4>2, <4>3 DEF HeaderAt
    <3>5. ASSUME NEW i \in DOMAIN v, i < Len(v) - 1 PROVE ~v[i].own
      <4>1. i \in Nat /\ e + i \in DOMAIN w /\ v[i] = w[e + i]
        BY <1>3
      <4>2. e + i < n - 1
        BY <1>1, <3>3, <3>5, <4>1
      <4> QED BY <2>1, <4>1, <4>2
    <3>6. EndsGreeting(v)
      BY <3>3, <3>4, <3>5 DEF EndsGreeting
    <3> QED BY <1>4, <1>8, <3>1, <3>2, <3>6
  <2>6. CASE e = n
    <3>1. v = <<>>
      <4>1. Len(v) = 0
        BY <1>1, <1>3, <2>6
      <4> QED BY <4>1
    <3>2. e > 1 /\ e - 1 \in 1 .. e /\ e \in 1 .. e
      BY <1>1, <2>1, <2>6
    <3>3. p[e - 1] = Unit("greeting", 1) /\ p[e] = Unit("greeting", 2)
      BY <1>2, <2>1, <2>2, <2>6, <3>2
    <3>4. Own(p, "greeting")
      BY <3>2, <3>3, OwnPair DEF e
    <3>5. CASE n = 2
      <4>1. p[1].kind = "greeting" /\ p[2].kind = "greeting"
        BY <1>2, <2>3, <2>6, <3>2, <3>5
      <4>2. ~HasBody("greeting")
        BY DEF HasBody
      <4>3. r.length = 0
        BY <2>6, <3>5, <4>1, <4>2, PlainPacket DEF e
      <4> QED BY <1>5, <3>1, <3>4, <4>3
    <3>6. CASE n # 2
      <4>1. 1 \in DOMAIN w /\ 1 < n - 1 /\ 1 \in 1 .. e
        BY <1>1, <2>1, <3>6
      <4>2. HasOld(r.packet)
        BY <1>8, <2>1, <4>1
      <4> QED BY <1>5, <3>1, <3>4, <4>2
    <3> QED BY <3>5, <3>6
  <2> QED BY <1>1, <2>4, <2>5, <2>6
<1> QED BY <1>3, <1>4, <1>6, <1>7, <1>9, <1>10 DEF Greeted

(* A header is read while the verdict is awaited.                            *)
LEMMA ReadAwaited ==
  ASSUME NEW w \in Seq(Units), NEW at, Line(w, at), NEW h, Awaited(w, NoEvent, at, h),
         NEW p \in Seq(Units), Header1(p, w), NEW r, Sense(r, p),
         NEW v \in Seq(Units), After(v, w, Len(p))
  PROVE  Awaited(v, r, at, h)
<1> DEFINE e == Len(p)
           n == Len(w)
<1>1. /\ e \in Nat /\ n \in Nat /\ e \in 1 .. n /\ e >= 1 /\ e <= n /\ e \in 0 .. n
      /\ DOMAIN w = 1 .. n /\ DOMAIN p = 1 .. e
  BY DEF Header1
<1>2. /\ p[e].part = 2 /\ e \in DOMAIN w /\ (\A i \in 1 .. e : p[i] = w[i]) /\ p[e] = w[e]
      /\ \A i \in 1 .. n : w[i].part = 2 => e <= i
  <2>1. e \in 1 .. e
    BY <1>1
  <2> QED BY <1>1, <2>1 DEF Header1
<1>3. AllOwn(v) /\ AllOwn(w)
  <2>1. AllOwn(w)
    BY DEF Awaited
  <2> QED BY <1>1, <2>1, AfterFacts
<1> HIDE DEF e, n
<1>4. at \in {"greet", "wait", "judge", "bye", "closed"} /\ Heard(w, at, h)
  BY DEF Awaited
<1>5. w # <<>>
  BY <1>1, <1>2
<1>6. r.packet = p /\ r # NoEvent
  <2>1. r.packet = p /\ r.kind # "none"
    BY DEF Sense, Kinds
  <2> QED BY <2>1 DEF NoEvent
<1>7. ASSUME NEW kind, HeaderAt(w, 1, kind)
      PROVE  /\ e = 2 /\ p[1].kind = kind /\ p[2].kind = kind
             /\ ~HasBody(kind) => r.length = 0
  <2>1. 1 \in 1 .. n /\ 2 \in 1 .. n /\ w[1] = Unit(kind, 1) /\ w[2] = Unit(kind, 2)
    BY <1>1, <1>7 DEF HeaderAt
  <2>2. w[1].part = 1 /\ w[2].part = 2 /\ w[1].kind = kind /\ w[2].kind = kind
    BY <2>1 DEF Unit
  <2>3. e = 2
    BY <1>1, <1>2, <2>1, <2>2
  <2>4. p[1].kind = kind /\ p[2].kind = kind
    BY <1>2, <2>2, <2>3
  <2> QED BY <2>3, <2>4, PlainPacket DEF e
<1>8. ~HasBody("greeting") /\ ~HasBody("accepted")
  BY DEF HasBody
<1>9. ASSUME r.kind = "accepted", ~HeaderAt(w, 1, "greeting")
      PROVE  Own(p, "accepted") /\ ~NotBegun(w, "accepted")
  <2>1. PICK j \in 1 .. e : p[j].part = 1 /\ p[j].kind = "accepted"
    BY <1>1, <1>9 DEF Sense
  <2>2. w[j].own /\ w[j].part = 1 /\ w[j].kind = "accepted" /\ j \in DOMAIN w /\ j \in Nat
    <3>1. j \in DOMAIN w /\ j \in Nat /\ p[j] = w[j]
      BY <1>1, <1>2
    <3> QED BY <1>3, <2>1, <3>1 DEF AllOwn
  <2>3. j + 1 = e /\ w[e].kind = "accepted" /\ j < e
    BY <2>1, <2>2, Behind DEF e
  <2>4. w[e].own
    BY <1>2, <1>3 DEF AllOwn
  <2>5. e - 1 = j /\ e > 1 /\ j \in 1 .. e /\ e \in 1 .. e
    BY <1>1, <2>2, <2>3
  <2>6. \A u \in Units : u.own => u = Unit(u.kind, u.part)
    BY DEF Unit, Units
  <2>7. w[j] = Unit("accepted", 1) /\ w[e] = Unit("accepted", 2)
    <3>1. w[j] \in Units /\ w[e] \in Units
      BY <1>2, <2>2
    <3> QED BY <1>2, <2>2, <2>3, <2>4, <2>6, <3>1
  <2>8. p[e - 1] = Unit("accepted", 1) /\ p[e] = Unit("accepted", 2)
    BY <1>2, <2>5, <2>7
  <2> QED BY <2>2, <2>5, <2>8, OwnPair DEF e, NotBegun, Begins
<1>10. at # "greet" /\ (at \in {"wait", "judge"} => r.length = 0)
       /\ (r.kind = "accepted" => h = <<Said("greeting")>> /\ Own(p, "accepted"))
  <2>1. CASE /\ h = <<Said("greeting")>> /\ at # "greet"
             /\ at = "judge" => w = <<>>
             /\ at = "wait" => Len(w) = 2 /\ HeaderAt(w, 1, "accepted")
    <3>1. at \in {"wait", "judge"} => r.length = 0
      BY <1>5, <1>7, <1>8, <2>1
    <3>2. ASSUME HeaderAt(w, 1, "greeting"), r.kind = "accepted" PROVE FALSE
      <4>1. e = 2 /\ p[1].kind = "greeting" /\ p[2].kind = "greeting"
        BY <1>7, <3>2
      <4>2. \A j \in DOMAIN p : j = 1 \/ j = 2
        BY <1>1, <4>1
      <4> QED BY <3>2, <4>1, <4>2 DEF Sense
    <3> QED BY <1>9, <2>1, <3>1, <3>2
  <2>2. CASE at # "greet" /\ HeaderAt(w, 1, "greeting")
    <3>1. r.length = 0 /\ e = 2 /\ p[1].kind = "greeting" /\ p[2].kind = "greeting"
      BY <1>7, <1>8, <2>2
    <3>2. \A j \in DOMAIN p : j = 1 \/ j = 2
      BY <1>1, <3>1
    <3>3. r.kind # "accepted"
      BY <3>1, <3>2 DEF Sense
    <3> QED BY <2>2, <3>1, <3>3
  <2>3. CASE at \in {"bye", "closed"} /\ NotBegun(w, "accepted")
    <3>1. ASSUME HeaderAt(w, 1, "greeting"), r.kind = "accepted" PROVE FALSE
      <4>1. e = 2 /\ p[1].kind = "greeting" /\ p[2].kind = "greeting"
        BY <1>7, <3>1
      <4>2. \A j \in DOMAIN p : j = 1 \/ j = 2
        BY <1>1, <4>1
      <4> QED BY <3>1, <4>1, <4>2 DEF Sense
    <3> QED BY <1>9, <2>3, <3>1
  <2> QED BY <1>4, <1>5, <2>1, <2>2, <2>3 DEF Heard
<1> QED BY <1>3, <1>4, <1>6, <1>10 DEF Awaited

-----------------------------------------------------------------------------
(* The steps of the client.                                                  *)

LEMMA ConnectedIInv == ASSUME IInv, Connected PROVE IInv'
<1>1. /\ pc = "try" /\ pc' = "greeting" /\ packet_buf' = Stale(packet_buf) /\ heard' = <<>>
      /\ rx' = <<>> /\ peer' = "greet" /\ revent' = revent
  BY DEF Connected
<1>2. packet_buf \in Seq(Units) /\ Leftover(packet_buf) /\ revent = NoEvent
  BY <1>1 DEF IInv, Typed, Between, Receiving
<1>3. /\ Stale(packet_buf) \in Seq(Units) /\ AllOld(Stale(packet_buf))
      /\ Line(Stale(packet_buf), "greet")
  BY <1>2, StaleLine
<1>4. PICK s \in Seq(Units) : s = Stale(packet_buf)
  BY <1>3
<1>5. s \o <<>> = s
  OBVIOUS
<1>6. AllOwn(<<>>) /\ ReadsLate(s)
  BY <1>3, <1>4 DEF AllOwn, AllOld, ReadsLate
<1>7. Greeted(s, NoEvent, "greet")
  BY <1>3, <1>4 DEF Greeted, NotBegun, AllOld
<1>8. Typed'
  BY <1>1, <1>2, <1>4 DEF IInv, Typed, Receiving
<1> QED BY <1>1, <1>2, <1>3, <1>4, <1>5, <1>6, <1>7, <1>8
        DEF IInv, Attempt, InConnect, Reads, AtGreeting, AtVerdict, AtSession, Between

(* More is read only when something is lacking.                              *)
LEMMA ReadsMore ==
  ASSUME NEW b \in Seq(Units), NEW a \in Seq(Units), AllOwn(a), NEW c \in Seq(Units),
         NEW at, Line((b \o a) \o c, at), NEW r, Reads(b, r),
         IF r = NoEvent THEN \A i \in DOMAIN b : b[i].part # 2
         ELSE r.length \in Nat /\ Len(b) < r.length
  PROVE  Reads(b \o a, r)
<1> DEFINE d == b \o a
<1>1. d \in Seq(Units) /\ Glue(d, b, a)
  BY Joined
<1> HIDE DEF d
<1>2. d \o c \in Seq(Units) /\ Glue(d \o c, d, c)
  BY <1>1, Joined
<1>3. /\ Len(b) \in Nat /\ Len(a) \in Nat /\ Len(c) \in Nat /\ Len(d) = Len(b) + Len(a)
      /\ DOMAIN b = 1 .. Len(b) /\ DOMAIN d = 1 .. Len(b) + Len(a)
      /\ DOMAIN (d \o c) = 1 .. (Len(b) + Len(a)) + Len(c)
  BY <1>1, <1>2 DEF Glue
<1>4. \A i \in DOMAIN b : i \in DOMAIN d /\ d[i] = b[i] /\ i \in Nat
  BY <1>1, <1>3 DEF Glue
<1>5. \A i \in DOMAIN d : i \in DOMAIN (d \o c) /\ (d \o c)[i] = d[i]
  BY <1>1, <1>2, <1>3 DEF Glue
<1>6. ASSUME NEW i \in DOMAIN d, i \notin DOMAIN b PROVE d[i].own /\ i > Len(b)
  <2>1. PICK j \in DOMAIN a : i = Len(b) + j
    <3>1. i - Len(b) \in 1 .. Len(a) /\ i = Len(b) + (i - Len(b))
      BY <1>3, <1>6
    <3> QED BY <3>1
  <2>2. d[Len(b) + j] = a[j]
    BY <1>1, <2>1 DEF Glue
  <2> QED BY <1>3, <2>1, <2>2, <1>6 DEF AllOwn
<1>7. CASE r = NoEvent
  <2>1. ReadsLate(d)
    <3> SUFFICES ASSUME NEW i \in DOMAIN d, ~d[i].own PROVE d[i].part # 2
      BY DEF ReadsLate
    <3> QED BY <1>4, <1>6, <1>7
  <2> QED BY <1>7, <2>1 DEF Reads, d
<1>8. CASE r # NoEvent
  <2>1. r.length \in Nat /\ Len(b) < r.length
    BY <1>8
  <2> SUFFICES ASSUME NEW k \in DOMAIN d, d[k].own
               PROVE  /\ Begins(d[k], "greeting") => k <= r.length
                      /\ \A i \in DOMAIN d : ~d[i].own => i <= r.length
    BY <1>8 DEF Reads, ReadsForBody, d
  <2>2. ASSUME NEW i \in DOMAIN b PROVE i <= r.length
    BY <1>3, <2>1, <2>2
  <2>3. \A i \in DOMAIN d : ~d[i].own => i <= r.length
    BY <1>6, <2>2
  <2>4. ASSUME Begins(d[k], "greeting"), k \notin DOMAIN b PROVE k <= r.length
    <3>1. k > Len(b) /\ k \in Nat
      BY <1>3, <1>6, <2>4
    <3>2. ASSUME k # Len(b) + 1 PROVE FALSE
      <4>1. PICK j \in DOMAIN d : j < k /\ j \notin DOMAIN b
        <5>1. k - 1 \in DOMAIN d /\ k - 1 < k /\ k - 1 \notin DOMAIN b
          BY <1>3, <3>1, <3>2
        <5> QED BY <5>1
      <4>2. d[j].own
        BY <1>6, <4>1
      <4>3. j \in DOMAIN (d \o c) /\ k \in DOMAIN (d \o c)
            /\ (d \o c)[j].own /\ (d \o c)[k].own /\ Begins((d \o c)[k], "greeting")
        BY <1>5, <2>4, <4>2
      <4> QED BY <4>1, <4>3 DEF Line, GreetingFirst, d
    <3> QED BY <1>3, <2>1, <3>1, <3>2
  <2> QED BY <2>2, <2>3, <2>4
<1> QED BY <1>7, <1>8

LEMMA FillIInv == ASSUME IInv, Fill PROVE IInv'
<1>1. PICK k \in 1 .. Len(rx) : /\ packet_buf' = packet_buf \o SubSeq(rx, 1, k)
                                /\ rx' = SubSeq(rx, k + 1, Len(rx))
  BY DEF Fill
<1>2. /\ Receiving /\ Lacks /\ pc' = pc /\ revent' = revent /\ heard' = heard /\ peer' = peer
  BY DEF Fill
<1>3. packet_buf \in Seq(Units) /\ rx \in Seq(Units)
  BY DEF IInv, Typed
<1>4. k \in 0 .. Len(rx)
  BY <1>3
<1>5. PICK a \in Seq(Units) : /\ a = SubSeq(rx, 1, k) /\ Len(a) = k
                              /\ \A i \in 1 .. k : a[i] = rx[i]
  BY <1>3, <1>4, Prefix
<1>6. PICK c \in Seq(Units) : c = SubSeq(rx, k + 1, Len(rx)) /\ After(c, rx, k)
  BY <1>3, <1>4, RestIs
<1>7. Glue(rx, a, c)
  <2>1. k \in Nat /\ Len(rx) \in Nat /\ Len(c) = Len(rx) - k
    BY <1>3, <1>4, <1>6 DEF After
  <2>2. Len(rx) = Len(a) + Len(c)
    BY <1>5, <2>1
  <2>3. \A i \in 1 .. Len(c) : rx[Len(a) + i] = c[i]
    BY <1>5, <1>6 DEF After
  <2> QED BY <1>5, <2>2, <2>3 DEF Glue
<1>8. (packet_buf \o a) \o c = packet_buf \o rx
  BY <1>3, <1>7, Moved
<1>9. packet_buf' = packet_buf \o a /\ rx' = c
  BY <1>1, <1>5, <1>6
<1>10. packet_buf \o a \in Seq(Units)
  BY <1>3, Joined
<1>11. Typed'
  BY <1>2, <1>9, <1>10 DEF IInv, Typed, Receiving
<1>12. ASSUME InConnect PROVE Attempt'
  <2>1. Line(packet_buf \o rx, peer) /\ AllOwn(rx) /\ Reads(packet_buf, revent)
    BY <1>12 DEF IInv, Attempt
  <2>2. AllOwn(a) /\ AllOwn(c)
    <3>1. Len(rx) \in Nat /\ Len(a) \in Nat /\ Len(c) \in Nat /\ Len(rx) = Len(a) + Len(c)
      BY <1>3, <1>7 DEF Glue
    <3>2. \A i \in DOMAIN a : i \in DOMAIN rx /\ a[i] = rx[i]
      BY <1>7, <3>1, <1>3 DEF Glue
    <3>3. ASSUME NEW i \in DOMAIN c PROVE Len(a) + i \in DOMAIN rx /\ c[i] = rx[Len(a) + i]
      <4>1. i \in 1 .. Len(c) /\ Len(a) + i \in 1 .. Len(rx)
        BY <3>1
      <4>2. DOMAIN rx = 1 .. Len(rx)
        BY <1>3
      <4> QED BY <1>7, <4>1, <4>2 DEF Glue
    <3> QED BY <2>1, <3>2, <3>3 DEF AllOwn
  <2>3. IF revent = NoEvent THEN \A i \in DOMAIN packet_buf : packet_buf[i].part # 2
        ELSE revent.length \in Nat /\ Len(packet_buf) < revent.length
    <3>1. revent.length \in Nat
      BY ConnectAssumption DEF IInv, Typed
    <3> QED BY <1>2, <3>1 DEF Lacks, Complete, Ends
  <2>4. Line((packet_buf \o a) \o c, peer)
    BY <1>8, <2>1
  <2>5. Reads(packet_buf \o a, revent)
    BY <1>3, <2>1, <2>2, <2>3, <2>4, ReadsMore
  <2> QED BY <1>2, <1>9, <2>2, <2>4, <2>5 DEF Attempt
<1>13. Attempt'
  BY <1>2, <1>12 DEF Attempt, InConnect
<1>14. packet_buf' \o rx' = packet_buf \o rx
  BY <1>8, <1>9
<1>15. AtGreeting'
  BY <1>2, <1>14 DEF IInv, AtGreeting
<1>16. AtVerdict'
  BY <1>2, <1>14 DEF IInv, AtVerdict
<1>17. AtSession' /\ Between'
  BY <1>2 DEF IInv, AtSession, Between, Receiving
<1> QED BY <1>11, <1>13, <1>15, <1>16, <1>17 DEF IInv

LEMMA ReadHeaderIInv == ASSUME IInv, ReadHeader PROVE IInv'
<1>1. /\ Receiving /\ revent = NoEvent /\ Complete
      /\ revent' \in Readings(Packet) /\ packet_buf' = Rest
      /\ pc' = pc /\ heard' = heard /\ peer' = peer /\ rx' = rx
  BY DEF ReadHeader, Left, serverVars
<1>2. packet_buf \in Seq(Units) /\ rx \in Seq(Units)
  BY DEF IInv, Typed
<1>3. /\ Packet \in Seq(Units) /\ Header1(Packet, packet_buf \o rx)
      /\ Len(Packet) = Min(Ends) /\ Min(Ends) \in 1 .. Len(packet_buf)
  BY <1>1, <1>2, PacketIsFront
<1>4. PICK p \in Seq(Units) : p = Packet
  BY <1>3
<1>5. PICK e \in 1 .. Len(packet_buf) : e = Min(Ends)
  BY <1>3
<1>6. packet_buf[e].part = 2
  BY <1>1, <1>2, <1>5, MinEnds
<1>7. PICK r : r = revent'
  OBVIOUS
<1>8. Len(p) = e /\ Len(p) >= 1 /\ e \in 0 .. Len(packet_buf) /\ Header1(p, packet_buf \o rx)
  BY <1>2, <1>3, <1>4, <1>5
<1>9. /\ Sense(r, p)
      /\ r \in [packet : Seq(Units), kind : Kinds \cup {"garbled", "none"},
                length : 0 .. BodyUnits]
  BY <1>1, <1>4, <1>7, <1>8, ReadingsSense
<1>10. r # NoEvent
  <2>1. r.kind # "none"
    BY <1>9 DEF Sense, Kinds
  <2> QED BY <2>1 DEF NoEvent
<1>11. PICK v \in Seq(Units) : v = SubSeq(packet_buf, e + 1, Len(packet_buf)) /\ After(v, packet_buf, e)
  BY <1>2, <1>8, RestIs
<1>12. packet_buf' = v
  BY <1>1, <1>5, <1>11 DEF Rest
<1>13. Typed'
  BY <1>1, <1>7, <1>9, <1>11, <1>12 DEF IInv, Typed, Receiving
<1>14. ASSUME InConnect
       PROVE  /\ Line(packet_buf \o rx, peer) /\ packet_buf \o rx \in Seq(Units)
              /\ Line(v \o rx, peer) /\ v \o rx \in Seq(Units)
              /\ After(v \o rx, packet_buf \o rx, e)
              /\ AllOwn(rx) /\ ReadsForBody(v, r.length)
  <2>1. Line(packet_buf \o rx, peer) /\ AllOwn(rx) /\ ReadsLate(packet_buf)
    BY <1>1, <1>14 DEF IInv, Attempt, Reads
  <2>2. packet_buf \o rx \in Seq(Units)
    BY <1>2, Joined
  <2>3. v \o rx \in Seq(Units) /\ Line(v \o rx, peer) /\ After(v \o rx, packet_buf \o rx, e)
    BY <1>2, <1>8, <1>11, <2>1, Taken
  <2>4. ReadsForBody(v, r.length)
    BY <1>2, <1>6, <1>11, <2>1, ReadsBody
  <2> QED BY <2>1, <2>2, <2>3, <2>4
<1>15. Attempt'
  BY <1>1, <1>7, <1>10, <1>12, <1>14 DEF Attempt, InConnect, Reads
<1>16. AtGreeting'
  <2> SUFFICES ASSUME pc = "greeting" PROVE heard = <<>> /\ Greeted(v \o rx, r, peer)
    BY <1>1, <1>7, <1>12 DEF AtGreeting
  <2>1. InConnect /\ heard = <<>> /\ Greeted(packet_buf \o rx, NoEvent, peer)
    BY <1>1 DEF IInv, AtGreeting, InConnect
  <2> QED BY <1>8, <1>9, <1>14, <2>1, ReadGreeted
<1>17. AtVerdict'
  <2> SUFFICES ASSUME pc = "verdict" PROVE Awaited(v \o rx, r, peer, heard)
    BY <1>1, <1>7, <1>12 DEF AtVerdict
  <2>1. InConnect /\ Awaited(packet_buf \o rx, NoEvent, peer, heard)
    BY <1>1 DEF IInv, AtVerdict, InConnect
  <2> QED BY <1>8, <1>9, <1>14, <2>1, ReadAwaited
<1>18. AtSession' /\ Between'
  BY <1>1 DEF IInv, AtSession, Between, Receiving
<1> QED BY <1>13, <1>15, <1>16, <1>17, <1>18 DEF IInv

(* The greeting is taken, and the attempt goes on.                           *)
LEMMA GreetingTaken ==
  ASSUME NEW w \in Seq(Units), NEW r, r # NoEvent, r.kind = "greeting", NEW at,
         Greeted(w, r, at), r.length \in 0 .. Len(w),
         NEW v \in Seq(Units), After(v, w, r.length)
  PROVE  Awaited(v, NoEvent, IF at = "wait" THEN "judge" ELSE at,
                 <<[kind |-> r.kind, own |-> Own(r.packet, r.kind)]>>)
<1>1. /\ at \in {"greet", "wait", "bye", "closed"} /\ NotBegun(w, "accepted") /\ AllOwn(w)
      /\ at = "greet" => AllOld(w)
      /\ at = "wait" =>
           \/ EndsGreeting(w) /\ r.length = 0
           \/ w = <<>> /\ Own(r.packet, "greeting")
  BY DEF Greeted
<1>2. Len(w) \in Nat /\ DOMAIN w = 1 .. Len(w) /\ Len(v) \in Nat
  OBVIOUS
<1>3. /\ AllOwn(v) /\ NotBegun(v, "accepted") /\ Len(v) = Len(w) - r.length
      /\ \A i \in DOMAIN v : i \in Nat /\ v[i] = w[r.length + i]
  BY <1>1, AfterFacts
<1>4. CASE at = "greet"
  <2>1. w = <<>>
    <3>1. ~(1 \in DOMAIN w)
      BY <1>1, <1>4 DEF AllOwn, AllOld
    <3>2. Len(w) = 0
      BY <1>2, <3>1
    <3> QED BY <3>2
  <2>2. Len(w) = 0
    BY <2>1
  <2>3. Len(v) = 0
    BY <1>2, <1>3, <2>2
  <2>4. v = <<>>
    BY <2>3
  <2> QED BY <1>3, <1>4, <2>4 DEF Awaited, Heard
<1>5. CASE at = "wait" /\ EndsGreeting(w) /\ r.length = 0
  <2>1. /\ Len(w) >= 2 /\ HeaderAt(w, Len(w) - 1, "greeting")
        /\ \A i \in DOMAIN w : ~(i < Len(w) - 1)
    BY <1>1, <1>5 DEF EndsGreeting, AllOwn
  <2>2. Len(w) = 2
    <3>1. ASSUME Len(w) > 2 PROVE FALSE
      <4>1. 1 \in DOMAIN w /\ 1 < Len(w) - 1
        BY <1>2, <3>1
      <4> QED BY <2>1, <4>1
    <3> QED BY <1>2, <2>1, <3>1
  <2>3. Len(w) - 1 = 1
    BY <2>2
  <2>4. HeaderAt(w, 1, "greeting")
    BY <2>1, <2>3
  <2>5. v = w
    <3>1. Len(v) = Len(w) /\ \A i \in 1 .. Len(v) : v[i] = w[i]
      <4>1. Len(v) = Len(w)
        BY <1>2, <1>3, <1>5
      <4>2. ASSUME NEW i \in 1 .. Len(v) PROVE v[i] = w[i]
        <5>1. i \in DOMAIN v /\ r.length + i = i
          BY <1>5
        <5> QED BY <1>3, <5>1
      <4> QED BY <4>1, <4>2
    <3> QED BY <3>1, SameSeq
  <2> QED BY <1>3, <1>5, <2>4, <2>5 DEF Awaited, Heard
<1>6. CASE at = "wait" /\ w = <<>> /\ Own(r.packet, "greeting")
  <2>1. Len(w) = 0
    BY <1>6
  <2>2. Len(v) = 0
    BY <1>2, <1>3, <2>1
  <2>3. v = <<>>
    BY <2>2
  <2>4. [kind |-> r.kind, own |-> Own(r.packet, r.kind)] = Said("greeting")
    BY <1>6 DEF Said, Own
  <2> QED BY <1>3, <1>6, <2>3, <2>4 DEF Awaited, Heard
<1>7. CASE at \in {"bye", "closed"}
  BY <1>3, <1>7 DEF Awaited, Heard
<1> QED BY <1>1, <1>4, <1>5, <1>6, <1>7

LEMMA TakeIInv == ASSUME IInv, TakeMessage PROVE IInv'
<1>1. /\ Receiving /\ revent # NoEvent /\ ~Lacks /\ revent' = NoEvent /\ rx' = rx
      /\ packet_buf' = SubSeq(packet_buf, revent.length + 1, Len(packet_buf))
      /\ Greeting \/ Verdict \/ Session
  BY DEF TakeMessage
<1>2. packet_buf \in Seq(Units) /\ rx \in Seq(Units) /\ revent.length \in 0 .. BodyUnits
  BY DEF IInv, Typed
<1>3. PICK r : r = revent
  OBVIOUS
<1>4. r # NoEvent /\ r.length \in 0 .. Len(packet_buf)
  <2>1. r.length \in Nat /\ Len(packet_buf) \in Nat /\ ~(Len(packet_buf) < r.length)
    BY <1>1, <1>2, <1>3, ConnectAssumption DEF Lacks
  <2> QED BY <1>1, <1>3, <2>1
<1>5. PICK v \in Seq(Units) : /\ v = SubSeq(packet_buf, r.length + 1, Len(packet_buf))
                              /\ After(v, packet_buf, r.length)
  BY <1>2, <1>4, RestIs
<1>6. packet_buf' = v
  BY <1>1, <1>3, <1>5
<1>7. NoEvent \in [packet : Seq(Units), kind : Kinds \cup {"garbled", "none"},
                   length : 0 .. BodyUnits]
  <2>1. 0 \in 0 .. BodyUnits /\ <<>> \in Seq(Units)
    BY ConnectAssumption
  <2> QED BY <2>1 DEF NoEvent
<1>8. ASSUME pc' \in {"try", "sleep", "greeting", "verdict", "subscribe", "events",
                      "close", "done"}
      PROVE  Typed'
  BY <1>1, <1>2, <1>6, <1>7, <1>8 DEF Typed
<1>9. ASSUME InConnect
      PROVE  /\ Line(packet_buf \o rx, peer) /\ AllOwn(rx) /\ ReadsForBody(packet_buf, r.length)
  BY <1>1, <1>3, <1>9 DEF IInv, Attempt, Reads
<1>10. ASSUME InConnect, pc' = "sleep" PROVE IInv'
  <2>1. Leftover(v)
    BY <1>2, <1>4, <1>5, <1>9, <1>10, FailLeaves
  <2> QED BY <1>6, <1>8, <1>10, <2>1
          DEF IInv, Attempt, InConnect, AtGreeting, AtVerdict, AtSession, Between
<1>11. CASE Greeting
  <2>1. pc = "greeting" /\ InConnect
    BY <1>11 DEF Greeting, InConnect
  <2>2. CASE r.kind # "greeting"
    <3>1. pc' = "sleep"
      BY <1>3, <1>11, <2>1, <2>2 DEF Greeting, Greets, AttemptFails
    <3> QED BY <1>10, <2>1, <3>1
  <2>3. CASE r.kind = "greeting"
    <3>1. /\ pc' = "verdict" /\ peer' = IF peer = "wait" THEN "judge" ELSE peer
          /\ heard' = Append(heard, [kind |-> r.kind, own |-> Own(r.packet, r.kind)])
      BY <1>3, <1>11, <2>3 DEF Greeting, Greets, Hears
    <3>2. heard = <<>> /\ Greeted(packet_buf \o rx, r, peer)
      BY <1>3, <2>1 DEF IInv, AtGreeting
    <3>3. heard' = <<[kind |-> r.kind, own |-> Own(r.packet, r.kind)]>>
      BY <3>1, <3>2
    <3>4. peer = "closed" => peer' = "closed"
      BY <3>1
    <3>5. v \o rx \in Seq(Units) /\ After(v \o rx, packet_buf \o rx, r.length)
          /\ Line(v \o rx, peer')
      BY <1>2, <1>4, <1>5, <1>9, <2>1, <3>4, Taken
    <3>6. packet_buf \o rx \in Seq(Units) /\ r.length \in 0 .. Len(packet_buf \o rx)
      <4>1. packet_buf \o rx \in Seq(Units) /\ Glue(packet_buf \o rx, packet_buf, rx)
        BY <1>2, Joined
      <4>2. Len(packet_buf) \in Nat /\ Len(rx) \in Nat
            /\ Len(packet_buf \o rx) = Len(packet_buf) + Len(rx)
        BY <1>2, <4>1 DEF Glue
      <4> QED BY <1>4, <4>1, <4>2
    <3>7. Awaited(v \o rx, NoEvent, peer', heard')
      BY <1>4, <2>3, <3>1, <3>2, <3>3, <3>5, <3>6, GreetingTaken
    <3>8. AllOwn(v \o rx)
      BY <3>7 DEF Awaited
    <3>9. AllOwn(v) /\ AllOwn(rx)
      <4>1. Glue(v \o rx, v, rx)
        BY <1>2, <1>5, Joined
      <4>2. Len(v) \in Nat /\ Len(rx) \in Nat /\ DOMAIN v = 1 .. Len(v)
            /\ DOMAIN (v \o rx) = 1 .. Len(v) + Len(rx)
        BY <1>2, <1>5, <3>5, <4>1 DEF Glue
      <4>3. \A i \in DOMAIN v : i \in DOMAIN (v \o rx) /\ (v \o rx)[i] = v[i]
        BY <4>1, <4>2 DEF Glue
      <4> QED BY <1>9, <2>1, <3>8, <4>3 DEF AllOwn
    <3>10. ReadsLate(v)
      BY <3>9 DEF AllOwn, ReadsLate
    <3>11. Attempt'
      BY <1>1, <1>6, <3>5, <3>9, <3>10 DEF Attempt, Reads
    <3>12. AtVerdict'
      BY <1>1, <1>6, <3>7 DEF AtVerdict
    <3> QED BY <1>8, <3>1, <3>11, <3>12 DEF IInv, AtGreeting, AtSession, Between
  <2> QED BY <2>2, <2>3
<1>12. CASE Verdict
  <2>1. pc = "verdict" /\ InConnect
    BY <1>12 DEF Verdict, InConnect
  <2>2. CASE r.kind # "accepted"
    <3>1. pc' = "sleep"
      BY <1>3, <1>12, <2>1, <2>2 DEF Verdict, Accepts, AttemptFails
    <3> QED BY <1>10, <2>1, <3>1
  <2>3. CASE r.kind = "accepted"
    <3>1. /\ pc' = "subscribe"
          /\ heard' = Append(heard, [kind |-> r.kind, own |-> Own(r.packet, r.kind)])
      BY <1>3, <1>12, <2>3 DEF Verdict, Accepts, Hears
    <3>2. heard = <<Said("greeting")>> /\ Own(r.packet, "accepted")
      BY <1>3, <1>4, <2>1, <2>3 DEF IInv, AtVerdict, Awaited
    <3>3. [kind |-> r.kind, own |-> Own(r.packet, r.kind)] = Said("accepted")
      BY <2>3, <3>2 DEF Said, Own
    <3>4. heard' = <<Said("greeting"), Said("accepted")>>
      BY <3>1, <3>2, <3>3, SecondSaid, Zenon
    <3> QED BY <1>8, <3>1, <3>4
            DEF IInv, Attempt, InConnect, AtGreeting, AtVerdict, AtSession, Between
  <2> QED BY <2>2, <2>3
<1>13. CASE Session
  <2>1. pc \in {"subscribe", "events"} /\ heard' = heard
    BY <1>13 DEF Session
  <2>2. pc' \in {"subscribe", "events", "close"}
    BY <1>13, <2>1 DEF Session, AttemptFails, InConnect
  <2> QED BY <1>8, <2>1, <2>2
          DEF IInv, Attempt, InConnect, AtGreeting, AtVerdict, AtSession, Between
<1> QED BY <1>1, <1>11, <1>12, <1>13

LEMMA LostIInv == ASSUME IInv, ConnectionLost PROVE IInv'
<1>1. /\ Receiving /\ Lacks /\ rx = <<>> /\ AttemptFails /\ revent' = NoEvent
      /\ packet_buf' = packet_buf /\ rx' = rx /\ heard' = heard
  BY DEF ConnectionLost, serverVars
<1>2. packet_buf \in Seq(Units) /\ revent.length \in 0 .. BodyUnits
  BY DEF IInv, Typed
<1>3. pc' = IF InConnect THEN "sleep" ELSE "close"
  BY <1>1 DEF AttemptFails, Receiving, InConnect
<1>4. Typed'
  <2>1. 0 \in 0 .. BodyUnits /\ <<>> \in Seq(Units)
    BY ConnectAssumption
  <2>2. NoEvent \in [packet : Seq(Units), kind : Kinds \cup {"garbled", "none"},
                     length : 0 .. BodyUnits]
    BY <2>1 DEF NoEvent
  <2> QED BY <1>1, <1>3, <2>2 DEF IInv, Typed
<1>5. ASSUME InConnect PROVE Leftover(packet_buf)
  <2>1. packet_buf \o rx = packet_buf
    BY <1>1, <1>2
  <2>2. Line(packet_buf, peer)
    BY <1>5, <2>1 DEF IInv, Attempt
  <2>3. (\A i \in DOMAIN packet_buf : packet_buf[i].part # 2) \/ Len(packet_buf) < BodyUnits
    <3>1. CASE revent = NoEvent
      BY <1>1, <3>1 DEF Lacks, Complete, Ends
    <3>2. CASE revent # NoEvent
      <4>1. Len(packet_buf) < revent.length
        BY <1>1, <3>2 DEF Lacks
      <4>2. Len(packet_buf) \in Nat /\ BodyUnits \in Nat
        BY <1>2, ConnectAssumption
      <4> QED BY <1>2, <4>1, <4>2
    <3> QED BY <3>1, <3>2
  <2> QED BY <1>2, <2>2, <2>3, LostLeaves
<1>6. CASE InConnect
  <2>1. pc' = "sleep"
    BY <1>3, <1>6
  <2> QED BY <1>1, <1>4, <1>5, <1>6, <2>1
          DEF IInv, Attempt, InConnect, AtGreeting, AtVerdict, AtSession, Between
<1>7. CASE ~InConnect
  <2>1. pc' = "close"
    BY <1>3, <1>7
  <2> QED BY <1>4, <2>1 DEF IInv, Attempt, InConnect, AtGreeting, AtVerdict, AtSession, Between
<1> QED BY <1>6, <1>7

LEMMA ExpiredIInv == ASSUME IInv, Expired PROVE IInv'
<1>1. /\ InConnect /\ packet_buf = <<>> /\ AttemptFails /\ revent = NoEvent
      /\ packet_buf' = packet_buf /\ rx' = rx /\ revent' = revent /\ heard' = heard
  BY DEF Expired, serverVars
<1>2. pc' = "sleep"
  BY <1>1 DEF AttemptFails
<1>3. Leftover(packet_buf)
  BY <1>1 DEF Leftover
<1>4. Typed'
  BY <1>1, <1>2 DEF IInv, Typed
<1> QED BY <1>1, <1>2, <1>3, <1>4
        DEF IInv, Attempt, InConnect, AtGreeting, AtVerdict, AtSession, Between

(* Without a connection, and after the last one.                             *)
LEMMA IdleIInv == ASSUME IInv, NoSocket \/ Refused \/ Sleep \/ DisconnectSwitch PROVE IInv'
<1>1. CASE NoSocket \/ Refused \/ Sleep
  <2>1. /\ pc \in {"try", "sleep"} /\ pc' \in {"try", "sleep"} /\ revent' = revent
        /\ packet_buf' = packet_buf /\ rx' = rx /\ heard' = heard
    BY <1>1 DEF NoSocket, Refused, Sleep, AttemptFails, InConnect, serverVars
  <2>2. Typed'
    BY <2>1 DEF IInv, Typed, Receiving
  <2> QED BY <2>1, <2>2
          DEF IInv, Attempt, InConnect, AtGreeting, AtVerdict, AtSession, Between
<1>2. CASE DisconnectSwitch
  <2>1. /\ pc = "close" /\ pc' = "done" /\ revent' = revent /\ packet_buf' = <<>> /\ rx' = rx
    BY <1>2 DEF DisconnectSwitch, serverVars
  <2>2. Typed'
    BY <2>1 DEF IInv, Typed, Receiving
  <2> QED BY <2>1, <2>2
          DEF IInv, Attempt, InConnect, AtGreeting, AtVerdict, AtSession, Between
<1> QED BY <1>1, <1>2

-----------------------------------------------------------------------------
(* The steps of the switch.                                                  *)

LEMMA SwitchSays ==
  ASSUME IInv, UNCHANGED clientVars, rx' \in Seq(Units), AllOwn(rx'),
         InConnect => Line(packet_buf \o rx', peer'),
         pc = "greeting" => Greeted(packet_buf \o rx', revent, peer'),
         pc = "verdict" => Awaited(packet_buf \o rx', revent, peer', heard)
  PROVE  IInv'
<1>1. packet_buf' = packet_buf /\ pc' = pc /\ revent' = revent /\ heard' = heard
  BY DEF clientVars
<1>2. Typed'
  BY <1>1 DEF IInv, Typed, Receiving
<1>3. Attempt'
  BY <1>1 DEF IInv, Attempt, InConnect
<1>4. AtGreeting' /\ AtVerdict' /\ AtSession' /\ Between'
  BY <1>1 DEF IInv, AtGreeting, AtVerdict, AtSession, Between
<1> QED BY <1>2, <1>3, <1>4 DEF IInv

(* What the line is when a message comes behind it.                          *)
LEMMA Behindhand ==
  ASSUME NEW w \in Seq(Units), NEW m \in Seq(Units), AllOwn(m)
  PROVE  /\ AllOwn(w) => AllOwn(w \o m)
         /\ NotBegun(w, "accepted") /\ NotBegun(m, "accepted") => NotBegun(w \o m, "accepted")
         /\ Len(w \o m) = Len(w) + Len(m)
         /\ \A i \in DOMAIN w : i \in DOMAIN (w \o m) /\ (w \o m)[i] = w[i]
<1> DEFINE v == w \o m
<1>1. v \in Seq(Units) /\ Glue(v, w, m)
  BY Joined
<1> HIDE DEF v
<1>2. /\ Len(w) \in Nat /\ Len(m) \in Nat /\ Len(v) = Len(w) + Len(m)
      /\ DOMAIN w = 1 .. Len(w) /\ DOMAIN m = 1 .. Len(m) /\ DOMAIN v = 1 .. Len(w) + Len(m)
  BY <1>1 DEF Glue
<1>3. \A i \in DOMAIN w : i \in DOMAIN v /\ v[i] = w[i]
  BY <1>1, <1>2 DEF Glue
<1>4. ASSUME NEW i \in DOMAIN v, i \notin DOMAIN w
      PROVE  \E j \in DOMAIN m : v[i] = m[j]
  <2>1. PICK j \in DOMAIN m : i = Len(w) + j
    <3>1. i - Len(w) \in 1 .. Len(m) /\ i = Len(w) + (i - Len(w))
      BY <1>2, <1>4
    <3> QED BY <1>2, <3>1
  <2> QED BY <1>1, <1>2, <2>1 DEF Glue
<1>5. AllOwn(w) => AllOwn(v)
  BY <1>3, <1>4 DEF AllOwn
<1>6. NotBegun(w, "accepted") /\ NotBegun(m, "accepted") => NotBegun(v, "accepted")
  BY <1>3, <1>4 DEF NotBegun
<1> QED BY <1>2, <1>3, <1>5, <1>6 DEF v

LEMMA Followed ==
  ASSUME NEW p \in Seq(Units), NEW q \in Seq(Units), AllOwn(q), NEW m \in Seq(Units), AllOwn(m)
  PROVE  /\ q \o m \in Seq(Units) /\ AllOwn(q \o m)
         /\ p \o (q \o m) = (p \o q) \o m
<1>1. q \o m \in Seq(Units) /\ Glue(q \o m, q, m)
  BY Joined
<1>2. (p \o q) \o m = p \o (q \o m)
  BY <1>1, Moved
<1> QED BY <1>1, <1>2, Behindhand

LEMMA EmptyLine ==
  ASSUME NEW m \in Seq(Units)
  PROVE  <<>> \o m = m
OBVIOUS

LEMMA MessageBegins ==
  ASSUME NEW kind \in Kinds
  PROVE  /\ kind # "accepted" => NotBegun(Message(kind), "accepted")
         /\ HeaderAt(Message(kind), 1, kind)
<1>1. /\ Message(kind) \in Seq(Units) /\ Len(Message(kind)) = BodyLength(kind) + 2
      /\ Message(kind)[1] = Unit(kind, 1) /\ Message(kind)[2] = Unit(kind, 2)
  BY MessageUnits
<1>2. BodyLength(kind) \in Nat
  BY ConnectAssumption DEF BodyLength
<1>3. 1 \in DOMAIN Message(kind) /\ 2 \in DOMAIN Message(kind) /\ 1 + 1 = 2
  BY <1>1, <1>2
<1> QED BY <1>1, <1>3, MessageOwn DEF HeaderAt, NotBegun, Begins

LEMMA GreetGreeted ==
  ASSUME NEW w \in Seq(Units), NEW r, Greeted(w, r, "greet"),
         NEW kind \in Kinds, NEW next,
         \/ kind = "greeting" /\ next = "wait"
         \/ kind = "rude" /\ next = "bye"
  PROVE  Greeted(w \o Message(kind), r, next)
<1> DEFINE m == Message(kind)
           n == Len(w)
<1>1. m \in Seq(Units) /\ AllOwn(m) /\ NotBegun(m, "accepted")
  BY MessageUnits, MessageOwn, MessageBegins
<1>2. /\ AllOld(w) /\ NotBegun(w, "accepted")
      /\ r # NoEvent => /\ HasOld(r.packet) /\ (r.kind = "greeting" => r.length = 0)
      /\ r # NoEvent /\ r.kind = "greeting" => AllOwn(w)
  BY DEF Greeted
<1>3. /\ AllOwn(w) => AllOwn(w \o m)
      /\ NotBegun(w \o m, "accepted")
      /\ Len(w \o m) = Len(w) + Len(m)
      /\ \A i \in DOMAIN w : i \in DOMAIN (w \o m) /\ (w \o m)[i] = w[i]
  BY <1>1, <1>2, Behindhand
<1>4. ASSUME kind = "greeting" PROVE EndsGreeting(w \o m)
  <2>1. Len(m) = 2 /\ m[1] = Unit("greeting", 1) /\ m[2] = Unit("greeting", 2)
    BY <1>4, ShortMessage, MessageUnits DEF HasBody
  <2> HIDE DEF m
  <2>2. w \o m \in Seq(Units) /\ Glue(w \o m, w, m)
    BY <1>1, Joined
  <2>3. n \in Nat /\ Len(w \o m) = n + 2 /\ DOMAIN (w \o m) = 1 .. n + 2 /\ DOMAIN w = 1 .. n
    BY <2>1, <2>2 DEF Glue
  <2>4. (w \o m)[n + 1] = m[1] /\ (w \o m)[n + 2] = m[2]
    <3>1. 1 \in 1 .. Len(m) /\ 2 \in 1 .. Len(m)
      BY <2>1
    <3> QED BY <2>2, <3>1 DEF Glue
  <2> HIDE DEF n
  <2>5. Len(w \o m) >= 2 /\ Len(w \o m) - 1 = n + 1 /\ (n + 1) + 1 = n + 2
        /\ n + 1 \in DOMAIN (w \o m) /\ n + 2 \in DOMAIN (w \o m)
    BY <2>3
  <2>6. HeaderAt(w \o m, n + 1, "greeting")
    BY <2>1, <2>4, <2>5 DEF HeaderAt
  <2>7. ASSUME NEW i \in DOMAIN (w \o m), i < n + 1 PROVE ~(w \o m)[i].own
    <3>1. i \in DOMAIN w
      BY <2>3, <2>7
    <3> QED BY <1>2, <1>3, <3>1 DEF AllOld
  <2> QED BY <2>5, <2>6, <2>7 DEF EndsGreeting
<1> HIDE DEF m
<1>5. Greeted(w \o m, r, next)
  BY <1>2, <1>3, <1>4 DEF Greeted
<1> QED BY <1>5 DEF m

LEMMA AnswerAwaited ==
  ASSUME NEW w \in Seq(Units), NEW r, NEW at, NEW h, Awaited(w, r, at, h),
         NEW kind \in Kinds, NEW next,
         \/ at = "greet" /\ kind = "greeting" /\ next = "wait"
         \/ at = "greet" /\ kind = "rude" /\ next = "bye"
         \/ at = "judge" /\ kind = "accepted" /\ next = "wait"
         \/ at = "judge" /\ kind = "refused" /\ next = "bye"
  PROVE  Awaited(w \o Message(kind), r, next, h) /\ (kind = "greeting" => w = <<>>)
<1> DEFINE m == Message(kind)
<1>1. /\ m \in Seq(Units) /\ AllOwn(m) /\ HeaderAt(m, 1, kind)
      /\ kind # "accepted" => NotBegun(m, "accepted")
  BY MessageUnits, MessageOwn, MessageBegins
<1>2. kind = "accepted" => Len(m) = 2
  BY ShortMessage DEF HasBody
<1> HIDE DEF m
<1>3. AllOwn(w)
  BY DEF Awaited
<1>4. /\ AllOwn(w \o m)
      /\ \A i \in DOMAIN w : i \in DOMAIN (w \o m) /\ (w \o m)[i] = w[i]
  BY <1>1, <1>3, Behindhand
<1>5. w = <<>> => w \o m = m
  BY <1>1, EmptyLine
<1>6. CASE at = "greet"
  <2>1. r = NoEvent /\ w = <<>>
    BY <1>6 DEF Awaited, Heard
  <2>2. Heard(m, next, h)
    BY <1>1, <1>6 DEF Heard
  <2> QED BY <1>4, <1>5, <1>6, <2>1, <2>2 DEF Awaited, m
<1>7. CASE at = "judge"
  <2>1. ASSUME r = NoEvent PROVE Heard(w \o m, next, h)
    <3>1. CASE h = <<Said("greeting")>> /\ w = <<>>
      <4>1. Heard(m, next, h)
        BY <1>1, <1>2, <1>7, <3>1 DEF Heard
      <4> QED BY <1>5, <3>1, <4>1
    <3>2. CASE HeaderAt(w, 1, "greeting")
      <4>1. HeaderAt(w \o m, 1, "greeting")
        BY <1>4, <3>2 DEF HeaderAt
      <4> QED BY <1>7, <4>1 DEF Heard
    <3> QED BY <1>7, <2>1, <3>1, <3>2 DEF Awaited, Heard
  <2>2. r # NoEvent => /\ r.length = 0
                       /\ r.kind = "accepted" => /\ h = <<Said("greeting")>>
                                                 /\ Own(r.packet, "accepted")
    BY <1>7 DEF Awaited
  <2> QED BY <1>4, <1>7, <2>1, <2>2 DEF Awaited, m
<1> QED BY <1>6, <1>7

(* The line breaks off, or does not.                                         *)
LEMMA FrontFacts ==
  ASSUME NEW w \in Seq(Units), NEW v \in Seq(Units), Front(v, w)
  PROVE  /\ AllOwn(w) => AllOwn(v)
         /\ NotBegun(w, "accepted") => NotBegun(v, "accepted")
         /\ Len(v) \in Nat /\ Len(w) \in Nat /\ Len(v) <= Len(w)
         /\ \A i \in DOMAIN v : i \in DOMAIN w /\ v[i] = w[i]
<1>1. /\ Len(v) \in Nat /\ Len(w) \in Nat /\ Len(v) <= Len(w)
      /\ DOMAIN v = 1 .. Len(v) /\ DOMAIN w = 1 .. Len(w)
  BY DEF Front
<1>2. \A i \in DOMAIN v : i \in DOMAIN w /\ v[i] = w[i]
  BY <1>1 DEF Front
<1> QED BY <1>1, <1>2 DEF AllOwn, NotBegun

LEMMA FrontBehind ==
  ASSUME NEW p \in Seq(Units), NEW q \in Seq(Units), NEW s \in Seq(Units), Front(q, s)
  PROVE  Front(p \o q, p \o s)
<1>1. p \o q \in Seq(Units) /\ Glue(p \o q, p, q) /\ p \o s \in Seq(Units) /\ Glue(p \o s, p, s)
  BY Joined
<1>2. /\ Len(p) \in Nat /\ Len(q) \in Nat /\ Len(s) \in Nat /\ Len(q) <= Len(s)
      /\ Len(p \o q) = Len(p) + Len(q) /\ Len(p \o s) = Len(p) + Len(s)
  BY <1>1 DEF Glue, Front
<1>3. ASSUME NEW i \in 1 .. Len(p \o q) PROVE (p \o q)[i] = (p \o s)[i]
  <2>1. CASE i \in 1 .. Len(p)
    BY <1>1, <2>1 DEF Glue
  <2>2. CASE i \notin 1 .. Len(p)
    <3>1. PICK j \in 1 .. Len(q) : i = Len(p) + j
      <4>1. i - Len(p) \in 1 .. Len(q) /\ i = Len(p) + (i - Len(p))
        BY <1>2, <2>2
      <4> QED BY <4>1
    <3>2. j \in 1 .. Len(s) /\ q[j] = s[j]
      BY <1>2 DEF Front
    <3>3. (p \o q)[Len(p) + j] = q[j] /\ (p \o s)[Len(p) + j] = s[j]
      BY <1>1, <3>2 DEF Glue
    <3> QED BY <3>1, <3>2, <3>3
  <2> QED BY <2>1, <2>2
<1> QED BY <1>2, <1>3 DEF Front

LEMMA ClosedAwaited ==
  ASSUME NEW w \in Seq(Units), NEW r, NEW at, NEW h, Awaited(w, r, at, h),
         NEW m \in Seq(Units), AllOwn(m), NotBegun(m, "accepted"),
         NEW v \in Seq(Units), Front(v, w \o m)
  PROVE  Awaited(v, r, "closed", h)
<1>1. AllOwn(w)
  BY DEF Awaited
<1>2. w \o m \in Seq(Units) /\ AllOwn(w \o m)
  BY <1>1, Joined, Behindhand
<1>3. /\ AllOwn(v) /\ Len(v) \in Nat
      /\ NotBegun(w \o m, "accepted") => NotBegun(v, "accepted")
      /\ \A i \in DOMAIN v : i \in DOMAIN (w \o m) /\ v[i] = (w \o m)[i]
  BY <1>2, FrontFacts
<1>4. /\ NotBegun(w, "accepted") => NotBegun(w \o m, "accepted")
      /\ \A i \in DOMAIN w : (w \o m)[i] = w[i]
  BY Behindhand
<1>5. ASSUME r = NoEvent PROVE Heard(v, "closed", h)
  <2>1. CASE h = <<Said("greeting")>>
    BY <2>1 DEF Heard
  <2>2. CASE w = <<>>
    <3>1. NotBegun(w, "accepted")
      BY <2>2 DEF NotBegun
    <3> QED BY <1>3, <1>4, <3>1 DEF Heard
  <2>3. CASE HeaderAt(w, 1, "greeting")
    <3>1. 1 \in DOMAIN w /\ 2 \in DOMAIN w /\ w[1] = Unit("greeting", 1) /\ w[2] = Unit("greeting", 2)
      BY <2>3 DEF HeaderAt
    <3>2. (w \o m)[1] = Unit("greeting", 1) /\ (w \o m)[2] = Unit("greeting", 2)
      BY <1>4, <3>1
    <3>3. CASE Len(v) >= 2
      <4>1. 1 \in DOMAIN v /\ 2 \in DOMAIN v /\ 1 + 1 = 2
        BY <3>3
      <4>2. HeaderAt(v, 1, "greeting")
        BY <1>3, <3>2, <4>1 DEF HeaderAt
      <4> QED BY <4>2 DEF Heard
    <3>4. CASE ~(Len(v) >= 2)
      <4>1. \A i \in DOMAIN v : i = 1
        BY <1>3, <3>4
      <4>2. Unit("greeting", 1).kind # "accepted"
        BY DEF Unit
      <4>3. ASSUME NEW i \in DOMAIN v PROVE ~Begins(v[i], "accepted")
        <5>1. v[i] = Unit("greeting", 1)
          BY <1>3, <3>2, <4>1
        <5> QED BY <4>2, <5>1 DEF Begins
      <4>4. NotBegun(v, "accepted")
        BY <4>3 DEF NotBegun
      <4> QED BY <4>4 DEF Heard
    <3> QED BY <3>3, <3>4
  <2>4. CASE NotBegun(w, "accepted")
    BY <1>3, <1>4, <2>4 DEF Heard
  <2> QED BY <1>5, <2>1, <2>2, <2>3, <2>4 DEF Awaited, Heard
<1>6. r # NoEvent => (r.kind = "accepted" => /\ h = <<Said("greeting")>>
                                             /\ Own(r.packet, "accepted"))
  BY DEF Awaited
<1> QED BY <1>3, <1>5, <1>6 DEF Awaited

LEMMA ClosedGreeted ==
  ASSUME NEW w \in Seq(Units), NEW r, NEW at, Greeted(w, r, at),
         NEW m \in Seq(Units), AllOwn(m), NotBegun(m, "accepted"),
         NEW v \in Seq(Units), Front(v, w \o m)
  PROVE  Greeted(v, r, "closed")
<1>1. w \o m \in Seq(Units)
  BY Joined
<1>2. /\ AllOwn(w \o m) => AllOwn(v)
      /\ NotBegun(w \o m, "accepted") => NotBegun(v, "accepted")
  BY <1>1, FrontFacts
<1>3. /\ AllOwn(w) => AllOwn(w \o m)
      /\ NotBegun(w, "accepted") => NotBegun(w \o m, "accepted")
  BY Behindhand
<1> QED BY <1>2, <1>3 DEF Greeted

(* Only a client that is past its attempt is sent more than an answer.       *)
LEMMA InAttempt ==
  ASSUME IInv, InConnect
  PROVE  peer \in {"greet", "wait", "judge", "bye", "closed"}
BY DEF IInv, AtGreeting, AtVerdict, Greeted, Awaited, InConnect

LEMMA MessageLater ==
  ASSUME IInv, UNCHANGED clientVars, ~InConnect, NEW kind \in Kinds, rx' = rx \o Message(kind)
  PROVE  IInv'
<1>1. Message(kind) \in Seq(Units) /\ rx \in Seq(Units)
  BY MessageUnits DEF IInv, Typed
<1>2. rx' \in Seq(Units)
  BY <1>1, Joined
<1>3. /\ packet_buf' = packet_buf /\ pc' = pc /\ revent' = revent /\ heard' = heard
  BY DEF clientVars
<1>4. Typed'
  BY <1>2, <1>3 DEF IInv, Typed, Receiving
<1> QED BY <1>3, <1>4 DEF IInv, Attempt, InConnect, AtGreeting, AtVerdict, AtSession, Between

LEMMA AnswerIInv == ASSUME IInv, SwitchAnswers PROVE IInv'
<1>1. UNCHANGED clientVars
  BY DEF SwitchAnswers
<1>2. packet_buf \in Seq(Units) /\ rx \in Seq(Units) /\ packet_buf \o rx \in Seq(Units)
  BY Joined DEF IInv, Typed
<1>3. CASE SubscribeReply
  <2>1. peer = "reply" /\ rx' = rx \o Message("reply") /\ "reply" \in Kinds
    BY <1>3 DEF SubscribeReply, Sends, Kinds
  <2>2. ~InConnect
    BY <2>1, InAttempt
  <2> QED BY <1>1, <2>1, <2>2, MessageLater
<1>4. CASE Greet \/ Judge
  <2>1. PICK kind \in Kinds :
          /\ rx' = rx \o Message(kind)
          /\ \/ peer = "greet" /\ kind = "greeting" /\ peer' = "wait"
             \/ peer = "greet" /\ kind = "rude" /\ peer' = "bye"
             \/ peer = "judge" /\ kind = "accepted" /\ peer' = "wait"
             \/ peer = "judge" /\ kind = "refused" /\ peer' = "bye"
    BY <1>4 DEF Greet, Judge, Sends, Kinds
  <2>2. CASE ~InConnect
    BY <1>1, <2>1, <2>2, MessageLater
  <2>3. CASE InConnect
    <3>1. PICK m \in Seq(Units) : m = Message(kind) /\ AllOwn(m)
      BY MessageUnits, MessageOwn
    <3>2. AllOwn(rx) /\ Line(packet_buf \o rx, peer)
      BY <2>3 DEF IInv, Attempt
    <3>3. rx' \in Seq(Units) /\ AllOwn(rx') /\ packet_buf \o rx' = (packet_buf \o rx) \o m
      BY <1>2, <2>1, <3>1, <3>2, Followed
    <3>4. pc = "greeting" => /\ Greeted(packet_buf \o rx', revent, peer')
                             /\ AllOld(packet_buf \o rx)
      <4> SUFFICES ASSUME pc = "greeting"
                   PROVE  /\ Greeted(packet_buf \o rx', revent, peer')
                          /\ AllOld(packet_buf \o rx)
        OBVIOUS
      <4>1. Greeted(packet_buf \o rx, revent, peer)
        BY DEF IInv, AtGreeting
      <4>2. peer = "greet"
        BY <2>1, <4>1 DEF Greeted
      <4>3. Greeted(packet_buf \o rx, revent, "greet")
        BY <4>1, <4>2
      <4>4. Greeted((packet_buf \o rx) \o m, revent, peer')
        BY <1>2, <2>1, <3>1, <4>2, <4>3, GreetGreeted
      <4> QED BY <3>3, <4>3, <4>4 DEF Greeted
    <3>5. pc = "verdict" => /\ Awaited(packet_buf \o rx', revent, peer', heard)
                            /\ kind = "greeting" => AllOld(packet_buf \o rx)
      <4> SUFFICES ASSUME pc = "verdict"
                   PROVE  /\ Awaited(packet_buf \o rx', revent, peer', heard)
                          /\ kind = "greeting" => AllOld(packet_buf \o rx)
        OBVIOUS
      <4>1. Awaited(packet_buf \o rx, revent, peer, heard)
        BY DEF IInv, AtVerdict
      <4>2. /\ Awaited((packet_buf \o rx) \o m, revent, peer', heard)
            /\ kind = "greeting" => packet_buf \o rx = <<>>
        BY <1>2, <2>1, <3>1, <4>1, AnswerAwaited
      <4>3. AllOld(<<>>)
        BY DEF AllOld
      <4> QED BY <3>3, <4>2, <4>3
    <3>6. Line(packet_buf \o rx', peer')
      <4>1. kind = "greeting" => AllOld(packet_buf \o rx)
        BY <2>3, <3>4, <3>5 DEF InConnect
      <4>2. peer # "closed"
        BY <2>1
      <4>3. Line((packet_buf \o rx) \o Message(kind), peer')
        BY <1>2, <3>2, <4>1, <4>2, LineAppend
      <4> QED BY <3>1, <3>3, <4>3
    <3> QED BY <1>1, <3>3, <3>4, <3>5, <3>6, SwitchSays
  <2> QED BY <2>2, <2>3
<1> QED BY <1>3, <1>4 DEF SwitchAnswers

LEMMA SendEventIInv == ASSUME IInv, SendEvent PROVE IInv'
<1>1. /\ UNCHANGED clientVars /\ peer \in {"reply", "busy"} /\ rx' = rx \o Message("event")
      /\ "event" \in Kinds
  BY DEF SendEvent, Publish, Sends, Kinds
<1>2. ~InConnect
  BY <1>1, InAttempt
<1> QED BY <1>1, <1>2, MessageLater

LEMMA CloseIInv == ASSUME IInv, Close PROVE IInv'
<1>1. UNCHANGED clientVars /\ peer # "closed" /\ peer' = "closed"
  BY DEF Close, Alive, Sends, BreaksOff
<1>2. packet_buf \in Seq(Units) /\ rx \in Seq(Units) /\ packet_buf \o rx \in Seq(Units)
  BY Joined DEF IInv, Typed
<1>3. PICK m \in {Message("notice"), <<>>} :
        \/ rx' = rx \o m
        \/ \E k \in 0 .. Len(rx \o m) : rx' = SubSeq(rx \o m, 1, k)
  BY DEF Close, Sends, BreaksOff
<1>4. m \in Seq(Units) /\ AllOwn(m) /\ NotBegun(m, "accepted")
  <2>1. CASE m = Message("notice")
    <3>1. "notice" \in Kinds
      BY DEF Kinds
    <3> QED BY <2>1, <3>1, MessageUnits, MessageOwn, MessageBegins
  <2>2. CASE m = <<>>
    BY <2>2 DEF AllOwn, NotBegun
  <2> QED BY <2>1, <2>2
<1>5. rx \o m \in Seq(Units)
  BY <1>2, <1>4, Joined
<1>6. rx' \in Seq(Units) /\ Front(rx', rx \o m)
  <2>1. CASE rx' = rx \o m
    BY <1>5, <2>1 DEF Front
  <2>2. CASE \E k \in 0 .. Len(rx \o m) : rx' = SubSeq(rx \o m, 1, k)
    <3>1. PICK k \in 0 .. Len(rx \o m) : rx' = SubSeq(rx \o m, 1, k)
      BY <2>2
    <3>2. rx' \in Seq(Units) /\ Len(rx') = k /\ \A i \in 1 .. k : rx'[i] = (rx \o m)[i]
      BY <1>5, <3>1, Prefix
    <3>3. Len(rx') <= Len(rx \o m)
      BY <1>5, <3>2
    <3> QED BY <3>2, <3>3 DEF Front
  <2> QED BY <1>3, <2>1, <2>2
<1>7. CASE ~InConnect
  <2>1. /\ packet_buf' = packet_buf /\ pc' = pc /\ revent' = revent /\ heard' = heard
    BY <1>1 DEF clientVars
  <2>2. Typed'
    BY <1>6, <2>1 DEF IInv, Typed, Receiving
  <2> QED BY <1>7, <2>1, <2>2
          DEF IInv, Attempt, InConnect, AtGreeting, AtVerdict, AtSession, Between
<1>8. CASE InConnect
  <2>1. AllOwn(rx) /\ Line(packet_buf \o rx, peer)
    BY <1>8 DEF IInv, Attempt
  <2>2. AllOwn(rx \o m) /\ packet_buf \o (rx \o m) = (packet_buf \o rx) \o m
    BY <1>2, <1>4, <2>1, Followed
  <2>3. AllOwn(rx')
    BY <1>5, <1>6, <2>2, FrontFacts
  <2>4. PICK v \in Seq(Units) : v = packet_buf \o rx' /\ Front(v, (packet_buf \o rx) \o m)
    <3>1. packet_buf \o rx' \in Seq(Units) /\ Front(packet_buf \o rx', packet_buf \o (rx \o m))
      BY <1>2, <1>5, <1>6, Joined, FrontBehind
    <3> QED BY <2>2, <3>1, Zenon
  <2>5. Line((packet_buf \o rx) \o m, "closed")
    <3>1. CASE m = Message("notice")
      <4>1. "notice" \in Kinds /\ "notice" # "greeting"
        BY DEF Kinds
      <4> QED BY <1>1, <1>2, <2>1, <3>1, <4>1, LineAppend
    <3>2. CASE m = <<>>
      <4>1. (packet_buf \o rx) \o <<>> = packet_buf \o rx
        BY <1>2
      <4> QED BY <1>2, <2>1, <3>2, <4>1, LineNext
    <3> QED BY <3>1, <3>2
  <2>6. Line(v, "closed")
    <3>1. (packet_buf \o rx) \o m \in Seq(Units)
      BY <1>2, <1>4, Joined
    <3> QED BY <2>4, <2>5, <3>1, LineBreaks
  <2>7. pc = "greeting" => Greeted(v, revent, "closed")
    BY <1>2, <1>4, <2>4, ClosedGreeted DEF IInv, AtGreeting
  <2>8. pc = "verdict" => Awaited(v, revent, "closed", heard)
    BY <1>2, <1>4, <2>4, ClosedAwaited DEF IInv, AtVerdict
  <2> QED BY <1>1, <1>6, <2>3, <2>4, <2>6, <2>7, <2>8, SwitchSays
<1> QED BY <1>7, <1>8

-----------------------------------------------------------------------------
(* The invariant.                                                            *)

LEMMA InitIInv == ConnectInit => IInv
<1> SUFFICES ASSUME ConnectInit PROVE IInv
  OBVIOUS
<1>1. 0 \in 0 .. BodyUnits /\ <<>> \in Seq(Units)
  BY ConnectAssumption
<1>2. Typed
  BY <1>1 DEF ConnectInit, Typed, NoEvent
<1> QED BY <1>2 DEF ConnectInit, IInv, Attempt, InConnect, AtGreeting, AtVerdict, AtSession,
                    Between, Leftover

LEMMA NextIInv == IInv /\ [ConnectNext]_connectVars => IInv'
<1> SUFFICES ASSUME IInv, [ConnectNext]_connectVars PROVE IInv'
  OBVIOUS
<1>1. CASE Main
  BY <1>1, IdleIInv, ConnectedIInv, FillIInv, LostIInv, ExpiredIInv, ReadHeaderIInv,
     TakeIInv DEF Main
<1>2. CASE SwitchAnswers
  BY <1>2, AnswerIInv
<1>3. CASE SendEvent
  BY <1>3, SendEventIInv
<1>4. CASE Close
  BY <1>4, CloseIInv
<1>5. CASE Change \/ Stops \/ UNCHANGED connectVars
  <2>1. UNCHANGED clientVars /\ peer' = peer /\ rx' = rx
    BY <1>5 DEF Change, Stops, connectVars, serverVars
  <2>2. packet_buf' = packet_buf /\ pc' = pc /\ revent' = revent /\ heard' = heard
    BY <2>1 DEF clientVars
  <2> QED BY <2>1, <2>2 DEF IInv, Typed, Receiving, Attempt, InConnect, AtGreeting, AtVerdict,
                            AtSession, Between
<1> QED BY <1>1, <1>2, <1>3, <1>4, <1>5 DEF ConnectNext

LEMMA Invariance == ConnectSpec => []IInv
<1> QED BY InitIInv, NextIInv, PTL DEF ConnectSpec

(* An attempt that succeeds was greeted and accepted on its own connection   *)
(* (esl.c: 1078-1106 with the buffer of 985).                                *)
THEOREM AttemptJudgedByOwn == ConnectSpec => []VerdictIsOwn
<1>1. IInv => VerdictIsOwn
  BY DEF IInv, AtSession, VerdictIsOwn, Said
<1> QED BY <1>1, Invariance, PTL

(* The client and the switch wait for each other only while the client waits *)
(* for the body of a header in which there is something of an earlier        *)
(* connection (esl.c: 1351-1381).                                            *)
THEOREM StarvedByStale == ConnectSpec => []StarvesOnStale
<1>1. ASSUME IInv, BothWait PROVE StaleHeader
  <2>1. InConnect /\ Lacks /\ rx = <<>> /\ peer = "wait"
    BY <1>1 DEF BothWait
  <2>2. packet_buf \in Seq(Units)
    BY <1>1 DEF IInv, Typed
  <2>3. packet_buf \o rx = packet_buf
    BY <2>1, <2>2
  <2>4. ASSUME NEW i, NEW kind, HeaderAt(packet_buf, i, kind) PROVE revent # NoEvent
    <3>1. i + 1 \in DOMAIN packet_buf /\ packet_buf[i + 1].part = 2
      BY <2>4 DEF HeaderAt, Unit
    <3> QED BY <2>1, <3>1 DEF Lacks, Complete, Ends
  <2>5. ASSUME revent # NoEvent, HasOld(revent.packet) PROVE StaleHeader
    BY <2>5 DEF StaleHeader, HasOld
  <2>6. ASSUME revent # NoEvent PROVE ~(revent.length \in Nat /\ Len(packet_buf) >= revent.length)
    <3>1. Len(packet_buf) < revent.length
      BY <2>1, <2>6 DEF Lacks
    <3> QED BY <2>2, <3>1
  <2>7. CASE pc = "greeting"
    <3>1. Greeted(packet_buf, revent, "wait")
      BY <1>1, <2>1, <2>3, <2>7 DEF IInv, AtGreeting
    <3>2. revent # NoEvent
      BY <2>4, <3>1 DEF Greeted, EndsGreeting
    <3>3. revent.length # 0
      BY <2>2, <2>6, <3>2
    <3> QED BY <2>5, <3>1, <3>2, <3>3 DEF Greeted
  <2>8. CASE pc = "verdict"
    <3>1. Awaited(packet_buf, revent, "wait", heard)
      BY <1>1, <2>1, <2>3, <2>8 DEF IInv, AtVerdict
    <3>2. revent # NoEvent
      BY <2>4, <3>1 DEF Awaited, Heard
    <3>3. revent.length # 0
      BY <2>2, <2>6, <3>2
    <3> QED BY <3>1, <3>2, <3>3 DEF Awaited
  <2> QED BY <2>1, <2>7, <2>8 DEF InConnect
<1>2. IInv => StarvesOnStale
  BY <1>1 DEF StarvesOnStale
<1> QED BY <1>2, Invariance, PTL
=============================================================================
