--------------------------- MODULE PresenceProofs ---------------------------
(***************************************************************************)
(* Theorems about Presence, for any number of sockets and servers, any     *)
(* overlap of collections, crashes and starts: a list that is complete     *)
(* names whom it should.  Redis tells how many servers will answer, and    *)
(* not which; the proof counts what is under way.                          *)
(***************************************************************************)
EXTENDS Presence, SequenceTheorems, FiniteSetTheorems, TLAPS

-----------------------------------------------------------------------------
(***************************************************************************)
(* Inboxes.                                                                *)
(***************************************************************************)
Inboxes == [Server -> Seq(Message)]

\* m is a request of collection c, or a response to it.
Serves(m, c) == m.of = c /\ m.type # "update"

\* The places in the inboxes of what serves c.
Flight(box, c) ==
    UNION {{<<s, i>> : i \in {j \in DOMAIN box[s] : Serves(box[s][j], c)}} : s \in Server}

\* The request of c waits at s.
Requested(box, s, c) ==
    \E i \in DOMAIN box[s] : box[s][i].type = "request" /\ box[s][i].of = c

\* A response to c that names u waits at the server that collects.
Named(box, c, u) ==
    \E i \in DOMAIN box[Home(c)] :
        /\ box[Home(c)][i].type = "response"
        /\ box[Home(c)][i].of = c
        /\ u \in box[Home(c)][i].users

\* The responses to c under way name nobody but users.
NamesOnly(box, c, users) ==
    \A s \in Server : \A i \in DOMAIN box[s] :
        box[s][i].type = "response" /\ box[s][i].of = c => box[s][i].users \subseteq users

LEMMA HomeIsServer ==
    ASSUME NEW c \in Collection
    PROVE  Home(c) \in Server
<1>1. c[1] \in Socket
  BY DEF Collection
<1> QED BY <1>1, SocketAssumption DEF Home

LEMMA FlightPlaces ==
    ASSUME NEW box, NEW c
    PROVE  /\ \A s \in Server : \A i \in DOMAIN box[s] :
                 Serves(box[s][i], c) => <<s, i>> \in Flight(box, c)
           /\ \A p \in Flight(box, c) : \E s \in Server : \E i \in DOMAIN box[s] :
                 p = <<s, i>> /\ Serves(box[s][i], c)
<1>1. ASSUME NEW s \in Server, NEW i \in DOMAIN box[s], Serves(box[s][i], c)
      PROVE  <<s, i>> \in Flight(box, c)
  BY <1>1 DEF Flight
<1>2. ASSUME NEW p \in Flight(box, c)
      PROVE  \E s \in Server : \E i \in DOMAIN box[s] :
                p = <<s, i>> /\ Serves(box[s][i], c)
  BY DEF Flight
<1> QED BY <1>1, <1>2

\* What can be told apart by members of a finite set is finite, and not more.
LEMMA Embedded ==
    ASSUME NEW S, NEW T, IsFiniteSet(T), NEW f \in [S -> T],
           \A x, y \in S : f[x] = f[y] => x = y
    PROVE  /\ IsFiniteSet(S)
           /\ Cardinality(S) \in Nat
           /\ Cardinality(T) \in Nat
           /\ Cardinality(S) <= Cardinality(T)
<1>1. f \in Injection(S, T)
  BY DEF Injection, IsInjective
<1>2. IsFiniteSet(S) /\ Cardinality(S) <= Cardinality(T)
  BY <1>1, FS_Injection
<1> QED BY <1>2, FS_CardinalityType

\* Head and Tail, place by place.
LEMMA Popped ==
    ASSUME NEW S, NEW q \in Seq(S), q # << >>
    PROVE  /\ Tail(q) \in Seq(S)
           /\ 1 \in DOMAIN q
           /\ Head(q) = q[1]
           /\ DOMAIN q \subseteq Nat
           /\ \A i \in DOMAIN Tail(q) : i \in Nat /\ i + 1 \in DOMAIN q /\ Tail(q)[i] = q[i + 1]
           /\ \A i \in DOMAIN q : i # 1 =>
                 \E j \in DOMAIN Tail(q) : i = j + 1 /\ Tail(q)[j] = q[i]
<1>1. /\ Tail(q) \in Seq(S)
      /\ Len(Tail(q)) = Len(q) - 1
      /\ \A i \in 1 .. Len(Tail(q)) : Tail(q)[i] = q[i + 1]
  BY HeadTailProperties
<1>2. /\ Len(q) \in Nat \ {0}
      /\ DOMAIN q = 1 .. Len(q)
      /\ DOMAIN Tail(q) = 1 .. Len(q) - 1
  BY <1>1, LenProperties, EmptySeq
<1>3. Head(q) = q[1]
  OBVIOUS
<1>4. \A i \in DOMAIN Tail(q) : i \in Nat /\ i + 1 \in DOMAIN q /\ Tail(q)[i] = q[i + 1]
  BY <1>1, <1>2
<1>5. ASSUME NEW i \in DOMAIN q, i # 1
      PROVE  \E j \in DOMAIN Tail(q) : i = j + 1 /\ Tail(q)[j] = q[i]
  <2>1. i - 1 \in DOMAIN Tail(q) /\ i = (i - 1) + 1
    BY <1>2, <1>5
  <2> QED BY <1>4, <2>1
<1>6. 1 \in DOMAIN q /\ DOMAIN q \subseteq Nat
  BY <1>2
<1> QED BY <1>1, <1>3, <1>4, <1>5, <1>6

\* Append, place by place.
LEMMA Pushed ==
    ASSUME NEW S, NEW q \in Seq(S), NEW m \in S
    PROVE  /\ Append(q, m) \in Seq(S)
           /\ Len(q) + 1 \in DOMAIN Append(q, m)
           /\ Append(q, m)[Len(q) + 1] = m
           /\ \A i \in DOMAIN q :
                 i # Len(q) + 1 /\ i \in DOMAIN Append(q, m) /\ Append(q, m)[i] = q[i]
           /\ \A i \in DOMAIN Append(q, m) : i = Len(q) + 1 \/ i \in DOMAIN q
<1>1. /\ Append(q, m) \in Seq(S)
      /\ Len(Append(q, m)) = Len(q) + 1
      /\ Append(q, m)[Len(q) + 1] = m
      /\ \A i \in 1 .. Len(q) : Append(q, m)[i] = q[i]
  BY AppendProperties
<1>2. Len(q) \in Nat /\ DOMAIN q = 1 .. Len(q)
  BY LenProperties
<1>3. DOMAIN Append(q, m) = 1 .. Len(q) + 1
  BY <1>1, LenProperties
<1>4. \A i \in 1 .. Len(q) : i # Len(q) + 1 /\ i \in 1 .. Len(q) + 1
  BY <1>2
<1>5. \A i \in 1 .. Len(q) + 1 : i = Len(q) + 1 \/ i \in 1 .. Len(q)
  BY <1>2
<1>6. Len(q) + 1 \in 1 .. Len(q) + 1
  BY <1>2
<1> QED BY <1>1, <1>2, <1>3, <1>4, <1>5, <1>6

-----------------------------------------------------------------------------
(***************************************************************************)
(* Three ways in which inboxes change, and what becomes of a collection.   *)
(***************************************************************************)
\* Messages that do not serve c are added.
Adds(box, new, c) ==
    \A s \in Server :
        \/ new[s] = box[s]
        \/ \E m \in Message : ~ Serves(m, c) /\ new[s] = Append(box[s], m)

\* Nothing that serves c is added, and what serves it is only lost at one server.
LEMMA FlightOfAdds ==
    ASSUME NEW box \in Inboxes, NEW new, NEW c \in Collection, Adds(box, new, c)
    PROVE  /\ Flight(new, c) = Flight(box, c)
           /\ \A s \in Server : Requested(box, s, c) => Requested(new, s, c)
           /\ \A u : Named(box, c, u) => Named(new, c, u)
           /\ \A users : NamesOnly(box, c, users) => NamesOnly(new, c, users)
<1>1. ASSUME NEW s \in Server
      PROVE  /\ \A i \in DOMAIN box[s] : i \in DOMAIN new[s] /\ new[s][i] = box[s][i]
             /\ \A i \in DOMAIN new[s] :
                   \/ i \in DOMAIN box[s] /\ new[s][i] = box[s][i]
                   \/ ~ Serves(new[s][i], c) /\ new[s][i] \in Message
  <2>1. box[s] \in Seq(Message)
    BY DEF Inboxes
  <2> QED BY <2>1, Pushed DEF Adds
<1>2. \A m \in Message : ~ Serves(m, c) => ~ (m.type = "response" /\ m.of = c)
  BY DEF Serves
<1>3. Flight(new, c) = Flight(box, c)
  <2>1. ASSUME NEW p \in Flight(box, c)
        PROVE  p \in Flight(new, c)
    BY <1>1, FlightPlaces
  <2>2. ASSUME NEW p \in Flight(new, c)
        PROVE  p \in Flight(box, c)
    BY <1>1, FlightPlaces
  <2> QED BY <2>1, <2>2
<1>4. \A s \in Server : Requested(box, s, c) => Requested(new, s, c)
  BY <1>1 DEF Requested
<1>5. \A u : Named(box, c, u) => Named(new, c, u)
  BY <1>1, HomeIsServer DEF Named
<1>6. ASSUME NEW users, NamesOnly(box, c, users)
      PROVE  NamesOnly(new, c, users)
  BY <1>1, <1>2, <1>6 DEF NamesOnly
<1> QED BY <1>3, <1>4, <1>5, <1>6

Pop(box, s) == [box EXCEPT ![s] = Tail(@)]

\* The first message of s is taken.
LEMMA FlightOfPop ==
    ASSUME NEW box \in Inboxes, NEW s \in Server, box[s] # << >>,
           NEW c \in Collection, IsFiniteSet(Flight(box, c))
    PROVE  /\ Pop(box, s) \in Inboxes
           /\ IsFiniteSet(Flight(Pop(box, s), c))
           /\ Cardinality(Flight(Pop(box, s), c)) \in Nat
           /\ Cardinality(Flight(box, c)) \in Nat
           /\ Cardinality(Flight(Pop(box, s), c)) <= Cardinality(Flight(box, c))
           /\ Serves(Head(box[s]), c) =>
                 Cardinality(Flight(Pop(box, s), c)) <= Cardinality(Flight(box, c)) - 1
           /\ \A t \in Server : Requested(box, t, c) =>
                 Requested(Pop(box, s), t, c) \/ (t = s /\ Head(box[s]).type = "request"
                                                /\ Head(box[s]).of = c)
           /\ \A u : Named(box, c, u) =>
                 Named(Pop(box, s), c, u) \/ (/\ Head(box[s]).type = "response"
                                      /\ Head(box[s]).of = c
                                      /\ u \in Head(box[s]).users)
           /\ \A users : NamesOnly(box, c, users) => NamesOnly(Pop(box, s), c, users)
<1> DEFINE new == Pop(box, s)
<1>1. /\ box[s] \in Seq(Message)
      /\ new[s] = Tail(box[s])
      /\ \A t \in Server \ {s} : new[t] = box[t]
      /\ new = [t \in Server |-> new[t]]
  BY DEF Inboxes, Pop
<1> HIDE DEF new
<1>2. /\ new[s] \in Seq(Message)
      /\ 1 \in DOMAIN box[s]
      /\ Head(box[s]) = box[s][1]
      /\ \A i \in DOMAIN new[s] :
            i \in Nat /\ i + 1 \in DOMAIN box[s] /\ new[s][i] = box[s][i + 1]
      /\ \A i \in DOMAIN box[s] : i # 1 =>
            \E j \in DOMAIN new[s] : i = j + 1 /\ new[s][j] = box[s][i]
  <2>1. PICK q \in Seq(Message) : q = box[s]
    BY <1>1
  <2>2. q # << >>
    BY <2>1
  <2>3. /\ Tail(q) \in Seq(Message)
        /\ 1 \in DOMAIN q
        /\ Head(q) = q[1]
        /\ \A i \in DOMAIN Tail(q) :
              i \in Nat /\ i + 1 \in DOMAIN q /\ Tail(q)[i] = q[i + 1]
        /\ \A i \in DOMAIN q : i # 1 =>
              \E j \in DOMAIN Tail(q) : i = j + 1 /\ Tail(q)[j] = q[i]
    BY <2>2, Popped
  <2>4. new[s] = Tail(q)
    BY <1>1, <2>1
  <2>5. /\ \A i \in DOMAIN new[s] :
              i \in Nat /\ i + 1 \in DOMAIN box[s] /\ new[s][i] = box[s][i + 1]
        /\ \A i \in DOMAIN box[s] : i # 1 =>
              \E j \in DOMAIN new[s] : i = j + 1 /\ new[s][j] = box[s][i]
    BY <2>1, <2>3, <2>4
  <2> QED BY <2>1, <2>3, <2>4, <2>5
<1>3. new \in Inboxes
  BY <1>1, <1>2 DEF Inboxes
<1>4. \A t \in Server : \A i \in DOMAIN box[t] :
         \/ t = s /\ i = 1
         \/ \E j \in DOMAIN new[t] : new[t][j] = box[t][i]
  BY <1>1, <1>2
<1>5. \A t \in Server : \A i \in DOMAIN new[t] :
         \E j \in DOMAIN box[t] : new[t][i] = box[t][j]
  <2>1. \A i \in DOMAIN new[s] : \E j \in DOMAIN box[s] : new[s][i] = box[s][j]
    BY <1>2
  <2>2. \A t \in Server \ {s} : \A i \in DOMAIN new[t] :
           \E j \in DOMAIN box[t] : new[t][i] = box[t][j]
    BY <1>1
  <2> QED BY <2>1, <2>2
<1>6. /\ IsFiniteSet(Flight(new, c))
      /\ Cardinality(Flight(new, c)) \in Nat
      /\ Cardinality(Flight(box, c)) \in Nat
      /\ Cardinality(Flight(new, c)) <= Cardinality(Flight(box, c))
      /\ Serves(Head(box[s]), c) =>
            Cardinality(Flight(new, c)) <= Cardinality(Flight(box, c)) - 1
  <2> DEFINE first == <<s, 1>>
             T == Flight(box, c) \ {first}
             f == [p \in Flight(new, c) |-> IF p[1] = s THEN <<s, p[2] + 1>> ELSE p]
  <2>1. ASSUME NEW p \in Flight(new, c)
        PROVE  /\ f[p] \in T
               /\ \E t \in Server : \E i : p = <<t, i>> /\ (t = s => i \in Nat)
    <3>a. PICK t \in Server : \E i \in DOMAIN new[t] :
             p = <<t, i>> /\ Serves(new[t][i], c)
      BY FlightPlaces
    <3>1. PICK i \in DOMAIN new[t] : p = <<t, i>> /\ Serves(new[t][i], c)
      BY <3>a
    <3>2. CASE t = s
      <4>1. i \in Nat /\ i + 1 \in DOMAIN box[s] /\ Serves(box[s][i + 1], c)
        BY <1>2, <3>1, <3>2
      <4>2. <<s, i + 1>> \in Flight(box, c)
        BY <4>1, FlightPlaces
      <4>3. f[p] = <<s, i + 1>>
        <5>1. p[1] = s /\ p[2] = i
          BY <3>1, <3>2
        <5>2. f[p] = <<s, p[2] + 1>>
          BY <5>1
        <5> QED BY <5>1, <5>2
      <4>4. i + 1 # 1
        BY <1>2, <3>2
      <4> QED BY <3>1, <3>2, <4>1, <4>2, <4>3, <4>4
    <3>3. CASE t # s
      <4>1. i \in DOMAIN box[t] /\ Serves(box[t][i], c)
        BY <1>1, <3>1, <3>3
      <4>2. p \in Flight(box, c)
        BY <3>1, <4>1, FlightPlaces
      <4> QED BY <3>1, <3>3, <4>2
    <3> QED BY <3>2, <3>3
  <2>2. ASSUME NEW p \in Flight(new, c), NEW q \in Flight(new, c), f[p] = f[q]
        PROVE  p = q
    <3>a. PICK t \in Server : \E i : p = <<t, i>> /\ (t = s => i \in Nat)
      BY <2>1
    <3>1. PICK i : p = <<t, i>> /\ (t = s => i \in Nat)
      BY <3>a
    <3>b. PICK v \in Server : \E j : q = <<v, j>> /\ (v = s => j \in Nat)
      BY <2>1
    <3>2. PICK j : q = <<v, j>> /\ (v = s => j \in Nat)
      BY <3>b
    <3>3. /\ f[p] = IF t = s THEN <<s, i + 1>> ELSE <<t, i>>
          /\ f[q] = IF v = s THEN <<s, j + 1>> ELSE <<v, j>>
      BY <3>1, <3>2
    <3>4. t = v
      BY <2>2, <3>3
    <3>5. i = j
      BY <2>2, <3>1, <3>2, <3>3, <3>4
    <3> QED BY <3>1, <3>2, <3>4, <3>5
  <2>3. f \in [Flight(new, c) -> T]
    BY <2>1
  <2>4. /\ IsFiniteSet(T)
        /\ Cardinality(T) = IF first \in Flight(box, c)
                            THEN Cardinality(Flight(box, c)) - 1
                            ELSE Cardinality(Flight(box, c))
    BY FS_RemoveElement
  <2>5. Cardinality(Flight(box, c)) \in Nat
    BY FS_CardinalityType
  <2>6. Serves(Head(box[s]), c) => first \in Flight(box, c)
    BY <1>2, FlightPlaces
  <2> HIDE DEF f, T, first
  <2>7. /\ IsFiniteSet(Flight(new, c))
        /\ Cardinality(Flight(new, c)) \in Nat
        /\ Cardinality(Flight(new, c)) <= Cardinality(T)
    BY <2>2, <2>3, <2>4, Embedded
  <2> QED BY <2>4, <2>5, <2>6, <2>7
<1>7. ASSUME NEW t \in Server, Requested(box, t, c)
      PROVE  Requested(new, t, c) \/ (t = s /\ Head(box[s]).type = "request"
                                            /\ Head(box[s]).of = c)
  BY <1>2, <1>4, <1>7 DEF Requested
<1>8. ASSUME NEW u, Named(box, c, u)
      PROVE  Named(new, c, u) \/ (/\ Head(box[s]).type = "response"
                                  /\ Head(box[s]).of = c
                                  /\ u \in Head(box[s]).users)
  BY <1>2, <1>4, <1>8, HomeIsServer DEF Named
<1>9. \A users : NamesOnly(box, c, users) => NamesOnly(new, c, users)
  BY <1>5 DEF NamesOnly
<1> QED BY <1>3, <1>6, <1>7, <1>8, <1>9 DEF new

Push(box, s, m) == [box EXCEPT ![s] = Append(@, m)]

\* A request is taken, and answered to the server that collects.
LEMMA FlightOfReply ==
    ASSUME NEW box \in Inboxes, NEW s \in Server, box[s] # << >>,
           NEW c \in Collection, IsFiniteSet(Flight(box, c)),
           NEW d \in Collection, Head(box[s]).type = "request", Head(box[s]).of = d,
           NEW m \in Message, m.type = "response", m.of = d,
           NEW new, new = Push(Pop(box, s), Home(d), m)
    PROVE  /\ new \in Inboxes
           /\ IsFiniteSet(Flight(new, c))
           /\ Cardinality(Flight(new, c)) \in Nat
           /\ Cardinality(Flight(box, c)) \in Nat
           /\ Cardinality(Flight(new, c)) <= Cardinality(Flight(box, c))
           /\ \A t \in Server : Requested(box, t, c) =>
                 Requested(new, t, c) \/ (t = s /\ c = d)
           /\ \A u : Named(box, c, u) => Named(new, c, u)
           /\ \A u \in m.users : Named(new, d, u)
           /\ \A users : NamesOnly(box, c, users) /\ (c = d => m.users \subseteq users) =>
                 NamesOnly(new, c, users)
<1> DEFINE h == Home(d)
           rest == Pop(box, s)
<1>0. new = Push(rest, h, m)
  OBVIOUS
<1>1. h \in Server
  BY HomeIsServer
<1>2. /\ rest \in Inboxes
      /\ IsFiniteSet(Flight(rest, c))
      /\ Cardinality(Flight(rest, c)) \in Nat
      /\ Cardinality(Flight(box, c)) \in Nat
      /\ Cardinality(Flight(rest, c)) <= Cardinality(Flight(box, c))
      /\ c = d => Cardinality(Flight(rest, c)) <= Cardinality(Flight(box, c)) - 1
      /\ \A t \in Server : Requested(box, t, c) =>
            Requested(rest, t, c) \/ (t = s /\ c = d)
      /\ \A u : Named(box, c, u) => Named(rest, c, u)
      /\ \A users : NamesOnly(box, c, users) => NamesOnly(rest, c, users)
  <2>1. c = d => Serves(Head(box[s]), c)
    BY DEF Serves
  <2>2. /\ rest \in Inboxes
        /\ IsFiniteSet(Flight(rest, c))
        /\ Cardinality(Flight(rest, c)) \in Nat
        /\ Cardinality(Flight(box, c)) \in Nat
        /\ Cardinality(Flight(rest, c)) <= Cardinality(Flight(box, c))
        /\ Serves(Head(box[s]), c) =>
              Cardinality(Flight(rest, c)) <= Cardinality(Flight(box, c)) - 1
    BY FlightOfPop
  <2>3. /\ \A t \in Server : Requested(box, t, c) =>
              Requested(rest, t, c) \/ (t = s /\ Head(box[s]).of = c)
        /\ \A u : Named(box, c, u) =>
              Named(rest, c, u) \/ Head(box[s]).type = "response"
        /\ \A users : NamesOnly(box, c, users) => NamesOnly(rest, c, users)
    BY FlightOfPop
  <2> QED BY <2>1, <2>2, <2>3
<1> HIDE DEF rest, h
<1>3. /\ rest[h] \in Seq(Message)
      /\ new[h] = Append(rest[h], m)
      /\ \A t \in Server \ {h} : new[t] = rest[t]
      /\ new = [t \in Server |-> new[t]]
  BY <1>0, <1>1, <1>2 DEF Inboxes, Push
<1>4. /\ new[h] \in Seq(Message)
      /\ Len(rest[h]) + 1 \in DOMAIN new[h]
      /\ new[h][Len(rest[h]) + 1] = m
      /\ \A i \in DOMAIN rest[h] : i \in DOMAIN new[h] /\ new[h][i] = rest[h][i]
      /\ \A i \in DOMAIN new[h] : i = Len(rest[h]) + 1 \/ i \in DOMAIN rest[h]
  <2>1. PICK q \in Seq(Message) : q = rest[h]
    BY <1>3
  <2>2. /\ Append(q, m) \in Seq(Message)
        /\ Len(q) + 1 \in DOMAIN Append(q, m)
        /\ Append(q, m)[Len(q) + 1] = m
        /\ \A i \in DOMAIN q : i \in DOMAIN Append(q, m) /\ Append(q, m)[i] = q[i]
        /\ \A i \in DOMAIN Append(q, m) : i = Len(q) + 1 \/ i \in DOMAIN q
    BY Pushed
  <2>3. new[h] = Append(q, m)
    BY <1>3, <2>1
  <2> QED BY <2>1, <2>2, <2>3
<1>5. new \in Inboxes
  BY <1>1, <1>2, <1>3, <1>4 DEF Inboxes
<1>6. \A u \in m.users : Named(new, d, u)
  BY <1>4 DEF Named, h
<1>7. CASE c # d
  <2>1. Adds(rest, new, c)
    BY <1>3, <1>7 DEF Adds, Serves
  <2>2. /\ Flight(new, c) = Flight(rest, c)
        /\ \A t \in Server : Requested(rest, t, c) => Requested(new, t, c)
        /\ \A u : Named(rest, c, u) => Named(new, c, u)
        /\ \A users : NamesOnly(rest, c, users) => NamesOnly(new, c, users)
    BY <1>2, <2>1, FlightOfAdds
  <2> QED BY <1>2, <1>5, <1>6, <1>7, <2>2
<1>8. CASE c = d
  <2>1. \A t \in Server : \A i \in DOMAIN rest[t] :
           i \in DOMAIN new[t] /\ new[t][i] = rest[t][i]
    BY <1>3, <1>4
  <2>2. \A t \in Server : \A i \in DOMAIN new[t] :
           \/ i \in DOMAIN rest[t] /\ new[t][i] = rest[t][i]
           \/ t = h /\ i = Len(rest[h]) + 1 /\ new[t][i] = m
    BY <1>3, <1>4
  <2>3. Flight(new, c) \subseteq Flight(rest, c) \cup {<<h, Len(rest[h]) + 1>>}
    <3>1. ASSUME NEW p \in Flight(new, c)
          PROVE  p \in Flight(rest, c) \/ p = <<h, Len(rest[h]) + 1>>
      <4>a. PICK t \in Server : \E i \in DOMAIN new[t] :
               p = <<t, i>> /\ Serves(new[t][i], c)
        BY FlightPlaces
      <4>1. PICK i \in DOMAIN new[t] : p = <<t, i>> /\ Serves(new[t][i], c)
        BY <4>a
      <4> QED BY <2>2, <4>1, FlightPlaces
    <3> QED BY <3>1
  <2>4. /\ IsFiniteSet(Flight(new, c))
        /\ Cardinality(Flight(new, c)) \in Nat
        /\ Cardinality(Flight(new, c)) <= Cardinality(Flight(rest, c)) + 1
    <3>1. PICK x : x = <<h, Len(rest[h]) + 1>>
      OBVIOUS
    <3>2. PICK S : S = Flight(rest, c)
      OBVIOUS
    <3>3. IsFiniteSet(S) /\ Cardinality(S) \in Nat /\ Flight(new, c) \in SUBSET (S \cup {x})
      BY <1>2, <2>3, <3>1, <3>2
    <3>4. /\ IsFiniteSet(S \cup {x})
          /\ Cardinality(S \cup {x}) =
                IF x \in S THEN Cardinality(S) ELSE Cardinality(S) + 1
      BY <3>3, FS_AddElement
    <3>5. /\ IsFiniteSet(Flight(new, c))
          /\ Cardinality(Flight(new, c)) <= Cardinality(S \cup {x})
      BY <3>3, <3>4, FS_Subset
    <3>6. Cardinality(Flight(new, c)) \in Nat /\ Cardinality(S \cup {x}) \in Nat
      BY <3>4, <3>5, FS_CardinalityType
    <3> QED BY <3>2, <3>3, <3>4, <3>5, <3>6
  <2>7. Cardinality(Flight(new, c)) <= Cardinality(Flight(box, c))
    BY <1>2, <1>8, <2>4
  <2>8. \A t \in Server : Requested(rest, t, c) => Requested(new, t, c)
    BY <2>1 DEF Requested
  <2>9. \A u : Named(rest, c, u) => Named(new, c, u)
    <3>1. \A i \in DOMAIN rest[Home(c)] :
             i \in DOMAIN new[Home(c)] /\ new[Home(c)][i] = rest[Home(c)][i]
      BY <2>1, HomeIsServer
    <3> QED BY <3>1 DEF Named
  <2>10. ASSUME NEW users, NamesOnly(rest, c, users), m.users \subseteq users
         PROVE  NamesOnly(new, c, users)
    BY <2>2, <2>10 DEF NamesOnly
  <2> QED BY <1>2, <1>5, <1>6, <1>8, <2>4, <2>7, <2>8, <2>9, <2>10
<1> QED BY <1>7, <1>8

\* The request of d goes to the servers of U.
Sent(box, U, d) ==
    [s \in Server |-> IF s \in U THEN Append(box[s], [type |-> "request", of |-> d])
                      ELSE box[s]]

LEMMA FlightOfAsk ==
    ASSUME NEW box \in Inboxes, NEW U, U \subseteq Server, IsFiniteSet(U),
           NEW c \in Collection, Flight(box, c) = {},
           NEW new, new = Sent(box, U, c)
    PROVE  /\ IsFiniteSet(Flight(new, c))
           /\ Cardinality(Flight(new, c)) \in Nat
           /\ Cardinality(U) \in Nat
           /\ Cardinality(Flight(new, c)) <= Cardinality(U)
           /\ \A s \in U : Requested(new, s, c)
           /\ \A users : NamesOnly(new, c, users)
<1> DEFINE m == [type |-> "request", of |-> c]
<1>1. m \in Message /\ m.type = "request" /\ m.of = c
  BY DEF Message
<1>2. /\ \A s \in Server : s \in U => new[s] = Append(box[s], m)
      /\ \A s \in Server : s \notin U => new[s] = box[s]
  BY DEF Sent
<1> HIDE DEF m
<1>3. ASSUME NEW s \in Server
      PROVE  \A i \in DOMAIN box[s] : ~ Serves(box[s][i], c)
  BY FlightPlaces
<1>4. ASSUME NEW s \in Server, s \in U
      PROVE  /\ Len(box[s]) + 1 \in DOMAIN new[s]
             /\ new[s][Len(box[s]) + 1] = m
             /\ \A i \in DOMAIN new[s] :
                   \/ i = Len(box[s]) + 1
                   \/ i \in DOMAIN box[s] /\ new[s][i] = box[s][i]
  <2>1. PICK q \in Seq(Message) : q = box[s]
    BY DEF Inboxes
  <2>2. /\ Len(q) + 1 \in DOMAIN Append(q, m)
        /\ Append(q, m)[Len(q) + 1] = m
        /\ \A i \in DOMAIN q : Append(q, m)[i] = q[i]
        /\ \A i \in DOMAIN Append(q, m) : i = Len(q) + 1 \/ i \in DOMAIN q
    BY <1>1, Pushed
  <2>3. new[s] = Append(q, m)
    BY <1>2, <1>4, <2>1
  <2> QED BY <2>1, <2>2, <2>3
<1>5. ASSUME NEW s \in Server, NEW i \in DOMAIN new[s], Serves(new[s][i], c)
      PROVE  s \in U /\ i = Len(box[s]) + 1
  BY <1>2, <1>3, <1>4, <1>5
<1>6. \A s \in U : Requested(new, s, c)
  <2>1. ASSUME NEW s \in U
        PROVE  Requested(new, s, c)
    BY <1>1, <1>4 DEF Requested
  <2> QED BY <2>1
<1>7. ASSUME NEW users
      PROVE  NamesOnly(new, c, users)
  <2>1. ASSUME NEW s \in Server, NEW i \in DOMAIN new[s],
               new[s][i].type = "response", new[s][i].of = c
        PROVE  FALSE
    <3>1. Serves(new[s][i], c)
      BY <2>1 DEF Serves
    <3>2. new[s][i] = m
      BY <1>4, <1>5, <3>1
    <3> QED BY <1>1, <2>1, <3>2
  <2> QED BY <2>1 DEF NamesOnly
<1>8. /\ IsFiniteSet(Flight(new, c))
      /\ Cardinality(Flight(new, c)) \in Nat
      /\ Cardinality(U) \in Nat
      /\ Cardinality(Flight(new, c)) <= Cardinality(U)
  <2> DEFINE f == [p \in Flight(new, c) |-> p[1]]
  <2>1. ASSUME NEW p \in Flight(new, c)
        PROVE  f[p] \in U /\ p = <<f[p], Len(box[f[p]]) + 1>>
    <3>a. PICK s \in Server : \E i \in DOMAIN new[s] :
             p = <<s, i>> /\ Serves(new[s][i], c)
      BY FlightPlaces
    <3>1. PICK i \in DOMAIN new[s] : p = <<s, i>> /\ Serves(new[s][i], c)
      BY <3>a
    <3>2. f[p] = s
      BY <3>1
    <3> QED BY <1>5, <3>1, <3>2
  <2>2. f \in [Flight(new, c) -> U]
    BY <2>1
  <2>3. \A p, q \in Flight(new, c) : f[p] = f[q] => p = q
    BY <2>1
  <2> HIDE DEF f
  <2> QED BY <2>2, <2>3, Embedded
<1> QED BY <1>6, <1>7, <1>8

\* The inbox of s is lost.
LEMMA FlightOfLoss ==
    ASSUME NEW box \in Inboxes, NEW s \in Server, NEW c \in Collection,
           IsFiniteSet(Flight(box, c)),
           NEW new, new = [box EXCEPT ![s] = << >>]
    PROVE  /\ IsFiniteSet(Flight(new, c))
           /\ Cardinality(Flight(new, c)) \in Nat
           /\ Cardinality(Flight(box, c)) \in Nat
           /\ Cardinality(Flight(new, c)) <= Cardinality(Flight(box, c))
           /\ \A t \in Server \ {s} : Requested(box, t, c) => Requested(new, t, c)
           /\ \A u : Home(c) # s /\ Named(box, c, u) => Named(new, c, u)
           /\ \A users : NamesOnly(box, c, users) => NamesOnly(new, c, users)
<1>1. /\ \A t \in Server \ {s} : new[t] = box[t]
      /\ \A i \in DOMAIN new[s] : FALSE
  BY DEF Inboxes
<1>2. Flight(new, c) \in SUBSET Flight(box, c)
  <2>1. ASSUME NEW p \in Flight(new, c)
        PROVE  p \in Flight(box, c)
    <3>a. PICK t \in Server : \E i \in DOMAIN new[t] :
             p = <<t, i>> /\ Serves(new[t][i], c)
      BY FlightPlaces
    <3>1. t # s
      BY <1>1, <3>a
    <3> QED BY <1>1, <3>a, <3>1, FlightPlaces
  <2> QED BY <2>1
<1>3. /\ IsFiniteSet(Flight(new, c))
      /\ Cardinality(Flight(new, c)) <= Cardinality(Flight(box, c))
  BY <1>2, FS_Subset
<1>4. Cardinality(Flight(new, c)) \in Nat /\ Cardinality(Flight(box, c)) \in Nat
  BY <1>3, FS_CardinalityType
<1>5. \A t \in Server \ {s} : Requested(box, t, c) => Requested(new, t, c)
  BY <1>1 DEF Requested
<1>6. \A u : Home(c) # s /\ Named(box, c, u) => Named(new, c, u)
  BY <1>1, HomeIsServer DEF Named
<1>7. \A users : NamesOnly(box, c, users) => NamesOnly(new, c, users)
  BY <1>1 DEF NamesOnly
<1> QED BY <1>3, <1>4, <1>5, <1>6, <1>7

-----------------------------------------------------------------------------
(***************************************************************************)
(* The invariant.                                                          *)
(***************************************************************************)
\* A socket that has not joined collects nothing, and one in the room is on a
\* server that runs.
Begun(k) ==
    /\ conn[k] \in {"away", "connecting", "dropped"} => phase[<<k, "join">>] = "none"
    /\ conn[k] # "gone" => phase[<<k, "leave">>] = "none"
    /\ conn[k] = "joined" => ServerOf[k] \in up

\* The ghosts of a collection fit the room.
RoomFits(c) ==
    Active(c) => Home(c) \in up /\ stayed[c] \subseteq Present /\ Present \subseteq passed[c]

\* Before it asks, nothing serves it.
IdleFits(c) ==
    phase[c] \in {"none", "asking", "counted"} =>
        Flight(inbox, c) = {} /\ count[c] = 0 /\ found[c] = {}

\* As many as it counted will hear its request.
CountFits(c) ==
    phase[c] = "counted" =>
        numsub[c] > 0 /\ (c \notin spoiled => Cardinality(up) <= numsub[c])

\* What it waits for is under way: so many requests and responses, which name or
\* will name whoever has stayed, and nobody else.
GatheringFits(c) ==
    phase[c] = "gathering" =>
        /\ count[c] < numsub[c]
        /\ c \notin spoiled => count[c] + Cardinality(Flight(inbox, c)) <= numsub[c]
        /\ \A k \in stayed[c] :
              \/ UserOf[k] \in found[c]
              \/ Requested(inbox, ServerOf[k], c)
              \/ Named(inbox, c, UserOf[k])
        /\ NamesOnly(inbox, c, UsersOf(passed[c]))
        /\ found[c] \subseteq UsersOf(passed[c])

CompleteFits(c) ==
    phase[c] = "complete" /\ c \notin spoiled =>
        /\ UsersOf(stayed[c]) \subseteq found[c]
        /\ found[c] \subseteq UsersOf(passed[c])

Fits(c) ==
    /\ IsFiniteSet(Flight(inbox, c))
    /\ RoomFits(c)
    /\ IdleFits(c)
    /\ CountFits(c)
    /\ GatheringFits(c)
    /\ CompleteFits(c)

PresenceInv ==
    /\ TypeOK
    /\ \A k \in Socket : Begun(k)
    /\ \A c \in Collection : Fits(c)

(***************************************************************************)
(* A step that does not advance collection c keeps what fits it.           *)
(***************************************************************************)
Unmoved(c) ==
    /\ phase'[c] = phase[c]
    /\ numsub'[c] = numsub[c]
    /\ count'[c] = count[c]
    /\ found'[c] = found[c]

RoomKept(c) ==
    /\ Active(c) =>
          /\ Home(c) \in up'
          /\ stayed'[c] \subseteq stayed[c]
          /\ stayed'[c] \subseteq Present'
          /\ passed[c] \subseteq passed'[c]
          /\ Present' \subseteq passed'[c]
    /\ c \in spoiled => c \in spoiled'
    /\ phase[c] = "counted" /\ c \notin spoiled' => Cardinality(up') <= Cardinality(up)

FlightKept(c) ==
    /\ IsFiniteSet(Flight(inbox', c))
    /\ Cardinality(Flight(inbox', c)) \in Nat
    /\ Cardinality(Flight(inbox, c)) \in Nat
    /\ Cardinality(Flight(inbox', c)) <= Cardinality(Flight(inbox, c))

AnswersKept(c) ==
    phase[c] = "gathering" =>
        /\ \A k \in stayed'[c] :
              Requested(inbox, ServerOf[k], c) =>
                  Requested(inbox', ServerOf[k], c) \/ Named(inbox', c, UserOf[k])
        /\ \A u : Named(inbox, c, u) => Named(inbox', c, u)
        /\ NamesOnly(inbox', c, UsersOf(passed'[c]))

LEMMA NoneIsEmpty ==
    ASSUME NEW S, IsFiniteSet(S)
    PROVE  /\ Cardinality(S) = 0 <=> S = {}
           /\ Cardinality(S) <= 0 <=> S = {}
<1>1. Cardinality(S) = 0 <=> S = {}
  BY FS_EmptySet
<1>2. Cardinality(S) \in Nat
  BY FS_CardinalityType
<1> QED BY <1>1, <1>2

LEMMA FitsKept ==
    ASSUME PresenceInv, NEW c \in Collection,
           Unmoved(c), RoomKept(c), FlightKept(c), AnswersKept(c),
           up' \subseteq Server
    PROVE  Fits(c)'
<1>1. Fits(c)
  BY DEF PresenceInv
<1>2. /\ numsub[c] \in Nat
      /\ count[c] \in Nat
      /\ stayed[c] \subseteq Socket
      /\ up \subseteq Server
  <2>1. Cardinality(Server) \in Nat
    BY SocketAssumption, FS_CardinalityType
  <2> QED BY <2>1 DEF PresenceInv, TypeOK
<1>3. Cardinality(up') \in Nat /\ Cardinality(up) \in Nat
  BY <1>2, SocketAssumption, FS_Subset, FS_CardinalityType
<1>4. Active(c)' = Active(c)
  BY DEF Unmoved, Active
<1>5. IsFiniteSet(Flight(inbox, c))'
  BY DEF FlightKept
<1>6. RoomFits(c)'
  BY <1>1, <1>4 DEF Fits, RoomFits, RoomKept, Home
<1>7. IdleFits(c)'
  <2>1. ASSUME Flight(inbox, c) = {}
        PROVE  Flight(inbox', c) = {}
    BY <2>1, NoneIsEmpty, FS_EmptySet DEF FlightKept
  <2> QED BY <1>1, <2>1 DEF Fits, IdleFits, Unmoved
<1>8. CountFits(c)'
  BY <1>1, <1>2, <1>3 DEF Fits, CountFits, Unmoved, RoomKept
<1>9. GatheringFits(c)'
  <2> SUFFICES ASSUME phase'[c] = "gathering"
               PROVE  GatheringFits(c)'
    BY DEF GatheringFits
  <2>1. phase[c] = "gathering" /\ Active(c)
    BY DEF Unmoved, Active, ActivePhase
  <2>2. /\ count[c] < numsub[c]
        /\ c \notin spoiled => count[c] + Cardinality(Flight(inbox, c)) <= numsub[c]
        /\ \A k \in stayed[c] :
              \/ UserOf[k] \in found[c]
              \/ Requested(inbox, ServerOf[k], c)
              \/ Named(inbox, c, UserOf[k])
        /\ found[c] \subseteq UsersOf(passed[c])
    BY <1>1, <2>1 DEF Fits, GatheringFits
  <2>3. /\ count'[c] < numsub'[c]
        /\ c \notin spoiled' => count'[c] + Cardinality(Flight(inbox', c)) <= numsub'[c]
    BY <1>2, <2>2 DEF Unmoved, RoomKept, FlightKept
  <2>4. \A k \in stayed'[c] :
           \/ UserOf[k] \in found'[c]
           \/ Requested(inbox', ServerOf[k], c)
           \/ Named(inbox', c, UserOf[k])
    BY <2>1, <2>2 DEF Unmoved, RoomKept, AnswersKept
  <2>5. found'[c] \subseteq UsersOf(passed'[c])
    BY <2>1, <2>2 DEF Unmoved, RoomKept, UsersOf
  <2> QED BY <2>1, <2>3, <2>4, <2>5 DEF GatheringFits, AnswersKept
<1>10. CompleteFits(c)'
  BY <1>1 DEF Fits, CompleteFits, Unmoved, RoomKept, Active, ActivePhase, UsersOf
<1> QED BY <1>5, <1>6, <1>7, <1>8, <1>9, <1>10 DEF Fits

LEMMA Widened ==
    ASSUME NEW box, NEW c, NEW users, NEW more, NamesOnly(box, c, users), users \subseteq more
    PROVE  NamesOnly(box, c, more)
BY DEF NamesOnly

\* The facts about a gathering collection which the lemmas below start from.
LEMMA Gathering ==
    ASSUME PresenceInv, NEW c \in Collection, phase[c] = "gathering", RoomKept(c)
    PROVE  /\ Active(c)
           /\ NamesOnly(inbox, c, UsersOf(passed[c]))
           /\ UsersOf(passed[c]) \subseteq UsersOf(passed'[c])
           /\ \A k \in stayed'[c] : k \in Socket /\ conn'[k] = "joined"
<1>1. Active(c)
  BY DEF Active, ActivePhase
<1>2. NamesOnly(inbox, c, UsersOf(passed[c]))
  BY DEF PresenceInv, Fits, GatheringFits
<1>3. UsersOf(passed[c]) \subseteq UsersOf(passed'[c])
  BY <1>1 DEF RoomKept, UsersOf
<1>4. \A k \in stayed'[c] : k \in Socket /\ conn'[k] = "joined"
  BY <1>1 DEF RoomKept, Present
<1> QED BY <1>1, <1>2, <1>3, <1>4

\* What was added to the inboxes serves other collections.
LEMMA MailAdded ==
    ASSUME PresenceInv, NEW c \in Collection, RoomKept(c), Adds(inbox, inbox', c)
    PROVE  FlightKept(c) /\ AnswersKept(c)
<1>1. inbox \in Inboxes
  BY DEF PresenceInv, TypeOK, Inboxes
<1>2. IsFiniteSet(Flight(inbox, c))
  BY DEF PresenceInv, Fits
<1>3. /\ Flight(inbox', c) = Flight(inbox, c)
      /\ \A s \in Server : Requested(inbox, s, c) => Requested(inbox', s, c)
      /\ \A u : Named(inbox, c, u) => Named(inbox', c, u)
      /\ \A users : NamesOnly(inbox, c, users) => NamesOnly(inbox', c, users)
  BY <1>1, FlightOfAdds
<1>4. FlightKept(c)
  <2>1. Cardinality(Flight(inbox, c)) \in Nat
    BY <1>2, FS_CardinalityType
  <2> QED BY <1>2, <1>3, <2>1 DEF FlightKept
<1>5. ASSUME phase[c] = "gathering"
      PROVE  /\ \A k \in stayed'[c] :
                   Requested(inbox, ServerOf[k], c) => Requested(inbox', ServerOf[k], c)
             /\ NamesOnly(inbox', c, UsersOf(passed'[c]))
  <2>1. /\ NamesOnly(inbox, c, UsersOf(passed[c]))
        /\ UsersOf(passed[c]) \subseteq UsersOf(passed'[c])
        /\ \A k \in stayed'[c] : k \in Socket
    BY <1>5, Gathering
  <2>2. \A k \in stayed'[c] : ServerOf[k] \in Server
    BY <2>1, SocketAssumption
  <2>3. NamesOnly(inbox', c, UsersOf(passed[c]))
    BY <1>3, <2>1
  <2> QED BY <1>3, <2>1, <2>2, <2>3, Widened
<1> QED BY <1>3, <1>4, <1>5 DEF AnswersKept

LEMMA MailSame ==
    ASSUME PresenceInv, NEW c \in Collection, RoomKept(c), inbox' = inbox
    PROVE  FlightKept(c) /\ AnswersKept(c)
<1>1. Adds(inbox, inbox', c)
  BY DEF Adds
<1> QED BY <1>1, MailAdded

LEMMA RoomSame ==
    ASSUME PresenceInv, NEW c \in Collection,
           Present' = Present, UNCHANGED <<stayed, passed>>, up \subseteq up',
           c \in spoiled => c \in spoiled',
           up' = up \/ (phase[c] = "counted" => c \in spoiled')
    PROVE  RoomKept(c)
<1>1. RoomFits(c)
  BY DEF PresenceInv, Fits
<1>2. Cardinality(up) \in Nat
  <2>1. up \in SUBSET Server
    BY DEF PresenceInv, TypeOK
  <2> QED BY <2>1, SocketAssumption, FS_Subset, FS_CardinalityType
<1> QED BY <1>1, <1>2 DEF RoomFits, RoomKept

LEMMA RoomTracked ==
    ASSUME PresenceInv, NEW begun, Track(begun), up' \subseteq up, spoiled' = spoiled,
           NEW c \in Collection, c \notin begun, Active(c) => Home(c) \in up'
    PROVE  RoomKept(c)
<1>1. Active(c) => stayed'[c] = stayed[c] \cap Present' /\ passed'[c] = passed[c] \cup Present'
  BY DEF Track, Present
<1>2. Cardinality(up') <= Cardinality(up)
  <2>1. up \in SUBSET Server
    BY DEF PresenceInv, TypeOK
  <2>2. IsFiniteSet(up)
    BY <2>1, SocketAssumption, FS_Subset
  <2> QED BY <2>2, FS_Subset
<1> QED BY <1>1, <1>2 DEF RoomKept

LEMMA TrackTypes ==
    ASSUME PresenceInv, NEW begun, Track(begun)
    PROVE  /\ stayed' \in [Collection -> SUBSET Socket]
           /\ passed' \in [Collection -> SUBSET Socket]
           /\ \A c \in begun \cap Collection : stayed'[c] = Present' /\ passed'[c] = Present'
<1>1. Present' \subseteq Socket
  BY DEF Present
<1>2. /\ stayed' = [c \in Collection |-> IF c \in begun THEN Present'
                                        ELSE IF Active(c) THEN stayed[c] \cap Present' ELSE {}]
      /\ passed' = [c \in Collection |-> IF c \in begun THEN Present'
                                        ELSE IF Active(c) THEN passed[c] \cup Present' ELSE {}]
  BY DEF Track, Present
<1> QED BY <1>1, <1>2 DEF PresenceInv, TypeOK

-----------------------------------------------------------------------------
(***************************************************************************)
(* The steps of sockets.                                                   *)
(***************************************************************************)
LEMMA RoomUndisturbed ==
    ASSUME PresenceInv, Present' = Present,
           UNCHANGED <<up, inbox, phase, numsub, count, found, stayed, passed, spoiled>>,
           NEW c \in Collection
    PROVE  Fits(c)'
<1>1. Unmoved(c)
  BY DEF Unmoved
<1>2. RoomKept(c)
  BY RoomSame
<1>3. FlightKept(c) /\ AnswersKept(c)
  BY <1>2, MailSame
<1>4. up' \subseteq Server
  BY DEF PresenceInv, TypeOK
<1> QED BY <1>1, <1>2, <1>3, <1>4, FitsKept

LEMMA Sends ==
    ASSUME PresenceInv, NEW c \in Collection, phase[c] = "none", Home(c) \in up,
           SendUpdateEvent(c), UNCHANGED <<up, inbox, numsub, count, found, spoiled>>,
           NEW d \in Collection
    PROVE  Fits(d)'
<1>1. phase \in [Collection -> ActivePhase \cup {"none", "told", "void", "lost"}]
  BY DEF PresenceInv, TypeOK
<1>2. Track({c}) /\ phase' = [phase EXCEPT ![c] = "asking"]
  BY DEF SendUpdateEvent
<1>3. CASE d # c
  <2>1. Unmoved(d)
    BY <1>1, <1>2, <1>3 DEF Unmoved
  <2>2. Active(d) => Home(d) \in up'
    BY DEF PresenceInv, Fits, RoomFits
  <2>3. RoomKept(d)
    BY <1>2, <1>3, <2>2, RoomTracked
  <2>4. FlightKept(d) /\ AnswersKept(d)
    BY <2>3, MailSame
  <2>5. up' \subseteq Server
    BY DEF PresenceInv, TypeOK
  <2> QED BY <2>1, <2>3, <2>4, <2>5, FitsKept
<1>4. CASE d = c
  <2>1. phase'[c] = "asking"
    BY <1>1, <1>2
  <2>2. stayed'[c] = Present' /\ passed'[c] = Present'
    BY <1>2, TrackTypes
  <2>3. IsFiniteSet(Flight(inbox, c)) /\ IdleFits(c)
    BY DEF PresenceInv, Fits
  <2>4. IsFiniteSet(Flight(inbox, c))' /\ IdleFits(c)'
    BY <2>3 DEF IdleFits
  <2>5. RoomFits(c)'
    BY <2>2 DEF RoomFits, Home
  <2>6. CountFits(c)' /\ GatheringFits(c)' /\ CompleteFits(c)'
    BY <2>1 DEF CountFits, GatheringFits, CompleteFits
  <2> QED BY <1>4, <2>4, <2>5, <2>6 DEF Fits
<1> QED BY <1>3, <1>4

LEMMA ConnectStep ==
    ASSUME PresenceInv, NEW k \in Socket, Connect(k)
    PROVE  PresenceInv'
<1>1. TypeOK'
  BY DEF PresenceInv, TypeOK, Connect
<1>2. ASSUME NEW j \in Socket
      PROVE  Begun(j)'
  BY DEF PresenceInv, TypeOK, Connect, Begun
<1>3. Present' = Present
  BY DEF PresenceInv, TypeOK, Connect, Present
<1>4. ASSUME NEW c \in Collection
      PROVE  Fits(c)'
  BY <1>3, RoomUndisturbed DEF Connect
<1> QED BY <1>1, <1>2, <1>4 DEF PresenceInv

LEMMA RefuseStep ==
    ASSUME PresenceInv, NEW k \in Socket, Refuse(k)
    PROVE  PresenceInv'
<1>1. TypeOK'
  BY DEF PresenceInv, TypeOK, Refuse
<1>2. ASSUME NEW j \in Socket
      PROVE  Begun(j)'
  BY DEF PresenceInv, TypeOK, Refuse, Begun
<1>3. Present' = Present
  BY DEF PresenceInv, TypeOK, Refuse, Present
<1>4. ASSUME NEW c \in Collection
      PROVE  Fits(c)'
  BY <1>3, RoomUndisturbed DEF Refuse
<1> QED BY <1>1, <1>2, <1>4 DEF PresenceInv

LEMMA AdmitStep ==
    ASSUME PresenceInv, NEW k \in Socket, Admit(k)
    PROVE  PresenceInv'
<1> DEFINE c == <<k, "join">>
<1>1. /\ c \in Collection
      /\ Home(c) = ServerOf[k]
      /\ ServerOf[k] \in up
      /\ phase[c] = "none"
  BY DEF PresenceInv, Begun, Admit, Free, Collection, Home
<1>2. SendUpdateEvent(c) /\ Track({c}) /\ phase' = [phase EXCEPT ![c] = "asking"]
  BY DEF Admit, SendUpdateEvent
<1>3. TypeOK'
  <2>1. stayed' \in [Collection -> SUBSET Socket] /\ passed' \in [Collection -> SUBSET Socket]
    BY <1>2, TrackTypes
  <2>2. phase' \in [Collection -> ActivePhase \cup {"none", "told", "void", "lost"}]
    BY <1>2 DEF PresenceInv, TypeOK, ActivePhase
  <2>3. disturbed' \in BOOLEAN
    BY <1>2 DEF PresenceInv, TypeOK, SendUpdateEvent
  <2> QED BY <2>1, <2>2, <2>3 DEF PresenceInv, TypeOK, Admit
<1>4. ASSUME NEW j \in Socket
      PROVE  Begun(j)'
  <2>1. /\ conn'[k] \in {"joined", "gone"}
        /\ conn[k] # "gone"
        /\ j # k => conn'[j] = conn[j]
    BY DEF PresenceInv, TypeOK, Admit
  <2>2. /\ phase'[<<j, "leave">>] = phase[<<j, "leave">>]
        /\ j # k => phase'[<<j, "join">>] = phase[<<j, "join">>]
    <3>1. /\ <<j, "leave">> \in Collection /\ <<j, "leave">> # c
          /\ <<j, "join">> \in Collection /\ j # k => <<j, "join">> # c
      BY DEF Collection
    <3> QED BY <1>2, <3>1 DEF PresenceInv, TypeOK
  <2>3. Begun(j)
    BY DEF PresenceInv
  <2>4. up' = up
    BY DEF Admit
  <2> QED BY <1>1, <2>1, <2>2, <2>3, <2>4 DEF Begun
<1>5. ASSUME NEW d \in Collection
      PROVE  Fits(d)'
  <2>1. UNCHANGED <<up, inbox, numsub, count, found, spoiled>>
    BY DEF Admit
  <2> HIDE DEF c
  <2> QED BY <1>1, <1>2, <2>1, Sends
<1> QED BY <1>3, <1>4, <1>5 DEF PresenceInv

LEMMA DisconnectStep ==
    ASSUME PresenceInv, NEW k \in Socket, Disconnect(k)
    PROVE  PresenceInv'
<1> DEFINE c == <<k, "leave">>
<1>1. CASE conn[k] = "connecting"
  <2>1. /\ conn' = [conn EXCEPT ![k] = "dropped"]
        /\ UNCHANGED <<up, view, inbox, phase, numsub, count, found, stayed, passed,
                       spoiled, disturbed>>
    BY <1>1 DEF Disconnect
  <2>2. TypeOK'
    BY <2>1 DEF PresenceInv, TypeOK
  <2>3. ASSUME NEW j \in Socket
        PROVE  Begun(j)'
    BY <1>1, <2>1 DEF PresenceInv, TypeOK, Begun
  <2>4. Present' = Present
    BY <1>1, <2>1 DEF PresenceInv, TypeOK, Present
  <2>5. ASSUME NEW d \in Collection
        PROVE  Fits(d)'
    BY <2>1, <2>4, RoomUndisturbed
  <2> QED BY <2>2, <2>3, <2>5 DEF PresenceInv
<1>2. CASE conn[k] = "joined"
  <2>1. /\ conn' = [conn EXCEPT ![k] = "gone"]
        /\ SendUpdateEvent(c)
        /\ UNCHANGED <<up, view, inbox, numsub, count, found, spoiled>>
    BY <1>2 DEF Disconnect
  <2>2. Track({c}) /\ phase' = [phase EXCEPT ![c] = "asking"] /\ disturbed' \in BOOLEAN
    BY <2>1 DEF SendUpdateEvent, PresenceInv, TypeOK
  <2>3. /\ c \in Collection
        /\ Home(c) \in up
        /\ phase[c] = "none"
    BY <1>2 DEF PresenceInv, Begun, Collection, Home
  <2>4. TypeOK'
    <3>1. stayed' \in [Collection -> SUBSET Socket] /\ passed' \in [Collection -> SUBSET Socket]
      BY <2>2, TrackTypes
    <3>2. phase' \in [Collection -> ActivePhase \cup {"none", "told", "void", "lost"}]
      BY <2>2 DEF PresenceInv, TypeOK, ActivePhase
    <3> QED BY <2>1, <2>2, <3>1, <3>2 DEF PresenceInv, TypeOK
  <2>5. ASSUME NEW j \in Socket
        PROVE  Begun(j)'
    <3>1. /\ conn'[k] = "gone"
          /\ j # k => conn'[j] = conn[j]
      BY <2>1 DEF PresenceInv, TypeOK
    <3>2. /\ phase'[<<j, "join">>] = phase[<<j, "join">>]
          /\ j # k => phase'[<<j, "leave">>] = phase[<<j, "leave">>]
      <4>1. /\ <<j, "join">> \in Collection /\ <<j, "join">> # c
            /\ <<j, "leave">> \in Collection /\ j # k => <<j, "leave">> # c
        BY DEF Collection
      <4> QED BY <2>2, <4>1 DEF PresenceInv, TypeOK
    <3>3. Begun(j)
      BY DEF PresenceInv
    <3> QED BY <2>1, <3>1, <3>2, <3>3 DEF Begun
  <2>6. ASSUME NEW d \in Collection
        PROVE  Fits(d)'
    <3> HIDE DEF c
    <3> QED BY <2>1, <2>3, Sends
  <2> QED BY <2>4, <2>5, <2>6 DEF PresenceInv
<1> QED BY <1>1, <1>2 DEF Disconnect

-----------------------------------------------------------------------------
(***************************************************************************)
(* The steps of collections.                                               *)
(***************************************************************************)
\* No step of an active collection begins another one.
LEMMA BegunKept ==
    ASSUME PresenceInv, conn' = conn, up \subseteq up',
           \A c \in Collection : phase[c] = "none" => phase'[c] = "none",
           NEW k \in Socket
    PROVE  Begun(k)'
<1>1. Begun(k)
  BY DEF PresenceInv
<1>2. <<k, "join">> \in Collection /\ <<k, "leave">> \in Collection
  BY DEF Collection
<1> QED BY <1>1, <1>2 DEF Begun

LEMMA Numbers ==
    ASSUME PresenceInv
    PROVE  /\ Cardinality(Server) \in Nat
           /\ Cardinality(up) \in 0 .. Cardinality(Server)
           /\ IsFiniteSet(up)
           /\ \A s \in up : Cardinality(up) > 0
           /\ \A c \in Collection :
                 numsub[c] \in Nat /\ count[c] \in Nat /\ numsub[c] <= Cardinality(Server)
<1>1. Cardinality(Server) \in Nat
  BY SocketAssumption, FS_CardinalityType
<1>2. up \in SUBSET Server
  BY DEF PresenceInv, TypeOK
<1>3. IsFiniteSet(up) /\ Cardinality(up) <= Cardinality(Server)
  BY <1>2, SocketAssumption, FS_Subset
<1>4. Cardinality(up) \in Nat /\ (Cardinality(up) = 0 <=> up = {})
  BY <1>3, FS_CardinalityType, FS_EmptySet
<1>5. \A c \in Collection :
         numsub[c] \in Nat /\ count[c] \in Nat /\ numsub[c] <= Cardinality(Server)
  BY <1>1 DEF PresenceInv, TypeOK
<1> QED BY <1>1, <1>3, <1>4, <1>5

LEMMA CountStep ==
    ASSUME PresenceInv, NEW c \in Collection, Count(c)
    PROVE  PresenceInv'
<1>1. TypeOK'
  BY Numbers DEF PresenceInv, TypeOK, Count, ActivePhase
<1>2. ASSUME NEW k \in Socket
      PROVE  Begun(k)'
  <2>1. \A d \in Collection : phase[d] = "none" => phase'[d] = "none"
    BY DEF PresenceInv, TypeOK, Count
  <2> QED BY <2>1, BegunKept DEF Count
<1>3. ASSUME NEW d \in Collection
      PROVE  Fits(d)'
  <2>1. RoomKept(d)
    <3>1. Present' = Present
      BY DEF Count, Present
    <3> QED BY <3>1, RoomSame DEF Count
  <2>2. FlightKept(d) /\ AnswersKept(d)
    BY <2>1, MailSame DEF Count
  <2>3. up' \subseteq Server
    BY <1>1 DEF TypeOK
  <2>4. CASE d # c
    <3>1. Unmoved(d)
      BY <2>4 DEF PresenceInv, TypeOK, Count, Unmoved
    <3> QED BY <2>1, <2>2, <2>3, <3>1, FitsKept
  <2>5. CASE d = c
    <3>1. /\ phase[c] = "asking" /\ phase'[c] = "counted"
          /\ numsub'[c] = Cardinality(up)
          /\ UNCHANGED <<up, inbox, count, found, spoiled>>
      BY DEF PresenceInv, TypeOK, Count
    <3>2. Fits(c)
      BY DEF PresenceInv
    <3>3. IsFiniteSet(Flight(inbox, c))' /\ IdleFits(c)'
      BY <3>1, <3>2 DEF Fits, IdleFits
    <3>4. RoomFits(c)'
      BY <2>1, <2>5, <3>1 DEF RoomKept, RoomFits, Active, ActivePhase, Home
    <3>5. CountFits(c)'
      <4>1. Home(c) \in up
        BY <3>1, <3>2 DEF Fits, RoomFits, Active, ActivePhase
      <4> QED BY <3>1, <4>1, Numbers DEF CountFits
    <3>6. GatheringFits(c)' /\ CompleteFits(c)'
      BY <3>1 DEF GatheringFits, CompleteFits
    <3> QED BY <2>5, <3>3, <3>4, <3>5, <3>6 DEF Fits
  <2> QED BY <2>4, <2>5
<1> QED BY <1>1, <1>2, <1>3 DEF PresenceInv

LEMMA AskStep ==
    ASSUME PresenceInv, NEW c \in Collection, Ask(c)
    PROVE  PresenceInv'
<1> DEFINE m == [type |-> "request", of |-> c]
<1>1. m \in Message /\ \A d \in Collection : d # c => ~ Serves(m, d)
  BY DEF Message, Serves
<1>2. /\ inbox \in Inboxes
      /\ inbox' = Sent(inbox, up, c)
      /\ phase[c] = "counted"
      /\ phase' = [phase EXCEPT ![c] = "gathering"]
      /\ UNCHANGED <<up, conn, view, numsub, count, found, stayed, passed,
                     spoiled, disturbed>>
  BY DEF PresenceInv, TypeOK, Inboxes, Ask, Sent
<1>3. TypeOK'
  <2>1. inbox' \in [Server -> Seq(Message)]
    <3>1. ASSUME NEW s \in Server
          PROVE  (IF s \in up THEN Append(inbox[s], m) ELSE inbox[s]) \in Seq(Message)
      BY <1>1, <1>2, AppendProperties DEF Inboxes
    <3> QED BY <1>2, <3>1 DEF Sent
  <2>2. phase' \in [Collection -> ActivePhase \cup {"none", "told", "void", "lost"}]
    BY <1>2 DEF PresenceInv, TypeOK, ActivePhase
  <2> QED BY <1>2, <2>1, <2>2 DEF PresenceInv, TypeOK
<1>4. ASSUME NEW k \in Socket
      PROVE  Begun(k)'
  <2>1. \A d \in Collection : phase[d] = "none" => phase'[d] = "none"
    BY <1>2 DEF PresenceInv, TypeOK
  <2> QED BY <1>2, <2>1, BegunKept
<1>5. ASSUME NEW d \in Collection
      PROVE  RoomKept(d)
  <2>1. Present' = Present
    BY <1>2 DEF Present
  <2> QED BY <1>2, <2>1, RoomSame
<1>6. ASSUME NEW d \in Collection, d # c
      PROVE  Fits(d)'
  <2>1. Adds(inbox, inbox', d)
    BY <1>1, <1>2, <1>6 DEF Adds, Sent
  <2>2. FlightKept(d) /\ AnswersKept(d)
    BY <1>5, <2>1, MailAdded
  <2>3. Unmoved(d)
    BY <1>2, <1>6 DEF PresenceInv, TypeOK, Unmoved
  <2> QED BY <1>3, <1>5, <2>2, <2>3, FitsKept DEF TypeOK
<1>7. Fits(c)'
  <2>1. Fits(c)
    BY DEF PresenceInv
  <2>2. Flight(inbox, c) = {} /\ count[c] = 0 /\ found[c] = {}
    BY <1>2, <2>1 DEF Fits, IdleFits
  <2>3. numsub[c] > 0 /\ (c \notin spoiled => Cardinality(up) <= numsub[c])
    BY <1>2, <2>1 DEF Fits, CountFits
  <2>4. up \subseteq Server /\ IsFiniteSet(up)
    BY Numbers DEF PresenceInv, TypeOK
  <2>5. /\ IsFiniteSet(Flight(inbox', c))
        /\ Cardinality(Flight(inbox', c)) \in Nat
        /\ Cardinality(up) \in Nat
        /\ Cardinality(Flight(inbox', c)) <= Cardinality(up)
        /\ \A s \in up : Requested(inbox', s, c)
        /\ \A users : NamesOnly(inbox', c, users)
    BY <1>2, <2>2, <2>4, FlightOfAsk
  <2>6. phase'[c] = "gathering" /\ Active(c)
    BY <1>2 DEF PresenceInv, TypeOK, Active, ActivePhase
  <2>7. RoomFits(c)'
    BY <1>5, <2>6 DEF RoomKept, RoomFits, Home
  <2>8. GatheringFits(c)'
    <3>1. /\ count'[c] < numsub'[c]
          /\ c \notin spoiled' => count'[c] + Cardinality(Flight(inbox', c)) <= numsub'[c]
      BY <1>2, <2>2, <2>3, <2>5, Numbers
    <3>2. ASSUME NEW k \in stayed'[c]
          PROVE  Requested(inbox', ServerOf[k], c)
      <4>1. k \in Socket /\ conn[k] = "joined"
        BY <1>2, <2>7, <2>1, <2>6, <3>2 DEF Fits, RoomFits, Present
      <4>2. ServerOf[k] \in up
        BY <4>1 DEF PresenceInv, Begun
      <4> QED BY <2>5, <4>2
    <3>3. found'[c] = {}
      BY <1>2, <2>2
    <3> QED BY <2>5, <3>1, <3>2, <3>3 DEF GatheringFits
  <2>9. IdleFits(c)' /\ CountFits(c)' /\ CompleteFits(c)'
    BY <2>6 DEF IdleFits, CountFits, CompleteFits
  <2> QED BY <2>5, <2>7, <2>8, <2>9 DEF Fits
<1> QED BY <1>3, <1>4, <1>6, <1>7 DEF PresenceInv

LEMMA ExpireStep ==
    ASSUME PresenceInv, NEW c \in Collection, Expire(c)
    PROVE  PresenceInv'
<1>1. /\ phase[c] = "gathering"
      /\ phase' = [phase EXCEPT ![c] = "expired"]
      /\ disturbed' = TRUE
      /\ UNCHANGED <<up, conn, view, inbox, numsub, count, found, stayed, passed, spoiled>>
  BY DEF Expire
<1>2. TypeOK'
  BY <1>1 DEF PresenceInv, TypeOK, ActivePhase
<1>3. ASSUME NEW k \in Socket
      PROVE  Begun(k)'
  <2>1. \A d \in Collection : phase[d] = "none" => phase'[d] = "none"
    BY <1>1 DEF PresenceInv, TypeOK
  <2> QED BY <1>1, <2>1, BegunKept
<1>4. ASSUME NEW d \in Collection
      PROVE  Fits(d)'
  <2>1. RoomKept(d)
    <3>1. Present' = Present
      BY <1>1 DEF Present
    <3> QED BY <1>1, <3>1, RoomSame
  <2>2. FlightKept(d) /\ AnswersKept(d)
    BY <1>1, <2>1, MailSame
  <2>3. CASE d # c
    <3>1. Unmoved(d)
      BY <1>1, <2>3 DEF PresenceInv, TypeOK, Unmoved
    <3> QED BY <1>2, <2>1, <2>2, <3>1, FitsKept DEF TypeOK
  <2>4. CASE d = c
    <3>1. phase'[c] = "expired"
      BY <1>1 DEF PresenceInv, TypeOK
    <3>2. IsFiniteSet(Flight(inbox, c))'
      BY <2>2, <2>4 DEF FlightKept
    <3>3. RoomFits(c)'
      BY <1>1, <2>1, <2>4 DEF RoomKept, RoomFits, Active, ActivePhase, Home
    <3>4. IdleFits(c)' /\ CountFits(c)' /\ GatheringFits(c)' /\ CompleteFits(c)'
      BY <3>1 DEF IdleFits, CountFits, GatheringFits, CompleteFits
    <3> QED BY <2>4, <3>2, <3>3, <3>4 DEF Fits
  <2> QED BY <2>3, <2>4
<1> QED BY <1>2, <1>3, <1>4 DEF PresenceInv

LEMMA TellStep ==
    ASSUME PresenceInv, NEW c \in Collection, Tell(c)
    PROVE  PresenceInv'
<1> DEFINE m == [type |-> "update", of |-> c, users |-> ListOf(c)]
<1>1. m \in Message /\ \A d \in Collection : ~ Serves(m, d)
  BY DEF Message, Serves, ListOf, PresenceInv, TypeOK
<1>2. /\ inbox \in Inboxes
      /\ inbox' = [s \in Server |-> IF s \in up \ {Home(c)} THEN Append(inbox[s], m)
                                    ELSE inbox[s]]
      /\ phase[c] \in {"complete", "expired"}
      /\ phase' = [phase EXCEPT ![c] = EndPhase(c)]
      /\ EndPhase(c) \in {"told", "void"}
      /\ UNCHANGED <<up, conn, spoiled, disturbed>>
  BY DEF PresenceInv, TypeOK, Inboxes, Tell, EndPhase
<1>3. /\ numsub' = [numsub EXCEPT ![c] = 0]
      /\ count' = [count EXCEPT ![c] = 0]
      /\ found' = [found EXCEPT ![c] = {}]
      /\ stayed' = [stayed EXCEPT ![c] = {}]
      /\ passed' = [passed EXCEPT ![c] = {}]
  BY DEF Tell
<1>4. TypeOK'
  <2>1. inbox' \in [Server -> Seq(Message)]
    <3> HIDE DEF m
    <3>1. ASSUME NEW s \in Server
          PROVE  (IF s \in up \ {Home(c)} THEN Append(inbox[s], m) ELSE inbox[s]) \in Seq(Message)
      BY <1>1, <1>2, AppendProperties DEF Inboxes
    <3> QED BY <1>2, <3>1
  <2>2. phase' \in [Collection -> ActivePhase \cup {"none", "told", "void", "lost"}]
    BY <1>2 DEF PresenceInv, TypeOK
  <2>3. view' \in [Socket -> SUBSET User]
    BY DEF PresenceInv, TypeOK, Tell, Deliver, ListOf
  <2>4. /\ numsub' \in [Collection -> 0 .. Cardinality(Server)]
        /\ count' \in [Collection -> 0 .. Cardinality(Server)]
    BY <1>3, Numbers DEF PresenceInv, TypeOK
  <2>5. /\ found' \in [Collection -> SUBSET User]
        /\ stayed' \in [Collection -> SUBSET Socket]
        /\ passed' \in [Collection -> SUBSET Socket]
    BY <1>3 DEF PresenceInv, TypeOK
  <2> QED BY <1>2, <2>1, <2>2, <2>3, <2>4, <2>5 DEF PresenceInv, TypeOK
<1>5. ASSUME NEW k \in Socket
      PROVE  Begun(k)'
  <2>1. \A d \in Collection : phase[d] = "none" => phase'[d] = "none"
    BY <1>2 DEF PresenceInv, TypeOK
  <2> QED BY <1>2, <2>1, BegunKept
<1>6. ASSUME NEW d \in Collection
      PROVE  Adds(inbox, inbox', d)
  <2> HIDE DEF m
  <2> QED BY <1>1, <1>2 DEF Adds
<1>7. ASSUME NEW d \in Collection, d # c
      PROVE  Fits(d)'
  <2>1. RoomKept(d)
    <3>1. Present' = Present
      BY <1>2 DEF Present
    <3>2. stayed'[d] = stayed[d] /\ passed'[d] = passed[d]
      BY <1>3, <1>7 DEF PresenceInv, TypeOK
    <3>3. RoomFits(d) /\ Cardinality(up) \in Nat
      BY Numbers DEF PresenceInv, Fits
    <3> QED BY <1>2, <3>1, <3>2, <3>3 DEF RoomFits, RoomKept
  <2>2. FlightKept(d) /\ AnswersKept(d)
    BY <1>6, <2>1, MailAdded
  <2>3. Unmoved(d)
    BY <1>2, <1>3, <1>7 DEF PresenceInv, TypeOK, Unmoved
  <2> QED BY <1>4, <2>1, <2>2, <2>3, FitsKept DEF TypeOK
<1>8. Fits(c)'
  <2>1. phase'[c] \in {"told", "void"}
    BY <1>2 DEF PresenceInv, TypeOK
  <2>2. IsFiniteSet(Flight(inbox, c))'
    <3>1. Flight(inbox', c) = Flight(inbox, c)
      BY <1>2, <1>6, FlightOfAdds
    <3> QED BY <3>1 DEF PresenceInv, Fits
  <2>3. RoomFits(c)'
    BY <2>1 DEF RoomFits, Active, ActivePhase
  <2>4. IdleFits(c)' /\ CountFits(c)' /\ GatheringFits(c)' /\ CompleteFits(c)'
    BY <2>1 DEF IdleFits, CountFits, GatheringFits, CompleteFits
  <2> QED BY <2>2, <2>3, <2>4 DEF Fits
<1> QED BY <1>4, <1>5, <1>7, <1>8 DEF PresenceInv

-----------------------------------------------------------------------------
(***************************************************************************)
(* The steps of servers.                                                   *)
(***************************************************************************)
LEMMA RespondStep ==
    ASSUME PresenceInv, NEW s \in Server, Respond(s)
    PROVE  PresenceInv'
<1> DEFINE d == Head(inbox[s]).of
           m == [type |-> "response", of |-> d, users |-> UsersOf(LocalSockets(s))]
<1>1. /\ inbox \in Inboxes
      /\ inbox[s] # << >>
      /\ Head(inbox[s]) \in Message
      /\ Head(inbox[s]).type = "request"
      /\ d \in Collection
  <2>1. inbox \in Inboxes /\ inbox[s] # << >> /\ Head(inbox[s]).type = "request"
    BY DEF PresenceInv, TypeOK, Inboxes, Respond, Reads
  <2>2. Head(inbox[s]) \in Message
    BY <2>1, HeadTailProperties DEF Inboxes
  <2> QED BY <2>1, <2>2 DEF Message
<1>2. /\ m \in Message /\ m.type = "response" /\ m.of = d
      /\ m.users = UsersOf(LocalSockets(s))
  BY <1>1, SocketAssumption DEF Message, UsersOf, LocalSockets, Present
<1>3. /\ Home(d) \in up => inbox' = Push(Pop(inbox, s), Home(d), m)
      /\ Home(d) \notin up => inbox' = Pop(inbox, s)
      /\ UNCHANGED <<up, conn, view, phase, numsub, count, found, stayed, passed,
                     spoiled, disturbed>>
  BY DEF Respond, Push, Pop
<1> HIDE DEF m
<1>4. TypeOK'
  <2>1. Home(d) \in up => inbox' \in Inboxes
    <3>1. IsFiniteSet(Flight(inbox, d))
      BY <1>1 DEF PresenceInv, Fits
    <3> QED BY <1>1, <1>2, <1>3, <3>1, FlightOfReply
  <2>2. Home(d) \notin up => inbox' \in Inboxes
    <3>1. IsFiniteSet(Flight(inbox, d))
      BY <1>1 DEF PresenceInv, Fits
    <3> QED BY <1>1, <1>3, <3>1, FlightOfPop
  <2> QED BY <1>3, <2>1, <2>2 DEF PresenceInv, TypeOK, Inboxes
<1>5. ASSUME NEW k \in Socket
      PROVE  Begun(k)'
  BY <1>3, BegunKept
<1>6. ASSUME NEW c \in Collection
      PROVE  Fits(c)'
  <2>1. RoomKept(c)
    <3>1. Present' = Present
      BY <1>3 DEF Present
    <3> QED BY <1>3, <3>1, RoomSame
  <2>2. Unmoved(c)
    BY <1>3 DEF Unmoved
  <2>3. IsFiniteSet(Flight(inbox, c))
    BY DEF PresenceInv, Fits
  <2>4. ASSUME phase[c] = "gathering"
        PROVE  /\ NamesOnly(inbox, c, UsersOf(passed'[c]))
               /\ \A k \in stayed'[c] : k \in Present /\ ServerOf[k] \in Server
               /\ m.users \subseteq UsersOf(passed'[c])
               /\ Home(c) \in up
    <3>1. /\ Active(c)
          /\ NamesOnly(inbox, c, UsersOf(passed[c]))
          /\ passed' = passed /\ stayed' = stayed /\ conn' = conn
          /\ \A k \in stayed'[c] : k \in Socket /\ conn'[k] = "joined"
      BY <1>3, <2>1, <2>4, Gathering
    <3>2. Home(c) \in up /\ Present \subseteq passed[c]
      BY <3>1 DEF PresenceInv, Fits, RoomFits
    <3>3. m.users \subseteq UsersOf(passed[c])
      BY <1>2, <3>2 DEF UsersOf, LocalSockets
    <3>4. \A k \in stayed'[c] : k \in Present /\ ServerOf[k] \in Server
      BY <3>1, SocketAssumption DEF Present
    <3> QED BY <3>1, <3>2, <3>3, <3>4
  <2>5. CASE Home(d) \in up
    <3>1. inbox' = Push(Pop(inbox, s), Home(d), m)
      BY <1>3, <2>5
    <3>2. /\ IsFiniteSet(Flight(inbox', c))
          /\ Cardinality(Flight(inbox', c)) \in Nat
          /\ Cardinality(Flight(inbox, c)) \in Nat
          /\ Cardinality(Flight(inbox', c)) <= Cardinality(Flight(inbox, c))
          /\ \A t \in Server : Requested(inbox, t, c) =>
                Requested(inbox', t, c) \/ (t = s /\ c = d)
          /\ \A u : Named(inbox, c, u) => Named(inbox', c, u)
          /\ \A u \in m.users : Named(inbox', d, u)
          /\ \A users : NamesOnly(inbox, c, users) /\ (c = d => m.users \subseteq users) =>
                NamesOnly(inbox', c, users)
      BY <1>1, <1>2, <2>3, <3>1, FlightOfReply
    <3>3. FlightKept(c)
      BY <3>2 DEF FlightKept
    <3>4. ASSUME phase[c] = "gathering", NEW k \in stayed'[c],
                 Requested(inbox, ServerOf[k], c)
          PROVE  Requested(inbox', ServerOf[k], c) \/ Named(inbox', c, UserOf[k])
      <4>1. ServerOf[k] = s => UserOf[k] \in m.users
        BY <1>2, <2>4, <3>4 DEF UsersOf, LocalSockets
      <4> QED BY <2>4, <3>2, <3>4, <4>1
    <3>5. AnswersKept(c)
      BY <2>4, <3>2, <3>4 DEF AnswersKept
    <3> QED BY <1>4, <2>1, <2>2, <3>3, <3>5, FitsKept DEF TypeOK
  <2>6. CASE Home(d) \notin up
    <3>1. inbox' = Pop(inbox, s)
      BY <1>3, <2>6
    <3>2. /\ IsFiniteSet(Flight(inbox', c))
          /\ Cardinality(Flight(inbox', c)) \in Nat
          /\ Cardinality(Flight(inbox, c)) \in Nat
          /\ Cardinality(Flight(inbox', c)) <= Cardinality(Flight(inbox, c))
          /\ \A t \in Server : Requested(inbox, t, c) => Requested(inbox', t, c) \/ c = d
          /\ \A u : Named(inbox, c, u) => Named(inbox', c, u)
          /\ \A users : NamesOnly(inbox, c, users) => NamesOnly(inbox', c, users)
      BY <1>1, <2>3, <3>1, FlightOfPop
    <3>3. FlightKept(c)
      BY <3>2 DEF FlightKept
    <3>4. AnswersKept(c)
      BY <2>4, <2>6, <3>2 DEF AnswersKept
    <3> QED BY <1>4, <2>1, <2>2, <3>3, <3>4, FitsKept DEF TypeOK
  <2> QED BY <2>5, <2>6
<1> QED BY <1>4, <1>5, <1>6 DEF PresenceInv

LEMMA NothingUnderWay ==
    ASSUME NEW box, NEW c \in Collection, Flight(box, c) = {}
    PROVE  /\ \A s \in Server : ~ Requested(box, s, c)
           /\ \A u : ~ Named(box, c, u)
<1>1. \A s \in Server : \A i \in DOMAIN box[s] : ~ Serves(box[s][i], c)
  BY FlightPlaces
<1>2. \A s \in Server : ~ Requested(box, s, c)
  BY <1>1 DEF Requested, Serves
<1>3. \A u : ~ Named(box, c, u)
  BY <1>1, HomeIsServer DEF Named, Serves
<1> QED BY <1>2, <1>3

LEMMA GatherStep ==
    ASSUME PresenceInv, NEW s \in Server, Gather(s)
    PROVE  PresenceInv'
<1>a. PICK c, users : c = Head(inbox[s]).of /\ users = Head(inbox[s]).users
  OBVIOUS
<1>1. /\ inbox \in Inboxes
      /\ inbox[s] # << >>
      /\ inbox' = Pop(inbox, s)
      /\ Head(inbox[s]) \in Message
      /\ Head(inbox[s]).type = "response"
      /\ c \in Collection
      /\ users \in SUBSET User
  <2>1. /\ inbox \in Inboxes /\ inbox[s] # << >> /\ Head(inbox[s]).type = "response"
        /\ inbox' = Pop(inbox, s)
    BY DEF PresenceInv, TypeOK, Inboxes, Gather, Reads, Pop
  <2>2. Head(inbox[s]) \in Message
    BY <2>1, HeadTailProperties DEF Inboxes
  <2> QED BY <1>a, <2>1, <2>2 DEF Message
<1>2. UNCHANGED <<up, conn, view, numsub, stayed, passed, spoiled, disturbed>>
  BY DEF Gather
<1>3. \/ /\ phase[c] = "gathering"
         /\ count' = [count EXCEPT ![c] = @ + 1]
         /\ found' = [found EXCEPT ![c] = @ \cup users]
         /\ phase' = [phase EXCEPT ![c] = IF count[c] + 1 = numsub[c] THEN "complete" ELSE @]
      \/ /\ phase[c] # "gathering"
         /\ UNCHANGED <<phase, count, found>>
  BY <1>a DEF Gather
<1>4. 1 \in DOMAIN inbox[s] /\ Head(inbox[s]) = inbox[s][1]
  <2>1. PICK q \in Seq(Message) : q = inbox[s]
    BY <1>1 DEF Inboxes
  <2> QED BY <1>1, <2>1, Popped
<1>5. ASSUME NEW d \in Collection
      PROVE  /\ IsFiniteSet(Flight(inbox', d))
             /\ Cardinality(Flight(inbox', d)) \in Nat
             /\ Cardinality(Flight(inbox, d)) \in Nat
             /\ Cardinality(Flight(inbox', d)) <= Cardinality(Flight(inbox, d))
             /\ c = d => Cardinality(Flight(inbox', d)) <= Cardinality(Flight(inbox, d)) - 1
             /\ \A t \in Server : Requested(inbox, t, d) => Requested(inbox', t, d)
             /\ \A u : Named(inbox, d, u) => Named(inbox', d, u) \/ (c = d /\ u \in users)
             /\ \A names : NamesOnly(inbox, d, names) => NamesOnly(inbox', d, names)
  <2>1. IsFiniteSet(Flight(inbox, d))
    BY DEF PresenceInv, Fits
  <2>2. c = d => Serves(Head(inbox[s]), d)
    BY <1>a, <1>1 DEF Serves
  <2>3. /\ IsFiniteSet(Flight(inbox', d))
        /\ Cardinality(Flight(inbox', d)) \in Nat
        /\ Cardinality(Flight(inbox, d)) \in Nat
        /\ Cardinality(Flight(inbox', d)) <= Cardinality(Flight(inbox, d))
        /\ Serves(Head(inbox[s]), d) =>
              Cardinality(Flight(inbox', d)) <= Cardinality(Flight(inbox, d)) - 1
    BY <1>1, <2>1, FlightOfPop
  <2>4. /\ \A t \in Server : Requested(inbox, t, d) =>
              Requested(inbox', t, d) \/ Head(inbox[s]).type = "request"
        /\ \A u : Named(inbox, d, u) => Named(inbox', d, u) \/ (c = d /\ u \in users)
        /\ \A names : NamesOnly(inbox, d, names) => NamesOnly(inbox', d, names)
    BY <1>a, <1>1, <2>1, FlightOfPop
  <2> QED BY <1>1, <2>2, <2>3, <2>4
<1>6. phase[c] = "gathering" =>
         /\ count[c] < numsub[c]
         /\ count[c] + 1 \in 0 .. Cardinality(Server)
         /\ phase'[c] = IF count[c] + 1 = numsub[c] THEN "complete" ELSE "gathering"
         /\ count'[c] = count[c] + 1
         /\ found'[c] = found[c] \cup users
  <2>1. phase[c] = "gathering" => count[c] < numsub[c]
    BY <1>1 DEF PresenceInv, Fits, GatheringFits
  <2>2. phase[c] = "gathering" => count[c] + 1 \in 0 .. Cardinality(Server)
    BY <1>1, <2>1, Numbers
  <2> QED BY <1>1, <1>3, <2>1, <2>2 DEF PresenceInv, TypeOK
<1>7. TypeOK'
  <2>1. inbox' \in [Server -> Seq(Message)]
    <3>1. IsFiniteSet(Flight(inbox, c))
      BY <1>1 DEF PresenceInv, Fits
    <3>2. Pop(inbox, s) \in Inboxes
      BY <1>1, <3>1, FlightOfPop
    <3> QED BY <1>1, <3>2 DEF Inboxes
  <2>2. phase' \in [Collection -> ActivePhase \cup {"none", "told", "void", "lost"}]
    BY <1>3 DEF PresenceInv, TypeOK, ActivePhase
  <2>3. count' \in [Collection -> 0 .. Cardinality(Server)]
    BY <1>3, <1>6 DEF PresenceInv, TypeOK
  <2>4. found' \in [Collection -> SUBSET User]
    <3>1. found \in [Collection -> SUBSET User]
      BY DEF PresenceInv, TypeOK
    <3>2. PICK names : names = found[c] \cup users
      OBVIOUS
    <3>3. names \in SUBSET User
      BY <1>1, <3>1, <3>2
    <3>4. found' = [found EXCEPT ![c] = names] \/ found' = found
      BY <1>3, <3>2
    <3> QED BY <3>1, <3>3, <3>4
  <2> QED BY <1>2, <2>1, <2>2, <2>3, <2>4 DEF PresenceInv, TypeOK
<1>8. ASSUME NEW k \in Socket
      PROVE  Begun(k)'
  <2>1. \A d \in Collection : phase[d] = "none" => phase'[d] = "none"
    BY <1>3 DEF PresenceInv, TypeOK
  <2> QED BY <1>2, <2>1, BegunKept
<1>9. ASSUME NEW d \in Collection
      PROVE  RoomKept(d)
  <2>1. Present' = Present
    BY <1>2 DEF Present
  <2> QED BY <1>2, <2>1, RoomSame
<1>10. ASSUME NEW d \in Collection, d # c \/ phase[c] # "gathering"
       PROVE  Fits(d)'
  <2>1. Unmoved(d)
    BY <1>2, <1>3, <1>10 DEF PresenceInv, TypeOK, Unmoved
  <2>2. FlightKept(d)
    BY <1>5 DEF FlightKept
  <2>3. ASSUME phase[d] = "gathering"
        PROVE  /\ NamesOnly(inbox, d, UsersOf(passed'[d]))
               /\ \A k \in stayed'[d] : ServerOf[k] \in Server
    BY <1>2, <1>9, <2>3, Gathering, SocketAssumption
  <2>4. AnswersKept(d)
    BY <1>5, <1>10, <2>3 DEF AnswersKept
  <2> QED BY <1>7, <1>9, <2>1, <2>2, <2>4, FitsKept DEF TypeOK
<1>11. ASSUME phase[c] = "gathering"
       PROVE  Fits(c)'
  <2>1. /\ c \notin spoiled => count[c] + Cardinality(Flight(inbox, c)) <= numsub[c]
        /\ \A k \in stayed[c] :
              \/ UserOf[k] \in found[c]
              \/ Requested(inbox, ServerOf[k], c)
              \/ Named(inbox, c, UserOf[k])
        /\ NamesOnly(inbox, c, UsersOf(passed[c]))
        /\ found[c] \subseteq UsersOf(passed[c])
    BY <1>1, <1>11 DEF PresenceInv, Fits, GatheringFits
  <2>2. users \subseteq UsersOf(passed[c])
    BY <1>a, <1>1, <1>4, <2>1 DEF NamesOnly
  <2>3. found'[c] \subseteq UsersOf(passed'[c]) /\ NamesOnly(inbox', c, UsersOf(passed'[c]))
    BY <1>1, <1>2, <1>5, <1>6, <1>11, <2>1, <2>2
  <2>4. /\ count[c] \in Nat /\ numsub[c] \in Nat
        /\ Cardinality(Flight(inbox, c)) \in Nat
        /\ Cardinality(Flight(inbox', c)) \in Nat
        /\ Cardinality(Flight(inbox', c)) <= Cardinality(Flight(inbox, c)) - 1
    BY <1>1, <1>5, Numbers
  <2>5. \A k \in stayed[c] : ServerOf[k] \in Server
    BY <1>1, SocketAssumption DEF PresenceInv, TypeOK
  <2>6. \A k \in stayed'[c] :
           \/ UserOf[k] \in found'[c]
           \/ Requested(inbox', ServerOf[k], c)
           \/ Named(inbox', c, UserOf[k])
    BY <1>1, <1>2, <1>5, <1>6, <1>11, <2>1, <2>5
  <2>7. RoomFits(c)'
    BY <1>1, <1>6, <1>9, <1>11 DEF RoomKept, RoomFits, Active, ActivePhase, Home
  <2>8. IdleFits(c)' /\ CountFits(c)'
    BY <1>6, <1>11 DEF IdleFits, CountFits
  <2>9. GatheringFits(c)'
    <3>1. ASSUME phase'[c] = "gathering"
          PROVE  /\ count'[c] < numsub'[c]
                 /\ c \notin spoiled' =>
                       count'[c] + Cardinality(Flight(inbox', c)) <= numsub'[c]
      BY <1>2, <1>6, <1>11, <2>1, <2>4, <3>1
    <3> QED BY <2>3, <2>6, <3>1 DEF GatheringFits
  <2>10. CompleteFits(c)'
    <3>1. ASSUME phase'[c] = "complete", c \notin spoiled'
          PROVE  Flight(inbox', c) = {}
      <4>1. count[c] + 1 = numsub[c]
        BY <1>6, <1>11, <3>1
      <4>2. Cardinality(Flight(inbox', c)) <= 0
        BY <1>2, <2>1, <2>4, <3>1, <4>1
      <4> QED BY <1>1, <1>5, <4>2, NoneIsEmpty
    <3>2. ASSUME phase'[c] = "complete", c \notin spoiled'
          PROVE  \A k \in stayed'[c] : UserOf[k] \in found'[c]
      BY <1>1, <1>2, <2>5, <2>6, <3>1, <3>2, NothingUnderWay
    <3> QED BY <2>3, <3>2 DEF CompleteFits, UsersOf
  <2>11. IsFiniteSet(Flight(inbox, c))'
    BY <1>1, <1>5
  <2> QED BY <2>7, <2>8, <2>9, <2>10, <2>11 DEF Fits
<1> QED BY <1>7, <1>8, <1>10, <1>11 DEF PresenceInv

LEMMA RelayStep ==
    ASSUME PresenceInv, NEW s \in Server, Relay(s)
    PROVE  PresenceInv'
<1>1. /\ inbox \in Inboxes
      /\ inbox[s] # << >>
      /\ inbox' = Pop(inbox, s)
      /\ Head(inbox[s]) \in Message
      /\ Head(inbox[s]).type = "update"
      /\ UNCHANGED <<up, conn, phase, numsub, count, found, stayed, passed, spoiled, disturbed>>
  <2>1. /\ inbox \in Inboxes /\ inbox[s] # << >> /\ Head(inbox[s]).type = "update"
        /\ inbox' = Pop(inbox, s)
        /\ UNCHANGED <<up, conn, phase, numsub, count, found, stayed, passed, spoiled, disturbed>>
    BY DEF PresenceInv, TypeOK, Inboxes, Relay, Reads, Pop
  <2>2. Head(inbox[s]) \in Message
    BY <2>1, HeadTailProperties DEF Inboxes
  <2> QED BY <2>1, <2>2
<1>2. ASSUME NEW d \in Collection
      PROVE  /\ FlightKept(d)
             /\ \A t \in Server : Requested(inbox, t, d) => Requested(inbox', t, d)
             /\ \A u : Named(inbox, d, u) => Named(inbox', d, u)
             /\ \A names : NamesOnly(inbox, d, names) => NamesOnly(inbox', d, names)
  <2>1. IsFiniteSet(Flight(inbox, d))
    BY DEF PresenceInv, Fits
  <2>2. FlightKept(d)
    BY <1>1, <2>1, FlightOfPop DEF FlightKept
  <2>3. /\ \A t \in Server : Requested(inbox, t, d) =>
              Requested(inbox', t, d) \/ Head(inbox[s]).type = "request"
        /\ \A u : Named(inbox, d, u) =>
              Named(inbox', d, u) \/ Head(inbox[s]).type = "response"
        /\ \A names : NamesOnly(inbox, d, names) => NamesOnly(inbox', d, names)
    BY <1>1, <2>1, FlightOfPop
  <2> QED BY <1>1, <2>2, <2>3
<1>3. TypeOK'
  <2>1. inbox' \in [Server -> Seq(Message)]
    <3>1. Tail(inbox[s]) \in Seq(Message)
      BY <1>1, HeadTailProperties DEF Inboxes
    <3> QED BY <1>1, <3>1 DEF Inboxes, Pop
  <2>2. view' \in [Socket -> SUBSET User]
    <3>1. Head(inbox[s]).users \in SUBSET User
      BY <1>1 DEF Message
    <3> QED BY <3>1 DEF PresenceInv, TypeOK, Relay, Deliver
  <2> QED BY <1>1, <2>1, <2>2 DEF PresenceInv, TypeOK
<1>4. ASSUME NEW k \in Socket
      PROVE  Begun(k)'
  BY <1>1, BegunKept
<1>5. ASSUME NEW d \in Collection
      PROVE  Fits(d)'
  <2>1. RoomKept(d)
    <3>1. Present' = Present
      BY <1>1 DEF Present
    <3> QED BY <1>1, <3>1, RoomSame
  <2>2. Unmoved(d)
    BY <1>1 DEF Unmoved
  <2>3. ASSUME phase[d] = "gathering"
        PROVE  /\ NamesOnly(inbox, d, UsersOf(passed'[d]))
               /\ \A k \in stayed'[d] : ServerOf[k] \in Server
    BY <1>1, <2>1, <2>3, Gathering, SocketAssumption
  <2>4. AnswersKept(d)
    BY <1>2, <2>3 DEF AnswersKept
  <2> QED BY <1>2, <1>3, <2>1, <2>2, <2>4, FitsKept DEF TypeOK
<1> QED BY <1>3, <1>4, <1>5 DEF PresenceInv

-----------------------------------------------------------------------------
(***************************************************************************)
(* Servers fail and start.                                                 *)
(***************************************************************************)
LEMMA CrashStep ==
    ASSUME PresenceInv, NEW s \in Server, Crash(s)
    PROVE  PresenceInv'
<1>1. /\ inbox \in Inboxes
      /\ s \in up
      /\ up' = up \ {s}
      /\ inbox' = [inbox EXCEPT ![s] = << >>]
      /\ Track({})
      /\ disturbed' = TRUE
      /\ UNCHANGED <<view, spoiled>>
  BY DEF PresenceInv, TypeOK, Inboxes, Crash
<1>2. \A c \in Collection :
         /\ phase'[c] = IF Home(c) = s /\ Active(c) THEN "lost" ELSE phase[c]
         /\ numsub'[c] = IF Home(c) = s THEN 0 ELSE numsub[c]
         /\ count'[c] = IF Home(c) = s THEN 0 ELSE count[c]
         /\ found'[c] = IF Home(c) = s THEN {} ELSE found[c]
  BY DEF Crash
<1>3. \A k \in Socket :
         conn'[k] = IF ServerOf[k] = s /\ conn[k] # "away" THEN "gone" ELSE conn[k]
  BY DEF Crash
<1>4. TypeOK'
  <2>1. inbox' \in [Server -> Seq(Message)]
    <3>1. << >> \in Seq(Message)
      BY EmptySeq
    <3> QED BY <1>1, <3>1 DEF Inboxes
  <2>2. stayed' \in [Collection -> SUBSET Socket] /\ passed' \in [Collection -> SUBSET Socket]
    BY <1>1, TrackTypes
  <2>3. conn' \in [Socket -> {"away", "connecting", "dropped", "joined", "gone"}]
    BY DEF PresenceInv, TypeOK, Crash
  <2>4. phase' \in [Collection -> ActivePhase \cup {"none", "told", "void", "lost"}]
    BY DEF PresenceInv, TypeOK, Crash
  <2>5. /\ numsub' \in [Collection -> 0 .. Cardinality(Server)]
        /\ count' \in [Collection -> 0 .. Cardinality(Server)]
    BY Numbers DEF PresenceInv, TypeOK, Crash
  <2>6. found' \in [Collection -> SUBSET User]
    BY DEF PresenceInv, TypeOK, Crash
  <2> QED BY <1>1, <2>1, <2>2, <2>3, <2>4, <2>5, <2>6 DEF PresenceInv, TypeOK
<1>5. ASSUME NEW k \in Socket
      PROVE  Begun(k)'
  <2>1. \A c \in Collection : phase[c] = "none" => phase'[c] = "none"
    BY <1>2 DEF Active, ActivePhase
  <2>2. <<k, "join">> \in Collection /\ <<k, "leave">> \in Collection
    BY DEF Collection
  <2>3. Begun(k)
    BY DEF PresenceInv
  <2> QED BY <1>1, <1>3, <2>1, <2>2, <2>3 DEF Begun
<1>6. ASSUME NEW c \in Collection
      PROVE  /\ FlightKept(c)
             /\ \A t \in Server \ {s} : Requested(inbox, t, c) => Requested(inbox', t, c)
             /\ \A u : Home(c) # s /\ Named(inbox, c, u) => Named(inbox', c, u)
             /\ \A users : NamesOnly(inbox, c, users) => NamesOnly(inbox', c, users)
  <2>1. IsFiniteSet(Flight(inbox, c))
    BY DEF PresenceInv, Fits
  <2>2. /\ IsFiniteSet(Flight(inbox', c))
        /\ Cardinality(Flight(inbox', c)) \in Nat
        /\ Cardinality(Flight(inbox, c)) \in Nat
        /\ Cardinality(Flight(inbox', c)) <= Cardinality(Flight(inbox, c))
        /\ \A t \in Server \ {s} : Requested(inbox, t, c) => Requested(inbox', t, c)
        /\ \A u : Home(c) # s /\ Named(inbox, c, u) => Named(inbox', c, u)
        /\ \A users : NamesOnly(inbox, c, users) => NamesOnly(inbox', c, users)
    BY <1>1, <2>1, FlightOfLoss
  <2> QED BY <2>2 DEF FlightKept
<1>7. ASSUME NEW c \in Collection, Home(c) # s
      PROVE  Fits(c)'
  <2>1. Unmoved(c)
    BY <1>2, <1>7 DEF Unmoved
  <2>2. RoomKept(c)
    <3>1. Active(c) => Home(c) \in up'
      BY <1>1, <1>7 DEF PresenceInv, Fits, RoomFits
    <3> QED BY <1>1, <3>1, RoomTracked
  <2>3. ASSUME phase[c] = "gathering"
        PROVE  /\ NamesOnly(inbox, c, UsersOf(passed'[c]))
               /\ \A k \in stayed'[c] : ServerOf[k] \in Server \ {s}
    <3>1. /\ NamesOnly(inbox, c, UsersOf(passed[c]))
          /\ UsersOf(passed[c]) \subseteq UsersOf(passed'[c])
          /\ \A k \in stayed'[c] : k \in Socket /\ conn'[k] = "joined"
      BY <2>2, <2>3, Gathering
    <3>2. \A k \in stayed'[c] : ServerOf[k] \in Server \ {s}
      BY <1>3, <3>1, SocketAssumption
    <3> QED BY <3>1, <3>2, Widened
  <2>4. AnswersKept(c)
    BY <1>6, <1>7, <2>3 DEF AnswersKept
  <2> QED BY <1>4, <1>6, <2>1, <2>2, <2>4, FitsKept DEF TypeOK
<1>8. ASSUME NEW c \in Collection, Home(c) = s
      PROVE  Fits(c)'
  <2>1. /\ ~ Active(c)'
        /\ phase'[c] = "none" => phase[c] = "none"
        /\ count'[c] = 0 /\ found'[c] = {}
    BY <1>2, <1>8 DEF Active, ActivePhase
  <2>2. IsFiniteSet(Flight(inbox, c))'
    BY <1>6 DEF FlightKept
  <2>3. IdleFits(c)'
    <3>1. ASSUME phase[c] = "none"
          PROVE  Flight(inbox', c) = {}
      <4>1. Flight(inbox, c) = {}
        BY <3>1 DEF PresenceInv, Fits, IdleFits
      <4> QED BY <1>6, <4>1, NoneIsEmpty, FS_EmptySet DEF FlightKept
    <3> QED BY <2>1, <3>1 DEF IdleFits, Active, ActivePhase
  <2>4. RoomFits(c)' /\ CountFits(c)' /\ GatheringFits(c)' /\ CompleteFits(c)'
    BY <2>1 DEF RoomFits, CountFits, GatheringFits, CompleteFits, Active, ActivePhase
  <2> QED BY <2>2, <2>3, <2>4 DEF Fits
<1> QED BY <1>4, <1>5, <1>7, <1>8 DEF PresenceInv

LEMMA StartStep ==
    ASSUME PresenceInv, NEW s \in Server, Start(s)
    PROVE  PresenceInv'
<1>1. /\ up' = up \cup {s}
      /\ spoiled' = spoiled \cup {c \in Collection : phase[c] = "counted"}
      /\ UNCHANGED <<conn, view, inbox, phase, numsub, count, found, stayed, passed>>
  BY DEF Start
<1>2. TypeOK'
  <2>1. disturbed' \in BOOLEAN
    BY DEF PresenceInv, TypeOK, Start
  <2> QED BY <1>1, <2>1 DEF PresenceInv, TypeOK
<1>3. ASSUME NEW k \in Socket
      PROVE  Begun(k)'
  BY <1>1, BegunKept
<1>4. ASSUME NEW c \in Collection
      PROVE  Fits(c)'
  <2>1. RoomKept(c)
    <3>1. Present' = Present
      BY <1>1 DEF Present
    <3> QED BY <1>1, <3>1, RoomSame
  <2>2. FlightKept(c) /\ AnswersKept(c)
    BY <1>1, <2>1, MailSame
  <2>3. Unmoved(c)
    BY <1>1 DEF Unmoved
  <2> QED BY <1>2, <2>1, <2>2, <2>3, FitsKept DEF TypeOK
<1> QED BY <1>2, <1>3, <1>4 DEF PresenceInv

-----------------------------------------------------------------------------
LEMMA PresenceInit ==
    ASSUME Init
    PROVE  PresenceInv
<1>1. 0 \in 0 .. Cardinality(Server)
  BY SocketAssumption, FS_CardinalityType
<1>2. << >> \in Seq(Message)
  BY EmptySeq
<1>3. TypeOK
  BY <1>1, <1>2 DEF Init, TypeOK
<1>4. ASSUME NEW k \in Socket
      PROVE  Begun(k)
  BY DEF Init, Begun, Collection
<1>5. ASSUME NEW c \in Collection
      PROVE  Fits(c)
  <2>1. phase[c] = "none" /\ count[c] = 0 /\ found[c] = {}
    BY DEF Init
  <2>2. Flight(inbox, c) = {}
    <3>1. \A s \in Server : \A i \in DOMAIN inbox[s] : FALSE
      BY DEF Init
    <3> QED BY <3>1, FlightPlaces
  <2>3. IsFiniteSet(Flight(inbox, c)) /\ IdleFits(c)
    BY <2>1, <2>2, FS_EmptySet DEF IdleFits
  <2>4. RoomFits(c) /\ CountFits(c) /\ GatheringFits(c) /\ CompleteFits(c)
    BY <2>1 DEF RoomFits, CountFits, GatheringFits, CompleteFits, Active, ActivePhase
  <2> QED BY <2>3, <2>4 DEF Fits
<1> QED BY <1>3, <1>4, <1>5 DEF PresenceInv

LEMMA PresenceStep ==
    ASSUME PresenceInv, [Next]_vars
    PROVE  PresenceInv'
<1>1. ASSUME NEW k \in Socket, Connect(k) \/ Admit(k) \/ Refuse(k) \/ Disconnect(k)
      PROVE  PresenceInv'
  BY <1>1, ConnectStep, AdmitStep, RefuseStep, DisconnectStep
<1>2. ASSUME NEW c \in Collection, Advance(c)
      PROVE  PresenceInv'
  BY <1>2, CountStep, AskStep, ExpireStep, TellStep DEF Advance
<1>3. ASSUME NEW s \in Server, Read(s) \/ Crash(s) \/ Start(s)
      PROVE  PresenceInv'
  BY <1>3, RespondStep, GatherStep, RelayStep, CrashStep, StartStep DEF Read
<1>4. CASE UNCHANGED vars
  BY <1>4 DEF vars, PresenceInv, TypeOK, Begun, Fits, RoomFits, IdleFits, CountFits,
              GatheringFits, CompleteFits, Active, Present
<1> QED BY <1>1, <1>2, <1>3, <1>4 DEF Next

\* The state of the adapters has its type, and what is under way for a collection
\* is as much as its server waits for.
THEOREM CollectionsAccounted == Spec => []PresenceInv
<1>1. Init => PresenceInv
  BY PresenceInit
<1>2. PresenceInv /\ [Next]_vars => PresenceInv'
  BY PresenceStep
<1> QED BY <1>1, <1>2, PTL DEF Spec

\* A list for which sendUpdateEvent got all responses it counted names everybody
\* who was in the room all the time, and nobody who was never there: whoever joins,
\* leaves, crashes or starts meanwhile, and however many collections overlap; but
\* for a server that subscribes between the count and the request.
THEOREM ListsFit == Spec => []ListFits
<1>1. PresenceInv => ListFits
  BY DEF PresenceInv, Fits, CompleteFits, ListFits
<1> QED BY <1>1, CollectionsAccounted, PTL
-----------------------------------------------------------------------------
(***************************************************************************)
(* What everybody sees once nothing is under way.                          *)
(***************************************************************************)
\* A server that reads q sends no list to its sockets.
NoUpdates(q) == \A i \in DOMAIN q : q[i].type # "update"

\* The last list it sends is users.
LastTells(q, users) ==
    \E i \in DOMAIN q :
        /\ q[i].type = "update" /\ q[i].users = users
        /\ \A j \in DOMAIN q : j > i => q[j].type # "update"

\* Before it answers the request of c it has read every list.
ListsFirst(q, c) ==
    \A i \in DOMAIN q : q[i].type = "update" =>
        \E j \in DOMAIN q : j > i /\ q[j].type = "request" /\ q[j].of = c

\* Socket k sees who is there, or will.
Shown(k) ==
    \/ NoUpdates(inbox[ServerOf[k]]) /\ view[k] = UsersOf(Present)
    \/ LastTells(inbox[ServerOf[k]], UsersOf(Present))

\* The only collection under way, about the sockets that are there.
Alone(c) ==
    /\ \A d \in Collection : Active(d) => d = c
    /\ phase[c] # "expired"
    /\ stayed[c] = Present
    /\ passed[c] = Present

\* No list of an earlier collection comes after the list of c.
InTurn(c) ==
    /\ phase[c] = "gathering" => ListsFirst(inbox[Home(c)], c)
    /\ phase[c] = "complete" => NoUpdates(inbox[Home(c)])

Settling ==
    ~ disturbed =>
        /\ spoiled = {}
        /\ \A c \in Collection : Active(c) => Alone(c) /\ InTurn(c)
        /\ (\A c \in Collection : ~ Active(c)) => \A k \in Present : Shown(k)

-----------------------------------------------------------------------------
\* Inboxes, when a message is added or taken.
LEMMA UpdatesOfAppend ==
    ASSUME NEW q \in Seq(Message), NEW m \in Message, NEW new, new = Append(q, m)
    PROVE  /\ NoUpdates(q) /\ m.type # "update" => NoUpdates(new)
           /\ \A users : LastTells(q, users) /\ m.type # "update" => LastTells(new, users)
           /\ \A c : ListsFirst(q, c) /\ m.type # "update" => ListsFirst(new, c)
           /\ m.type = "update" => LastTells(new, m.users)
           /\ \A c : m.type = "request" /\ m.of = c => ListsFirst(new, c)
<1>1. /\ Len(q) \in Nat
      /\ DOMAIN q = 1 .. Len(q)
      /\ DOMAIN new = 1 .. Len(q) + 1
      /\ new[Len(q) + 1] = m
      /\ \A i \in 1 .. Len(q) : new[i] = q[i]
  <2>1. /\ new \in Seq(Message)
        /\ Len(new) = Len(q) + 1
        /\ new[Len(q) + 1] = m
        /\ \A i \in 1 .. Len(q) : new[i] = q[i]
    BY AppendProperties
  <2> QED BY <2>1, LenProperties
<1>2. PICK n \in Nat : n = Len(q)
  BY <1>1
<1>3. /\ DOMAIN q = 1 .. n
      /\ DOMAIN new = 1 .. n + 1
      /\ new[n + 1] = m
      /\ \A i \in 1 .. n : i \in 1 .. n + 1 /\ new[i] = q[i] /\ n + 1 > i
      /\ \A i \in 1 .. n + 1 : i \in 1 .. n \/ i = n + 1
      /\ n + 1 \in 1 .. n + 1
  BY <1>1, <1>2
<1>4. NoUpdates(q) /\ m.type # "update" => NoUpdates(new)
  BY <1>3 DEF NoUpdates
<1>5. \A users : LastTells(q, users) /\ m.type # "update" => LastTells(new, users)
  BY <1>3 DEF LastTells
<1>6. \A c : ListsFirst(q, c) /\ m.type # "update" => ListsFirst(new, c)
  BY <1>3 DEF ListsFirst
<1>7. m.type = "update" => LastTells(new, m.users)
  <2>1. \A j \in DOMAIN new : ~ (j > n + 1)
    BY <1>3
  <2> QED BY <1>3, <2>1 DEF LastTells
<1>8. \A c : m.type = "request" /\ m.of = c => ListsFirst(new, c)
  BY <1>3 DEF ListsFirst
<1> QED BY <1>4, <1>5, <1>6, <1>7, <1>8

LEMMA UpdatesOfTail ==
    ASSUME NEW q \in Seq(Message), q # << >>, NEW new, new = Tail(q)
    PROVE  /\ NoUpdates(q) => NoUpdates(new) /\ Head(q).type # "update"
           /\ \A users : LastTells(q, users) =>
                 \/ LastTells(new, users)
                 \/ /\ Head(q).type = "update" /\ Head(q).users = users
                    /\ NoUpdates(new)
           /\ \A c : ListsFirst(q, c) => ListsFirst(new, c)
<1>1. /\ 1 \in DOMAIN q
      /\ Head(q) = q[1]
      /\ DOMAIN q \subseteq Nat
      /\ \A i \in DOMAIN new : i \in Nat /\ i + 1 \in DOMAIN q /\ new[i] = q[i + 1]
      /\ \A i \in DOMAIN q : i # 1 => \E j \in DOMAIN new : i = j + 1 /\ new[j] = q[i]
      /\ \A i \in DOMAIN q : i >= 1
  <2>1. \A i \in DOMAIN q : i >= 1
    BY LenProperties
  <2> QED BY <2>1, Popped
<1>2. NoUpdates(q) => NoUpdates(new) /\ Head(q).type # "update"
  BY <1>1 DEF NoUpdates
<1>3. ASSUME NEW users, LastTells(q, users)
      PROVE  \/ LastTells(new, users)
             \/ /\ Head(q).type = "update" /\ Head(q).users = users
                /\ NoUpdates(new)
  <2>1. PICK i \in DOMAIN q :
           /\ q[i].type = "update" /\ q[i].users = users
           /\ \A j \in DOMAIN q : j > i => q[j].type # "update"
    BY <1>3 DEF LastTells
  <2>2. CASE i = 1
    <3>1. \A j \in DOMAIN new : j \in Nat /\ j >= 1
      <4>1. \A j \in DOMAIN new : j \in Nat
        BY <1>1
      <4>2. new \in Seq(Message)
        BY HeadTailProperties
      <4> QED BY <4>1, <4>2, LenProperties
    <3>2. \A j \in DOMAIN new : j + 1 > 1
      BY <3>1
    <3>3. NoUpdates(new)
      BY <1>1, <2>1, <2>2, <3>2 DEF NoUpdates
    <3> QED BY <1>1, <2>1, <2>2, <3>3
  <2>3. CASE i # 1
    <3>1. PICK k \in DOMAIN new : i = k + 1 /\ new[k] = q[i]
      BY <1>1, <2>3
    <3>2. k \in Nat
      BY <1>1
    <3>3. ASSUME NEW j \in DOMAIN new, j > k
          PROVE  new[j].type # "update"
      <4>1. j \in Nat /\ j + 1 \in DOMAIN q /\ new[j] = q[j + 1]
        BY <1>1
      <4>2. j + 1 > i
        BY <3>1, <3>2, <3>3, <4>1
      <4> QED BY <2>1, <4>1, <4>2
    <3> QED BY <2>1, <3>1, <3>3 DEF LastTells
  <2> QED BY <2>2, <2>3
<1>4. ASSUME NEW c, ListsFirst(q, c)
      PROVE  ListsFirst(new, c)
  <2> SUFFICES ASSUME NEW i \in DOMAIN new, new[i].type = "update"
               PROVE  \E j \in DOMAIN new : j > i /\ new[j].type = "request" /\ new[j].of = c
    BY DEF ListsFirst
  <2>1. i \in Nat /\ i + 1 \in DOMAIN q /\ q[i + 1].type = "update"
    BY <1>1
  <2>2. PICK k \in DOMAIN q : k > i + 1 /\ q[k].type = "request" /\ q[k].of = c
    BY <1>4, <2>1 DEF ListsFirst
  <2>3. k # 1
    BY <2>1, <2>2
  <2>4. PICK j \in DOMAIN new : k = j + 1 /\ new[j] = q[k]
    BY <1>1, <2>3
  <2>5. j \in Nat
    BY <1>1
  <2>6. j > i
    BY <2>1, <2>2, <2>4, <2>5
  <2> QED BY <2>2, <2>4, <2>6
<1> QED BY <1>2, <1>3, <1>4

\* Once its request is answered there is no list left to send.
LEMMA ListsRead ==
    ASSUME NEW box \in Inboxes, NEW s \in Server, NEW c,
           ListsFirst(box[s], c), Flight(box, c) = {}
    PROVE  NoUpdates(box[s])
<1>1. \A i \in DOMAIN box[s] : ~ Serves(box[s][i], c)
  BY FlightPlaces
<1> QED BY <1>1 DEF NoUpdates, ListsFirst, Serves

\* A step that sends and relays no list.
Calm(s) ==
    /\ NoUpdates(inbox[s]) => NoUpdates(inbox'[s])
    /\ \A users : LastTells(inbox[s], users) => LastTells(inbox'[s], users)
    /\ \A c : ListsFirst(inbox[s], c) => ListsFirst(inbox'[s], c)

LEMMA CalmPop ==
    ASSUME inbox \in Inboxes, NEW s \in Server, inbox[s] # << >>,
           Head(inbox[s]).type # "update", inbox' = Pop(inbox, s),
           NEW t \in Server
    PROVE  Calm(t)
<1>1. CASE t # s
  <2>1. inbox'[t] = inbox[t]
    BY <1>1 DEF Pop, Inboxes
  <2> QED BY <2>1 DEF Calm
<1>2. CASE t = s
  <2>1. inbox[s] \in Seq(Message) /\ inbox'[s] = Tail(inbox[s])
    BY DEF Pop, Inboxes
  <2>2. /\ NoUpdates(inbox[s]) => NoUpdates(inbox'[s])
        /\ \A users : LastTells(inbox[s], users) =>
              LastTells(inbox'[s], users) \/ Head(inbox[s]).type = "update"
        /\ \A c : ListsFirst(inbox[s], c) => ListsFirst(inbox'[s], c)
    BY <2>1, UpdatesOfTail
  <2> QED BY <1>2, <2>2 DEF Calm
<1> QED BY <1>1, <1>2
LEMMA CalmReply ==
    ASSUME inbox \in Inboxes, NEW s \in Server, inbox[s] # << >>,
           Head(inbox[s]).type # "update",
           NEW h \in Server, NEW m \in Message, m.type # "update",
           inbox' = Push(Pop(inbox, s), h, m),
           NEW t \in Server
    PROVE  Calm(t)
<1>1. PICK rest : rest = Pop(inbox, s)
  OBVIOUS
<1>2. /\ inbox[s] \in Seq(Message)
      /\ rest[s] = Tail(inbox[s])
      /\ \A r \in Server \ {s} : rest[r] = inbox[r]
      /\ DOMAIN rest = Server
  BY <1>1 DEF Pop, Inboxes
<1>3. /\ rest[t] \in Seq(Message)
      /\ NoUpdates(inbox[t]) => NoUpdates(rest[t])
      /\ \A users : LastTells(inbox[t], users) => LastTells(rest[t], users)
      /\ \A c : ListsFirst(inbox[t], c) => ListsFirst(rest[t], c)
  <2>1. CASE t # s
    BY <1>2, <2>1 DEF Inboxes
  <2>2. CASE t = s
    <3>1. rest[s] \in Seq(Message)
      BY <1>2, HeadTailProperties
    <3>2. /\ NoUpdates(inbox[s]) => NoUpdates(rest[s])
          /\ \A users : LastTells(inbox[s], users) =>
                LastTells(rest[s], users) \/ Head(inbox[s]).type = "update"
          /\ \A c : ListsFirst(inbox[s], c) => ListsFirst(rest[s], c)
      BY <1>2, UpdatesOfTail
    <3> QED BY <2>2, <3>1, <3>2
  <2> QED BY <2>1, <2>2
<1>4. inbox' = [rest EXCEPT ![h] = Append(rest[h], m)]
  BY <1>1 DEF Push
<1>5. inbox'[t] = IF t = h THEN Append(rest[t], m) ELSE rest[t]
  BY <1>2, <1>4
<1>6. CASE t # h
  BY <1>3, <1>5, <1>6 DEF Calm
<1>7. CASE t = h
  <2>1. inbox'[t] = Append(rest[t], m)
    BY <1>5, <1>7
  <2>2. /\ NoUpdates(rest[t]) => NoUpdates(inbox'[t])
        /\ \A users : LastTells(rest[t], users) => LastTells(inbox'[t], users)
        /\ \A c : ListsFirst(rest[t], c) => ListsFirst(inbox'[t], c)
    BY <1>3, <2>1, UpdatesOfAppend
  <2> QED BY <1>3, <2>2 DEF Calm
<1> QED BY <1>6, <1>7

LEMMA CalmSame ==
    ASSUME inbox' = inbox, NEW t \in Server
    PROVE  Calm(t)
BY DEF Calm

LEMMA HomeInRoom ==
    ASSUME TypeOK, NEW k \in Present
    PROVE  k \in Socket /\ ServerOf[k] \in Server
BY SocketAssumption DEF Present

\* Nothing happens to the room, the collections and what everybody sees.
LEMMA CalmKeeps ==
    ASSUME PresenceInv, Settling, \A t \in Server : Calm(t),
           Present' = Present,
           UNCHANGED <<view, phase, stayed, passed, spoiled, disturbed>>
    PROVE  Settling'
<1> SUFFICES ASSUME ~ disturbed
             PROVE  /\ spoiled' = {}
                    /\ \A c \in Collection : Active(c)' => Alone(c)' /\ InTurn(c)'
                    /\ (\A c \in Collection : ~ Active(c)') => \A k \in Present' : Shown(k)'
  BY DEF Settling
<1>1. /\ spoiled = {}
      /\ \A c \in Collection : Active(c) => Alone(c) /\ InTurn(c)
      /\ (\A c \in Collection : ~ Active(c)) => \A k \in Present : Shown(k)
  BY DEF Settling
<1>2. \A c \in Collection : Active(c)' = Active(c)
  BY DEF Active
<1>3. ASSUME NEW c \in Collection, Active(c)
      PROVE  Alone(c)' /\ InTurn(c)'
  <2>1. Alone(c)'
    BY <1>1, <1>2, <1>3 DEF Alone
  <2>2. Calm(Home(c))
    BY HomeIsServer
  <2>3. InTurn(c)'
    BY <1>1, <1>3, <2>2 DEF InTurn, Calm, Home
  <2> QED BY <2>1, <2>3
<1>4. ASSUME NEW k \in Present, Shown(k)
      PROVE  Shown(k)'
  <2>1. Calm(ServerOf[k])
    BY HomeInRoom DEF PresenceInv
  <2> QED BY <1>4, <2>1 DEF Shown, Calm
<1> QED BY <1>1, <1>2, <1>3, <1>4

\* A collection begins when somebody comes or goes.
LEMMA SendsSettling ==
    ASSUME PresenceInv, Settling, NEW c \in Collection, phase[c] = "none",
           SendUpdateEvent(c), UNCHANGED spoiled
    PROVE  Settling'
<1> SUFFICES ASSUME ~ disturbed'
             PROVE  /\ spoiled' = {}
                    /\ \A d \in Collection : Active(d)' => Alone(d)' /\ InTurn(d)'
                    /\ \E d \in Collection : Active(d)'
  BY DEF Settling
<1>1. /\ ~ disturbed /\ \A d \in Collection : ~ Active(d)
      /\ Track({c}) /\ phase' = [phase EXCEPT ![c] = "asking"]
  BY DEF SendUpdateEvent
<1>2. phase'[c] = "asking" /\ \A d \in Collection : d # c => phase'[d] = phase[d]
  BY <1>1 DEF PresenceInv, TypeOK
<1>3. \A d \in Collection : Active(d)' <=> d = c
  BY <1>1, <1>2 DEF Active, ActivePhase
<1>4. stayed'[c] = Present' /\ passed'[c] = Present'
  BY <1>1, TrackTypes
<1>5. Alone(c)' /\ InTurn(c)'
  BY <1>2, <1>3, <1>4 DEF Alone, InTurn
<1>6. spoiled' = {}
  BY <1>1 DEF Settling
<1> QED BY <1>3, <1>5, <1>6

LEMMA SocketSettling ==
    ASSUME PresenceInv, Settling, NEW k \in Socket,
           Connect(k) \/ Admit(k) \/ Refuse(k) \/ Disconnect(k)
    PROVE  Settling'
<1>1. ASSUME UNCHANGED <<view, inbox, phase, stayed, passed, spoiled, disturbed>>,
             Present' = Present
      PROVE  Settling'
  BY <1>1, CalmSame, CalmKeeps
<1>2. CASE Connect(k) \/ Refuse(k)
  <2>1. Present' = Present
    BY <1>2 DEF PresenceInv, TypeOK, Connect, Refuse, Present
  <2> QED BY <1>1, <1>2, <2>1 DEF Connect, Refuse
<1>3. CASE Admit(k)
  <2>1. phase[<<k, "join">>] = "none" /\ <<k, "join">> \in Collection
    BY <1>3 DEF PresenceInv, Begun, Admit, Collection
  <2> QED BY <1>3, <2>1, SendsSettling DEF Admit
<1>4. CASE Disconnect(k) /\ conn[k] = "joined"
  <2>1. phase[<<k, "leave">>] = "none" /\ <<k, "leave">> \in Collection
    BY <1>4 DEF PresenceInv, Begun, Collection
  <2> QED BY <1>4, <2>1, SendsSettling DEF Disconnect
<1>5. CASE Disconnect(k) /\ conn[k] = "connecting"
  <2>1. Present' = Present
    BY <1>5 DEF PresenceInv, TypeOK, Disconnect, Present
  <2> QED BY <1>1, <1>5, <2>1 DEF Disconnect
<1> QED BY <1>2, <1>3, <1>4, <1>5 DEF Disconnect

\* A collection goes on.
LEMMA GoesOnSettling ==
    ASSUME PresenceInv, Settling, NEW c \in Collection, Active(c), NEW p,
           p \in ActivePhase \ {"expired"},
           phase' = [phase EXCEPT ![c] = p],
           p = "gathering" => ListsFirst(inbox'[Home(c)], c),
           p = "complete" /\ ~ disturbed => NoUpdates(inbox'[Home(c)]),
           Present' = Present, UNCHANGED <<stayed, passed, spoiled, disturbed>>
    PROVE  Settling'
<1> SUFFICES ASSUME ~ disturbed
             PROVE  /\ spoiled' = {}
                    /\ \A d \in Collection : Active(d)' => Alone(d)' /\ InTurn(d)'
                    /\ \E d \in Collection : Active(d)'
  BY DEF Settling
<1>1. phase'[c] = p /\ \A d \in Collection : d # c => phase'[d] = phase[d]
  BY DEF PresenceInv, TypeOK
<1>2. Alone(c)
  BY DEF Settling
<1>3. \A d \in Collection : Active(d)' <=> d = c
  BY <1>1, <1>2 DEF Alone, Active
<1>4. Alone(c)'
  BY <1>1, <1>2, <1>3 DEF Alone
<1>5. InTurn(c)'
  BY <1>1 DEF InTurn, Home
<1>6. spoiled' = {}
  BY DEF Settling
<1> QED BY <1>3, <1>4, <1>5, <1>6

LEMMA CountSettling ==
    ASSUME PresenceInv, Settling, NEW c \in Collection, Count(c)
    PROVE  Settling'
<1>1. /\ Active(c)
      /\ phase' = [phase EXCEPT ![c] = "counted"]
      /\ Present' = Present
      /\ UNCHANGED <<stayed, passed, spoiled, disturbed>>
  BY DEF Count, Active, ActivePhase, Present
<1> QED BY <1>1, GoesOnSettling DEF ActivePhase

\* The request is read after every list that is waiting.
LEMMA AskSettling ==
    ASSUME PresenceInv, Settling, NEW c \in Collection, Ask(c)
    PROVE  Settling'
<1>1. /\ Active(c)
      /\ phase' = [phase EXCEPT ![c] = "gathering"]
      /\ Present' = Present
      /\ UNCHANGED <<stayed, passed, spoiled, disturbed>>
      /\ Home(c) \in up /\ Home(c) \in Server
      /\ inbox[Home(c)] \in Seq(Message)
      /\ inbox'[Home(c)] = Append(inbox[Home(c)], [type |-> "request", of |-> c])
  BY HomeIsServer DEF Ask, Free, Active, ActivePhase, Present, PresenceInv, TypeOK
<1>2. PICK m : m = [type |-> "request", of |-> c]
  OBVIOUS
<1>m. m \in Message /\ m.type = "request" /\ m.of = c
  BY <1>2 DEF Message
<1>3. PICK q \in Seq(Message) : q = inbox[Home(c)]
  BY <1>1
<1>4. ListsFirst(Append(q, m), c)
  BY <1>m, UpdatesOfAppend
<1>5. ListsFirst(inbox'[Home(c)], c)
  BY <1>1, <1>2, <1>3, <1>4
<1> QED BY <1>1, <1>5, GoesOnSettling DEF ActivePhase

LEMMA TypeOfHead ==
    ASSUME PresenceInv, NEW s \in Server, inbox[s] # << >>
    PROVE  Head(inbox[s]) \in Message /\ Head(inbox[s]).of \in Collection
<1>1. Head(inbox[s]) \in Message
  BY HeadTailProperties DEF PresenceInv, TypeOK
<1> QED BY <1>1 DEF Message

LEMMA RespondSettling ==
    ASSUME PresenceInv, Settling, NEW s \in Server, Respond(s)
    PROVE  Settling'
<1> DEFINE d == Head(inbox[s]).of
           m == [type |-> "response", of |-> d, users |-> UsersOf(LocalSockets(s))]
<1>1. /\ inbox \in Inboxes /\ inbox[s] # << >> /\ Head(inbox[s]).type # "update"
      /\ d \in Collection /\ Home(d) \in Server
  BY TypeOfHead, HomeIsServer DEF Respond, Reads, PresenceInv, TypeOK, Inboxes
<1>2. m \in Message /\ m.type # "update"
  BY <1>1, SocketAssumption DEF Message, UsersOf, LocalSockets, Present
<1>3. /\ \/ inbox' = Push(Pop(inbox, s), Home(d), m)
         \/ inbox' = Pop(inbox, s)
      /\ Present' = Present
      /\ UNCHANGED <<view, phase, stayed, passed, spoiled, disturbed>>
  BY DEF Respond, Push, Pop, Present
<1> HIDE DEF m
<1>4. \A t \in Server : Calm(t)
  BY <1>1, <1>2, <1>3, CalmPop, CalmReply
<1> QED BY <1>3, <1>4, CalmKeeps

\* The answer of the server that collects is among those it counts: it has read the
\* lists before.
LEMMA GatherSettling ==
    ASSUME PresenceInv, Settling, NEW s \in Server, Gather(s)
    PROVE  Settling'
<1>1. PICK c : c = Head(inbox[s]).of
  OBVIOUS
<1>2. /\ inbox \in Inboxes /\ inbox[s] # << >>
      /\ Head(inbox[s]).type = "response" /\ Head(inbox[s]).type # "update"
      /\ c \in Collection /\ inbox' = Pop(inbox, s)
  BY <1>1, TypeOfHead DEF Gather, Reads, Pop, PresenceInv, TypeOK, Inboxes
<1>3. /\ Present' = Present
      /\ UNCHANGED <<view, stayed, passed, spoiled, disturbed, numsub>>
  BY DEF Gather, Present
<1>4. \A t \in Server : Calm(t)
  BY <1>2, CalmPop
<1>5. CASE phase[c] # "gathering"
  <2>1. phase' = phase
    BY <1>1, <1>5 DEF Gather
  <2> QED BY <1>3, <1>4, <2>1, CalmKeeps
<1>6. CASE phase[c] = "gathering"
  <2>1. PICK p : p = IF count[c] + 1 = numsub[c] THEN "complete" ELSE "gathering"
    OBVIOUS
  <2>2. phase' = [phase EXCEPT ![c] = p]
    BY <1>1, <1>6, <2>1 DEF Gather
  <2>3. Active(c) /\ p \in ActivePhase \ {"expired"}
    BY <1>6, <2>1 DEF Active, ActivePhase
  <2>4. ASSUME ~ disturbed
        PROVE  ListsFirst(inbox'[Home(c)], c)
    <3>1. ListsFirst(inbox[Home(c)], c)
      BY <1>2, <1>6, <2>3, <2>4 DEF Settling, InTurn
    <3> QED BY <1>2, <1>4, <3>1, HomeIsServer DEF Calm
  <2>5. ASSUME ~ disturbed, p = "complete"
        PROVE  NoUpdates(inbox'[Home(c)])
    <3>1. c \notin spoiled /\ count[c] + 1 = numsub[c]
      BY <2>1, <2>5 DEF Settling
    <3>2. /\ count[c] + Cardinality(Flight(inbox, c)) <= numsub[c]
          /\ IsFiniteSet(Flight(inbox, c))
      BY <1>2, <1>6, <3>1 DEF PresenceInv, Fits, GatheringFits
    <3>3. Serves(Head(inbox[s]), c)
      BY <1>1, <1>2 DEF Serves
    <3>4. /\ inbox' \in Inboxes
          /\ IsFiniteSet(Flight(inbox', c))
          /\ Cardinality(Flight(inbox', c)) \in Nat
          /\ Cardinality(Flight(inbox, c)) \in Nat
          /\ Cardinality(Flight(inbox', c)) <= Cardinality(Flight(inbox, c)) - 1
      BY <1>2, <3>2, <3>3, FlightOfPop
    <3>5. count[c] \in Nat /\ numsub[c] \in Nat
      BY <1>2, Numbers
    <3>6. Cardinality(Flight(inbox', c)) <= 0
      BY <3>1, <3>2, <3>4, <3>5
    <3>7. Flight(inbox', c) = {}
      BY <3>4, <3>6, NoneIsEmpty
    <3> QED BY <1>2, <2>4, <2>5, <3>4, <3>7, HomeIsServer, ListsRead
  <2>6. CASE disturbed
    BY <1>3, <2>6 DEF Settling
  <2>7. CASE ~ disturbed
    BY <1>2, <1>3, <2>2, <2>3, <2>4, <2>5, <2>7, GoesOnSettling
  <2> QED BY <2>6, <2>7
<1> QED BY <1>5, <1>6

LEMMA RelaySettling ==
    ASSUME PresenceInv, Settling, NEW s \in Server, Relay(s)
    PROVE  Settling'
<1> SUFFICES ASSUME ~ disturbed
             PROVE  /\ spoiled' = {}
                    /\ \A c \in Collection : Active(c)' => Alone(c)' /\ InTurn(c)'
                    /\ (\A c \in Collection : ~ Active(c)') => \A k \in Present' : Shown(k)'
  BY DEF Settling, Relay
<1>1. /\ inbox \in Inboxes /\ inbox[s] # << >> /\ Head(inbox[s]).type = "update"
      /\ inbox[s] \in Seq(Message)
      /\ inbox'[s] = Tail(inbox[s])
      /\ \A t \in Server : t # s => inbox'[t] = inbox[t]
      /\ Present' = Present
      /\ UNCHANGED <<phase, stayed, passed, spoiled, disturbed>>
  BY DEF Relay, Reads, PresenceInv, TypeOK, Inboxes, Present
<1>2. /\ \A k \in Present : ServerOf[k] = s => view'[k] = Head(inbox[s]).users
      /\ \A k \in Present : ServerOf[k] # s => view'[k] = view[k]
  BY DEF Relay, Deliver, LocalSockets, Present
<1>3. /\ spoiled = {}
      /\ \A c \in Collection : Active(c) => Alone(c) /\ InTurn(c)
      /\ (\A c \in Collection : ~ Active(c)) => \A k \in Present : Shown(k)
  BY DEF Settling
<1>4. \A c \in Collection : Active(c)' = Active(c)
  BY <1>1 DEF Active
<1>5. /\ ~ NoUpdates(inbox[s])
      /\ \A users : LastTells(inbox[s], users) =>
            \/ LastTells(inbox'[s], users)
            \/ Head(inbox[s]).users = users /\ NoUpdates(inbox'[s])
      /\ \A c : ListsFirst(inbox[s], c) => ListsFirst(inbox'[s], c)
  <2>1. PICK q \in Seq(Message) : q = inbox[s]
    BY <1>1
  <2>2. q # << >> /\ inbox'[s] = Tail(q)
    BY <1>1, <2>1
  <2>3. /\ NoUpdates(q) => Head(q).type # "update"
        /\ \A users : LastTells(q, users) =>
              \/ LastTells(inbox'[s], users)
              \/ Head(q).users = users /\ NoUpdates(inbox'[s])
        /\ \A c : ListsFirst(q, c) => ListsFirst(inbox'[s], c)
    BY <2>2, UpdatesOfTail
  <2> QED BY <1>1, <2>1, <2>3
<1>6. ASSUME NEW c \in Collection, Active(c)
      PROVE  Alone(c)' /\ InTurn(c)'
  <2>1. Alone(c)'
    BY <1>1, <1>3, <1>4, <1>6 DEF Alone
  <2>2. Home(c) \in Server
    BY HomeIsServer
  <2>3. InTurn(c)'
    <3>1. CASE Home(c) # s
      <4>1. inbox'[Home(c)] = inbox[Home(c)]
        BY <1>1, <2>2, <3>1
      <4> QED BY <1>1, <1>3, <1>6, <4>1 DEF InTurn, Home
    <3>2. CASE Home(c) = s
      BY <1>1, <1>3, <1>5, <1>6, <3>2 DEF InTurn, Home
    <3> QED BY <3>1, <3>2
  <2> QED BY <2>1, <2>3
<1>7. ASSUME NEW k \in Present, Shown(k)
      PROVE  Shown(k)'
  <2>1. CASE ServerOf[k] # s
    <3>1. inbox'[ServerOf[k]] = inbox[ServerOf[k]] /\ view'[k] = view[k]
      BY <1>1, <1>2, <2>1, HomeInRoom DEF PresenceInv
    <3> QED BY <1>1, <1>7, <3>1 DEF Shown
  <2>2. CASE ServerOf[k] = s
    <3>1. LastTells(inbox[s], UsersOf(Present))
      BY <1>5, <1>7, <2>2 DEF Shown
    <3>2. \/ LastTells(inbox'[s], UsersOf(Present))
          \/ view'[k] = UsersOf(Present) /\ NoUpdates(inbox'[s])
      BY <1>2, <1>5, <2>2, <3>1
    <3> QED BY <1>1, <2>2, <3>2 DEF Shown
  <2> QED BY <2>1, <2>2
<1> QED BY <1>1, <1>3, <1>4, <1>6, <1>7

\* The list of a collection that was alone names exactly who is there, and it is
\* the last one everybody gets.
LEMMA TellSettling ==
    ASSUME PresenceInv, Settling, NEW c \in Collection, Tell(c)
    PROVE  Settling'
<1> SUFFICES ASSUME ~ disturbed
             PROVE  /\ spoiled' = {}
                    /\ \A d \in Collection : ~ Active(d)'
                    /\ \A k \in Present' : Shown(k)'
  BY DEF Settling, Tell
<1>1. PICK m : m = [type |-> "update", of |-> c, users |-> ListOf(c)]
  OBVIOUS
<1>2. /\ inbox' = [s \in Server |-> IF s \in up \ {Home(c)} THEN Append(inbox[s], m)
                                    ELSE inbox[s]]
      /\ phase[c] \in {"complete", "expired"} /\ Active(c)
      /\ phase'[c] \in {"told", "void"}
      /\ \A d \in Collection : d # c => phase'[d] = phase[d]
      /\ Present' = Present /\ spoiled' = spoiled
      /\ view' = [k \in Socket |-> IF k \in LocalSockets(Home(c)) THEN ListOf(c) ELSE view[k]]
  BY <1>1 DEF Tell, EndPhase, Deliver, Active, ActivePhase, Present, PresenceInv, TypeOK
<1>3. Alone(c) /\ InTurn(c) /\ spoiled = {}
  BY <1>2 DEF Settling
<1>4. phase[c] = "complete"
  BY <1>2, <1>3 DEF Alone
<1>5. ListOf(c) = UsersOf(Present)
  <2>1. UsersOf(stayed[c]) \subseteq found[c] /\ found[c] \subseteq UsersOf(passed[c])
    BY <1>3, <1>4 DEF PresenceInv, Fits, CompleteFits
  <2> QED BY <1>3, <1>4, <2>1 DEF Alone, ListOf
<1>6. m \in Message /\ m.type = "update" /\ m.users = UsersOf(Present)
  BY <1>1, <1>5, SocketAssumption DEF Message, UsersOf, Present
<1>7. ASSUME NEW k \in Present
      PROVE  Shown(k)'
  <2>1. k \in Socket /\ ServerOf[k] \in Server /\ ServerOf[k] \in up
    BY HomeInRoom DEF PresenceInv, Begun, Present
  <2>2. CASE ServerOf[k] = Home(c)
    <3>1. inbox'[Home(c)] = inbox[Home(c)] /\ NoUpdates(inbox[Home(c)])
      BY <1>2, <1>3, <1>4, <2>1, <2>2 DEF InTurn
    <3>2. view'[k] = UsersOf(Present)
      BY <1>2, <1>5, <2>1, <2>2 DEF LocalSockets
    <3> QED BY <1>2, <2>2, <3>1, <3>2 DEF Shown
  <2>3. CASE ServerOf[k] # Home(c)
    <3>1. inbox'[ServerOf[k]] = Append(inbox[ServerOf[k]], m)
      BY <1>2, <2>1, <2>3
    <3>2. inbox[ServerOf[k]] \in Seq(Message)
      BY <2>1 DEF PresenceInv, TypeOK
    <3>3. LastTells(inbox'[ServerOf[k]], m.users)
      BY <1>6, <3>1, <3>2, UpdatesOfAppend
    <3> QED BY <1>2, <1>6, <3>3 DEF Shown
  <2> QED BY <2>2, <2>3
<1>8. \A d \in Collection : ~ Active(d)'
  BY <1>2, <1>3 DEF Alone, Active, ActivePhase
<1> QED BY <1>2, <1>3, <1>7, <1>8

LEMMA StartSettling ==
    ASSUME PresenceInv, Settling, NEW s \in Server, Start(s)
    PROVE  Settling'
<1>1. CASE disturbed'
  BY <1>1 DEF Settling
<1>2. CASE ~ disturbed'
  <2>1. ~ disturbed /\ \A c \in Collection : ~ Active(c)
    BY <1>2 DEF Start
  <2>2. \A c \in Collection : phase[c] # "counted"
    BY <2>1 DEF Active, ActivePhase
  <2>3. {c \in Collection : phase[c] = "counted"} = {}
    BY <2>2
  <2>4. /\ spoiled' = spoiled
        /\ UNCHANGED <<conn, view, inbox, phase, stayed, passed>>
    BY <2>3 DEF Start
  <2>5. Present' = Present
    BY <2>4 DEF Present
  <2>6. disturbed' = disturbed
    <3>1. disturbed \in BOOLEAN /\ disturbed' \in BOOLEAN
      BY DEF PresenceInv, TypeOK, Start
    <3> QED BY <1>2, <2>1, <3>1
  <2> QED BY <2>4, <2>5, <2>6, CalmSame, CalmKeeps
<1> QED BY <1>1, <1>2

LEMMA SettlingInit ==
    ASSUME Init
    PROVE  Settling
<1>1. spoiled = {} /\ \A c \in Collection : ~ Active(c)
  BY DEF Init, Active, ActivePhase
<1>2. Present = {}
  BY DEF Init, Present
<1> QED BY <1>1, <1>2 DEF Settling

LEMMA SettlingStep ==
    ASSUME PresenceInv, Settling, [Next]_vars
    PROVE  Settling'
<1>1. ASSUME NEW k \in Socket, Connect(k) \/ Admit(k) \/ Refuse(k) \/ Disconnect(k)
      PROVE  Settling'
  BY <1>1, SocketSettling
<1>2. ASSUME NEW c \in Collection, Advance(c)
      PROVE  Settling'
  <2>1. Expire(c) => Settling'
    BY DEF Expire, Settling
  <2> QED BY <1>2, <2>1, CountSettling, AskSettling, TellSettling DEF Advance
<1>3. ASSUME NEW s \in Server, Read(s) \/ Crash(s) \/ Start(s)
      PROVE  Settling'
  <2>1. Crash(s) => Settling'
    BY DEF Crash, Settling
  <2> QED BY <1>3, <2>1, RespondSettling, GatherSettling, RelaySettling, StartSettling DEF Read
<1>4. CASE UNCHANGED vars
  <2>1. /\ Present' = Present
        /\ UNCHANGED <<view, inbox, phase, stayed, passed, spoiled, disturbed>>
    BY <1>4 DEF vars, Present
  <2> QED BY <2>1, CalmSame, CalmKeeps
<1> QED BY <1>1, <1>2, <1>3, <1>4 DEF Next

\* While no two collections overlap and no server fails, a collection is about
\* exactly the sockets in the room, its server has read every earlier list when the
\* last response comes, and whoever does not see the room as it is has a list
\* waiting that shows it.
THEOREM RoomSettles == Spec => [](PresenceInv /\ Settling)
<1>1. Init => PresenceInv /\ Settling
  BY PresenceInit, SettlingInit
<1>2. PresenceInv /\ Settling /\ [Next]_vars => (PresenceInv /\ Settling)'
  BY PresenceStep, SettlingStep
<1> QED BY <1>1, <1>2, PTL DEF Spec

\* When sendUpdateEvent was never at work twice at a time, no request expired and no
\* server failed, everybody in the room sees exactly who is there as soon as all
\* messages are read: lists that come through Redis never overtake each other.
THEOREM EverybodySeesTheRoom == Spec => []SettlesUndisturbed
<1>1. PresenceInv /\ Settling => SettlesUndisturbed
  <2> SUFFICES ASSUME PresenceInv, Settling, Quiet, ~ disturbed, NEW k \in Present
               PROVE  view[k] = UsersOf(Present)
    BY DEF SettlesUndisturbed
  <2>1. Shown(k)
    BY DEF Settling, Quiet
  <2>2. inbox[ServerOf[k]] = << >>
    BY HomeInRoom DEF Quiet, PresenceInv
  <2>3. ~ LastTells(inbox[ServerOf[k]], UsersOf(Present))
    BY <2>2 DEF LastTells
  <2> QED BY <2>1, <2>3 DEF Shown
<1> QED BY <1>1, RoomSettles, PTL
=============================================================================
