---------------------------- MODULE MailsProofs ----------------------------
(***************************************************************************)
(* Theorems about the mails of Pages, for documents, logs and edits of any *)
(* number: what they show, and whom they leave out.                        *)
(***************************************************************************)
EXTENDS PagesProofs, FiniteSetTheorems

-----------------------------------------------------------------------------
(***************************************************************************)
(* The contents after each revision.                                       *)
(***************************************************************************)
Unrolls(g, doc, ops, m) ==
    g = [n \in 0..m |-> IF n = 0 THEN doc ELSE Apply(g[n - 1], ops[n])]

LEMMA UnrollingExists ==
    ASSUME NEW doc, NEW ops
    PROVE  \A m \in Nat : \E g : Unrolls(g, doc, ops, m)
<1> DEFINE T == {m \in Nat : \E g : Unrolls(g, doc, ops, m)}
<1>1. 0 \in T
  <2>1. PICK g : g = [n \in 0..0 |-> doc]
    OBVIOUS
  <2>2. Unrolls(g, doc, ops, 0)
    BY <2>1 DEF Unrolls
  <2> QED BY <2>2
<1>2. ASSUME NEW m \in Nat, m \in T
      PROVE  m + 1 \in T
  <2>1. PICK g : Unrolls(g, doc, ops, m)
    BY <1>2
  <2>2. PICK h : h = [n \in 0..(m + 1) |->
                         IF n = m + 1 THEN Apply(g[m], ops[m + 1]) ELSE g[n]]
    OBVIOUS
  <2>3. ASSUME NEW n \in 0..(m + 1)
        PROVE  h[n] = IF n = 0 THEN doc ELSE Apply(h[n - 1], ops[n])
    <3>1. CASE n = 0
      <4>1. 0 \in 0..m /\ 0 # m + 1
        OBVIOUS
      <4> QED BY <2>1, <2>2, <3>1, <4>1 DEF Unrolls
    <3>2. CASE n \in 1..m
      <4>1. /\ n \in 0..m /\ n # m + 1 /\ n # 0
            /\ n - 1 \in 0..(m + 1) /\ n - 1 # m + 1
        BY <3>2
      <4>2. h[n] = g[n] /\ h[n - 1] = g[n - 1]
        BY <2>2, <4>1
      <4>3. g[n] = Apply(g[n - 1], ops[n])
        BY <2>1, <4>1 DEF Unrolls
      <4> QED BY <4>1, <4>2, <4>3
    <3>3. CASE n = m + 1
      <4>1. n # 0 /\ n - 1 = m /\ m \in 0..(m + 1) /\ m # m + 1
        BY <3>3
      <4>2. h[n] = Apply(g[m], ops[m + 1]) /\ h[m] = g[m]
        BY <2>2, <3>3, <4>1
      <4> QED BY <3>3, <4>1, <4>2
    <3> QED BY <3>1, <3>2, <3>3
  <2>4. Unrolls(h, doc, ops, m + 1)
    BY <2>2, <2>3 DEF Unrolls
  <2> QED BY <2>4
<1>3. Nat \subseteq T
  <2> HIDE DEF T
  <2> QED BY <1>1, <1>2, SetInduction
<1> QED BY <1>3

LEMMA UnrollingsAgree ==
    ASSUME NEW doc, NEW ops, NEW m \in Nat, NEW k \in Nat, m <= k,
           NEW g, NEW h, Unrolls(g, doc, ops, m), Unrolls(h, doc, ops, k)
    PROVE  \A n \in 0..m : g[n] = h[n]
<1> DEFINE T == {n \in Nat : n <= m => g[n] = h[n]}
<1>1. 0 \in T
  <2>1. 0 \in 0..m /\ 0 \in 0..k
    OBVIOUS
  <2>2. g[0] = doc /\ h[0] = doc
    BY <2>1 DEF Unrolls
  <2> QED BY <2>2
<1>2. ASSUME NEW n \in Nat, n \in T
      PROVE  n + 1 \in T
  <2>1. SUFFICES ASSUME n + 1 <= m PROVE g[n + 1] = h[n + 1]
    OBVIOUS
  <2>2. n + 1 \in 0..m /\ n + 1 \in 0..k /\ n + 1 # 0 /\ n + 1 - 1 = n /\ n <= m
    BY <2>1
  <2>3. g[n + 1] = Apply(g[n], ops[n + 1]) /\ h[n + 1] = Apply(h[n], ops[n + 1])
    BY <2>2 DEF Unrolls
  <2> QED BY <1>2, <2>2, <2>3
<1>3. Nat \subseteq T
  <2> HIDE DEF T
  <2> QED BY <1>1, <1>2, SetInduction
<1> QED BY <1>3

LEMMA ContentsUnroll ==
    ASSUME NEW doc, NEW ops, NEW m \in Nat
    PROVE  \E g : Unrolls(g, doc, ops, m) /\ Contents(doc, ops, m) = g[m]
<1>1. PICK g : g = CHOOSE f : Unrolls(f, doc, ops, m)
  OBVIOUS
<1>2. Unrolls(g, doc, ops, m)
  BY <1>1, UnrollingExists
<1>3. Contents(doc, ops, m) = g[m]
  BY <1>1 DEF Contents, Unrolls
<1> QED BY <1>2, <1>3

LEMMA ContentsStart ==
    ASSUME NEW doc, NEW ops
    PROVE  Contents(doc, ops, 0) = doc
<1>1. PICK g : Unrolls(g, doc, ops, 0) /\ Contents(doc, ops, 0) = g[0]
  BY ContentsUnroll
<1>2. 0 \in 0..0
  OBVIOUS
<1> QED BY <1>1, <1>2 DEF Unrolls

LEMMA ContentsStep ==
    ASSUME NEW doc, NEW ops, NEW n \in Nat
    PROVE  Contents(doc, ops, n + 1) = Apply(Contents(doc, ops, n), ops[n + 1])
<1>1. PICK m : m = n + 1
  OBVIOUS
<1>2. m \in Nat /\ n <= m
  BY <1>1
<1>3. PICK g : Unrolls(g, doc, ops, n) /\ Contents(doc, ops, n) = g[n]
  BY ContentsUnroll
<1>4. PICK h : Unrolls(h, doc, ops, m) /\ Contents(doc, ops, m) = h[m]
  BY <1>2, ContentsUnroll
<1>5. g[n] = h[n]
  <2>1. n \in 0..n
    OBVIOUS
  <2> QED BY <1>2, <1>3, <1>4, <2>1, UnrollingsAgree
<1>6. h[m] = Apply(h[n], ops[m])
  <2>1. m \in 0..m /\ m # 0 /\ m - 1 = n
    BY <1>1
  <2> QED BY <1>4, <2>1 DEF Unrolls
<1> QED BY <1>1, <1>3, <1>4, <1>5, <1>6

\* The contents after a revision do not depend on what follows it.
LEMMA ContentsAgree ==
    ASSUME NEW doc, NEW ops, NEW more, NEW m \in Nat, \A n \in 1..m : ops[n] = more[n]
    PROVE  Contents(doc, ops, m) = Contents(doc, more, m)
<1> DEFINE T == {n \in Nat : n <= m => Contents(doc, ops, n) = Contents(doc, more, n)}
<1>1. 0 \in T
  BY ContentsStart
<1>2. ASSUME NEW n \in Nat, n \in T
      PROVE  n + 1 \in T
  <2>1. SUFFICES ASSUME n + 1 <= m
                 PROVE  Contents(doc, ops, n + 1) = Contents(doc, more, n + 1)
    OBVIOUS
  <2>2. n + 1 \in 1..m /\ n <= m
    BY <2>1
  <2>3. ops[n + 1] = more[n + 1]
    BY <2>2
  <2> QED BY <1>2, <2>2, <2>3, ContentsStep
<1>3. Nat \subseteq T
  <2> HIDE DEF T
  <2> QED BY <1>1, <1>2, SetInduction
<1> QED BY <1>3

-----------------------------------------------------------------------------
LEMMA OperationTyped ==
    ASSUME NEW op \in Operation
    PROVE  op.at \in Nat /\ (Inserting(op) => op.char \in Character)
BY DEF Operation, Inserting

LEMMA Slicing ==
    ASSUME NEW S, NEW doc \in Seq(S), NEW a \in Nat, NEW b \in Nat, a > 0, b <= Len(doc)
    PROVE  /\ SubSeq(doc, a, b) \in Seq(S)
           /\ Len(SubSeq(doc, a, b)) = IF a <= b THEN b - a + 1 ELSE 0
           /\ \A i \in 1..(IF a <= b THEN b - a + 1 ELSE 0) :
                 SubSeq(doc, a, b)[i] = doc[a + i - 1]
<1>1. Len(doc) \in Nat
  BY LenProperties
<1>2. (a \in 1..(Len(doc) + 1) /\ b \in (a - 1)..Len(doc)) \/ b < a - 1
  BY <1>1
<1>3. CASE a <= b
  BY <1>1, <1>3, SubSeqProperties
<1>4. CASE ~ (a <= b)
  <2>1. SubSeq(doc, a, b) = << >>
    BY <1>4, SubSeqEmpty
  <2> QED BY <1>4, <2>1, EmptySeq
<1> QED BY <1>3, <1>4

LEMMA Joining ==
    ASSUME NEW a \in Seq(Character), NEW b \in Seq(Character)
    PROVE  /\ a \o b \in Seq(Character) /\ Len(a \o b) = Len(a) + Len(b)
           /\ \A i \in 1..Len(a) : (a \o b)[i] = a[i]
           /\ \A i \in 1..Len(b) : (a \o b)[Len(a) + i] = b[i]
<1>1. PICK d : d = a \o b
  OBVIOUS
<1>2. PICK n, m : n = Len(a) /\ m = Len(b)
  OBVIOUS
<1>3. n \in Nat /\ m \in Nat
  BY <1>2, LenProperties
<1>4. d \in Seq(Character) /\ Len(d) = n + m
  BY <1>1, <1>2, ConcatProperties
<1>5. \A i \in 1..(n + m) : d[i] = IF i <= n THEN a[i] ELSE b[i - n]
  BY <1>1, <1>2, ConcatProperties
<1>6. ASSUME NEW i \in 1..n
      PROVE  d[i] = a[i]
  <2>1. i \in 1..(n + m) /\ i <= n
    BY <1>3
  <2> QED BY <1>5, <2>1
<1>7. ASSUME NEW i \in 1..m
      PROVE  d[n + i] = b[i]
  <2>1. n + i \in 1..(n + m) /\ ~ (n + i <= n) /\ n + i - n = i
    BY <1>3
  <2> QED BY <1>3, <1>5, <2>1
<1> QED BY <1>1, <1>2, <1>4, <1>6, <1>7

\* What an operation within a document makes of it.
LEMMA InsertionApplied ==
    ASSUME NEW doc \in Seq(Character), NEW op \in Operation, Inserting(op), Within(op, doc)
    PROVE  /\ Apply(doc, op) \in Seq(Character)
           /\ Len(Apply(doc, op)) = Len(doc) + 1
           /\ \A i \in 1..op.at : Apply(doc, op)[i] = doc[i]
           /\ Apply(doc, op)[op.at + 1] = op.char
           /\ \A i \in (op.at + 1)..Len(doc) : Apply(doc, op)[i + 1] = doc[i]
<1>1. /\ op.at \in Nat /\ op.char \in Character /\ Len(doc) \in Nat
      /\ op.at <= Len(doc)
  BY OperationTyped, LenProperties DEF Within
<1>2. PICK a, c, e : /\ a = SubSeq(doc, 1, op.at) /\ c = <<op.char>>
                     /\ e = SubSeq(doc, op.at + 1, Len(doc))
  OBVIOUS
<1>3. /\ a \in Seq(Character) /\ Len(a) = op.at
      /\ \A i \in 1..op.at : a[i] = doc[i]
  <2>1. 1 \in Nat /\ 1 > 0 /\ \A i \in 1..op.at : 1 + i - 1 = i
    BY <1>1
  <2>2. (IF 1 <= op.at THEN op.at - 1 + 1 ELSE 0) = op.at
    BY <1>1
  <2> QED BY <1>1, <1>2, <2>1, <2>2, Slicing
<1>4. c \in Seq(Character) /\ Len(c) = 1 /\ c[1] = op.char
  BY <1>1, <1>2
<1>5. /\ e \in Seq(Character) /\ Len(e) = Len(doc) - op.at
      /\ \A i \in 1..(Len(doc) - op.at) : e[i] = doc[op.at + 1 + i - 1]
  <2>1. op.at + 1 \in Nat /\ op.at + 1 > 0
    BY <1>1
  <2>2. (IF op.at + 1 <= Len(doc) THEN Len(doc) - (op.at + 1) + 1 ELSE 0) = Len(doc) - op.at
    BY <1>1
  <2> QED BY <1>1, <1>2, <2>1, <2>2, Slicing
<1>6. PICK b : b = a \o c
  OBVIOUS
<1>7. /\ b \in Seq(Character) /\ Len(b) = op.at + 1
      /\ \A i \in 1..op.at : b[i] = doc[i]
      /\ b[op.at + 1] = op.char
  <2>1. /\ b \in Seq(Character) /\ Len(b) = op.at + 1
        /\ \A i \in 1..op.at : b[i] = a[i]
        /\ \A i \in 1..1 : b[op.at + i] = c[i]
    <3>1. /\ a \o c \in Seq(Character) /\ Len(a \o c) = Len(a) + Len(c)
          /\ \A i \in 1..Len(a) : (a \o c)[i] = a[i]
          /\ \A i \in 1..Len(c) : (a \o c)[Len(a) + i] = c[i]
      BY <1>3, <1>4, Joining
    <3> QED BY <1>3, <1>4, <1>6, <3>1
  <2>2. b[op.at + 1] = c[1]
    BY <2>1
  <2> QED BY <1>3, <1>4, <2>1, <2>2
<1>8. PICK d : d = b \o e
  OBVIOUS
<1>9. Apply(doc, op) = d
  BY <1>2, <1>6, <1>8 DEF Apply
<1>10. /\ d \in Seq(Character) /\ Len(d) = Len(doc) + 1
       /\ \A i \in 1..(op.at + 1) : d[i] = b[i]
       /\ \A i \in 1..(Len(doc) - op.at) : d[op.at + 1 + i] = e[i]
  <2>1. op.at + 1 \in Nat /\ Len(doc) - op.at \in Nat
        /\ op.at + 1 + (Len(doc) - op.at) = Len(doc) + 1
    BY <1>1
  <2>2. /\ b \o e \in Seq(Character) /\ Len(b \o e) = Len(b) + Len(e)
        /\ \A i \in 1..Len(b) : (b \o e)[i] = b[i]
        /\ \A i \in 1..Len(e) : (b \o e)[Len(b) + i] = e[i]
    BY <1>5, <1>7, Joining
  <2> QED BY <1>5, <1>7, <1>8, <2>1, <2>2
<1>11. ASSUME NEW i \in (op.at + 1)..Len(doc)
       PROVE  d[i + 1] = doc[i]
  <2>1. /\ op.at + 1 + (i - op.at) = i + 1 /\ op.at + 1 + (i - op.at) - 1 = i
        /\ i - op.at \in 1..(Len(doc) - op.at)
    BY <1>1
  <2>2. d[i + 1] = e[i - op.at]
    BY <1>10, <2>1
  <2> QED BY <1>5, <2>1, <2>2
<1>12. \A i \in 1..op.at : i \in 1..(op.at + 1)
  BY <1>1
<1>13. op.at + 1 \in 1..(op.at + 1)
  BY <1>1
<1>14. /\ \A i \in 1..op.at : d[i] = doc[i]
       /\ d[op.at + 1] = op.char
  BY <1>7, <1>10, <1>12, <1>13
<1> QED BY <1>9, <1>10, <1>11, <1>14

LEMMA DeletionApplied ==
    ASSUME NEW doc \in Seq(Character), NEW op \in Operation, ~ Inserting(op), Within(op, doc)
    PROVE  /\ Apply(doc, op) \in Seq(Character)
           /\ Len(Apply(doc, op)) = Len(doc) - 1
           /\ \A i \in 1..op.at : Apply(doc, op)[i] = doc[i]
           /\ \A i \in (op.at + 2)..Len(doc) : Apply(doc, op)[i - 1] = doc[i]
<1>1. op.at \in Nat /\ Len(doc) \in Nat /\ op.at < Len(doc)
  BY OperationTyped, LenProperties DEF Within
<1>2. PICK a, e : a = SubSeq(doc, 1, op.at) /\ e = SubSeq(doc, op.at + 2, Len(doc))
  OBVIOUS
<1>3. /\ a \in Seq(Character) /\ Len(a) = op.at
      /\ \A i \in 1..op.at : a[i] = doc[i]
  <2>1. 1 \in Nat /\ 1 > 0 /\ \A i \in 1..op.at : 1 + i - 1 = i
    BY <1>1
  <2>2. (IF 1 <= op.at THEN op.at - 1 + 1 ELSE 0) = op.at /\ op.at <= Len(doc)
    BY <1>1
  <2> QED BY <1>1, <1>2, <2>1, <2>2, Slicing
<1>4. /\ e \in Seq(Character) /\ Len(e) = Len(doc) - op.at - 1
      /\ \A i \in 1..(Len(doc) - op.at - 1) : e[i] = doc[op.at + 2 + i - 1]
  <2>1. op.at + 2 \in Nat /\ op.at + 2 > 0
    BY <1>1
  <2>2. (IF op.at + 2 <= Len(doc) THEN Len(doc) - (op.at + 2) + 1 ELSE 0)
            = Len(doc) - op.at - 1
    BY <1>1
  <2> QED BY <1>1, <1>2, <2>1, <2>2, Slicing
<1>5. PICK d : d = a \o e
  OBVIOUS
<1>6. Apply(doc, op) = d
  BY <1>2, <1>5 DEF Apply
<1>7. /\ d \in Seq(Character) /\ Len(d) = Len(doc) - 1
      /\ \A i \in 1..op.at : d[i] = a[i]
      /\ \A i \in 1..(Len(doc) - op.at - 1) : d[op.at + i] = e[i]
  <2>1. Len(doc) - op.at - 1 \in Nat /\ op.at + (Len(doc) - op.at - 1) = Len(doc) - 1
    BY <1>1
  <2>2. /\ a \o e \in Seq(Character) /\ Len(a \o e) = Len(a) + Len(e)
        /\ \A i \in 1..Len(a) : (a \o e)[i] = a[i]
        /\ \A i \in 1..Len(e) : (a \o e)[Len(a) + i] = e[i]
    BY <1>3, <1>4, Joining
  <2> QED BY <1>3, <1>4, <1>5, <2>1, <2>2
<1>8. ASSUME NEW i \in (op.at + 2)..Len(doc)
      PROVE  d[i - 1] = doc[i]
  <2>1. /\ op.at + (i - 1 - op.at) = i - 1
        /\ i - 1 - op.at \in 1..(Len(doc) - op.at - 1)
        /\ op.at + 2 + (i - 1 - op.at) - 1 = i
    BY <1>1
  <2>2. d[i - 1] = e[i - 1 - op.at]
    BY <1>7, <2>1
  <2> QED BY <1>4, <2>1, <2>2
<1> QED BY <1>3, <1>6, <1>7, <1>8

-----------------------------------------------------------------------------
(***************************************************************************)
(* A document whose revisions can be applied one after the other, and whose *)
(* characters are told apart by where they come from.                      *)
(***************************************************************************)
LogFits(doc, ops) ==
    /\ doc \in Seq(Character)
    /\ \A i \in 1..Len(doc) : doc[i].from = <<"base", i>>
    /\ ops \in Seq(Operation)
    /\ \A n \in 1..Len(ops) :
          /\ Within(ops[n], Contents(doc, ops, n - 1))
          /\ Inserting(ops[n]) => ops[n].char.from = <<"revision", n>>

LEMMA ContentsTyped ==
    ASSUME NEW doc, NEW ops, LogFits(doc, ops)
    PROVE  \A n \in 0..Len(ops) : Contents(doc, ops, n) \in Seq(Character)
<1>1. ops \in Seq(Operation) /\ Len(ops) \in Nat
  BY LenProperties DEF LogFits
<1> DEFINE T == {n \in Nat : n <= Len(ops) => Contents(doc, ops, n) \in Seq(Character)}
<1>2. 0 \in T
  BY ContentsStart DEF LogFits
<1>3. ASSUME NEW n \in Nat, n \in T
      PROVE  n + 1 \in T
  <2>1. SUFFICES ASSUME n + 1 <= Len(ops)
                 PROVE  Contents(doc, ops, n + 1) \in Seq(Character)
    OBVIOUS
  <2>2. n + 1 \in 1..Len(ops) /\ n + 1 - 1 = n /\ n <= Len(ops)
    BY <1>1, <2>1
  <2>3. PICK op, c : op = ops[n + 1] /\ c = Contents(doc, ops, n)
    OBVIOUS
  <2>4. op \in Operation /\ c \in Seq(Character) /\ Within(op, c)
    BY <1>1, <1>3, <2>2, <2>3, ElementOfSeq DEF LogFits
  <2>5. Apply(c, op) \in Seq(Character)
    BY <2>4, InsertionApplied, DeletionApplied
  <2> QED BY <2>3, <2>5, ContentsStep
<1>4. Nat \subseteq T
  <2> HIDE DEF T
  <2> QED BY <1>2, <1>3, SetInduction
<1> QED BY <1>1, <1>4

\* One more revision.
LEMMA ContentsNext ==
    ASSUME NEW doc, NEW ops, LogFits(doc, ops), NEW n \in Nat, n + 1 <= Len(ops)
    PROVE  LET c == Contents(doc, ops, n)
               op == ops[n + 1]
           IN  /\ c \in Seq(Character) /\ op \in Operation /\ Within(op, c)
               /\ Inserting(op) => op.char.from = <<"revision", n + 1>>
               /\ Contents(doc, ops, n + 1) = Apply(c, op)
<1>1. ops \in Seq(Operation) /\ Len(ops) \in Nat
  BY LenProperties DEF LogFits
<1>2. n + 1 \in 1..Len(ops) /\ n + 1 - 1 = n /\ n \in 0..Len(ops)
  BY <1>1
<1>3. Contents(doc, ops, n) \in Seq(Character)
  BY <1>2, ContentsTyped
<1>4. ops[n + 1] \in Operation
  BY <1>1, <1>2, ElementOfSeq
<1>5. Within(ops[n + 1], Contents(doc, ops, n))
  BY <1>2 DEF LogFits
<1>6. Inserting(ops[n + 1]) => ops[n + 1].char.from = <<"revision", n + 1>>
  BY <1>2 DEF LogFits
<1>7. Contents(doc, ops, n + 1) = Apply(Contents(doc, ops, n), ops[n + 1])
  BY ContentsStep
<1> QED BY <1>3, <1>4, <1>5, <1>6, <1>7

Chars(c) == {c[i] : i \in 1..Len(c)}

\* An operation adds at most the character that it inserts.
LEMMA CharsApplied ==
    ASSUME NEW c \in Seq(Character), NEW op \in Operation, Within(op, c),
           NEW x \in Chars(Apply(c, op))
    PROVE  x \in Chars(c) \/ (Inserting(op) /\ x = op.char)
<1>1. Len(c) \in Nat /\ op.at \in Nat
  BY LenProperties, OperationTyped
<1>2. PICK e : e = Apply(c, op)
  OBVIOUS
<1>3. PICK i \in 1..Len(e) : x = e[i]
  BY <1>2 DEF Chars
<1>4. CASE Inserting(op)
  <2>1. /\ Len(e) = Len(c) + 1 /\ op.at <= Len(c)
        /\ \A j \in 1..op.at : e[j] = c[j]
        /\ e[op.at + 1] = op.char
        /\ \A j \in (op.at + 1)..Len(c) : e[j + 1] = c[j]
    BY <1>2, <1>4, InsertionApplied DEF Within
  <2>2. CASE i <= op.at
    <3>1. i \in 1..op.at /\ i \in 1..Len(c)
      BY <1>1, <2>1, <2>2
    <3> QED BY <1>3, <2>1, <3>1 DEF Chars
  <2>3. CASE i = op.at + 1
    BY <1>3, <1>4, <2>1, <2>3
  <2>4. CASE i > op.at + 1
    <3>1. i - 1 \in (op.at + 1)..Len(c) /\ i - 1 + 1 = i /\ i - 1 \in 1..Len(c)
      BY <1>1, <2>1, <2>4
    <3>2. e[i] = c[i - 1]
      BY <2>1, <3>1
    <3> QED BY <1>3, <3>1, <3>2 DEF Chars
  <2> QED BY <1>1, <2>1, <2>2, <2>3, <2>4
<1>5. CASE ~ Inserting(op)
  <2>1. /\ Len(e) = Len(c) - 1 /\ op.at < Len(c)
        /\ \A j \in 1..op.at : e[j] = c[j]
        /\ \A j \in (op.at + 2)..Len(c) : e[j - 1] = c[j]
    BY <1>2, <1>5, DeletionApplied DEF Within
  <2>2. CASE i <= op.at
    <3>1. i \in 1..op.at /\ i \in 1..Len(c)
      BY <1>1, <2>1, <2>2
    <3> QED BY <1>3, <2>1, <3>1 DEF Chars
  <2>3. CASE i > op.at
    <3>1. i + 1 \in (op.at + 2)..Len(c) /\ i + 1 - 1 = i /\ i + 1 \in 1..Len(c)
      BY <1>1, <2>1, <2>3
    <3>2. e[i] = c[i + 1]
      BY <2>1, <3>1
    <3> QED BY <1>3, <3>1, <3>2 DEF Chars
  <2> QED BY <1>1, <2>1, <2>2, <2>3
<1> QED BY <1>4, <1>5

\* What is new in the contents after a revision, since an earlier one, has been
\* inserted by the revisions between.
LEMMA NewIsInserted ==
    ASSUME NEW doc, NEW ops, LogFits(doc, ops), NEW n \in Nat, NEW k \in Nat,
           n <= k, k <= Len(ops), NEW x \in Chars(Contents(doc, ops, k)),
           x \notin Chars(Contents(doc, ops, n))
    PROVE  \E m \in (n + 1)..k : Inserting(ops[m]) /\ x = ops[m].char
<1>1. Len(ops) \in Nat
  BY LenProperties DEF LogFits
<1> DEFINE Told(i) == \A y \in Chars(Contents(doc, ops, i)) :
                         \/ y \in Chars(Contents(doc, ops, n))
                         \/ \E m \in (n + 1)..i : Inserting(ops[m]) /\ y = ops[m].char
           T == {i \in Nat : (n <= i /\ i <= k) => Told(i)}
<1>2. Told(n)
  OBVIOUS
<1>3. 0 \in T
  <2>1. (n <= 0 /\ 0 <= k) => n = 0
    OBVIOUS
  <2> QED BY <1>2, <2>1
<1>4. ASSUME NEW i \in Nat, i \in T
      PROVE  i + 1 \in T
  <2>1. SUFFICES ASSUME n <= i + 1, i + 1 <= k PROVE Told(i + 1)
    OBVIOUS
  <2>2. CASE n = i + 1
    BY <1>2, <2>2
  <2>3. CASE n # i + 1
    <3>1. n <= i /\ i <= k /\ i + 1 <= Len(ops)
      BY <1>1, <2>1, <2>3
    <3>2. Told(i)
      BY <1>4, <3>1
    <3>3. SUFFICES ASSUME NEW y \in Chars(Contents(doc, ops, i + 1))
                   PROVE  \/ y \in Chars(Contents(doc, ops, n))
                          \/ \E m \in (n + 1)..(i + 1) : Inserting(ops[m]) /\ y = ops[m].char
      OBVIOUS
    <3>4. PICK c, op : c = Contents(doc, ops, i) /\ op = ops[i + 1]
      OBVIOUS
    <3>5. /\ c \in Seq(Character) /\ op \in Operation /\ Within(op, c)
          /\ Contents(doc, ops, i + 1) = Apply(c, op)
      BY <3>1, <3>4, ContentsNext
    <3>6. y \in Chars(c) \/ (Inserting(op) /\ y = op.char)
      BY <3>3, <3>5, CharsApplied
    <3>7. CASE y \in Chars(c)
      <4>1. \A m \in (n + 1)..i : m \in (n + 1)..(i + 1)
        OBVIOUS
      <4> QED BY <3>2, <3>4, <3>7, <4>1
    <3>8. CASE Inserting(op) /\ y = op.char
      <4>1. i + 1 \in (n + 1)..(i + 1)
        BY <3>1
      <4> QED BY <3>4, <3>8, <4>1
    <3> QED BY <3>6, <3>7, <3>8
  <2> QED BY <2>2, <2>3
<1>5. Nat \subseteq T
  <2> HIDE DEF T
  <2> QED BY <1>3, <1>4, SetInduction
<1>6. Told(k)
  BY <1>5
<1> QED BY <1>6

-----------------------------------------------------------------------------
(***************************************************************************)
(* The job and its document while they change.                             *)
(***************************************************************************)
Fields ==
    {"kind", "user", "mentioned", "revision", "at", "retain", "seen", "read", "updated",
     "members", "to", "slices"}

Phases(kind) ==
    CASE kind = "update" -> {"find", "markUpdates", "slices", "members", "render", "authors",
                             "send", "sent", "nothing", "failed"}
      [] kind = "mention" -> {"find", "mention", "surrounding", "mentioned", "profile",
                              "render", "recipients", "send", "sent", "nothing", "failed"}
      [] kind = "paneMention" -> {"find", "paneMention", "surrounding", "cell", "mentioned",
                                  "profile", "render", "recipients", "send", "sent",
                                  "nothing", "failed"}
      [] OTHER -> {"nothing"}

JobOK ==
    /\ DOMAIN job = Fields
    /\ job.kind \in {"update", "mention", "paneMention", "none"}
    /\ job.at \in Phases(job.kind)
    /\ job.revision \in 0..Len(log)
    /\ job.kind = "mention" => /\ job.revision > 0 /\ Inserting(log[job.revision])
                               /\ log[job.revision].char.kind = "mention"

MailTyped == LogFits(base, log) /\ JobOK

\* What the steps of a job have in common.
Same(S) == \A f \in Fields \ S : job'[f] = job[f]

LEMMA SetLocals ==
    ASSUME NEW locals, DOMAIN job = Fields, Set(locals)
    PROVE  /\ DOMAIN job' = Fields
           /\ \A f \in Fields \cap DOMAIN locals : job'[f] = locals[f]
           /\ Same(DOMAIN locals)
BY DEF Set, Same

LEMMA GoneTo ==
    ASSUME NEW step, DOMAIN job = Fields, Goto(step)
    PROVE  DOMAIN job' = Fields /\ job'.at = step /\ Same({"at"})
<1>1. PICK locals : locals = [at |-> step]
  OBVIOUS
<1>2. Set(locals)
  BY <1>1 DEF Goto
<1>3. DOMAIN locals = {"at"} /\ locals["at"] = step
  BY <1>1
<1>4. /\ DOMAIN job' = Fields
      /\ \A f \in Fields \cap DOMAIN locals : job'[f] = locals[f]
      /\ Same(DOMAIN locals)
  BY <1>2, SetLocals
<1> QED BY <1>3, <1>4 DEF Fields

\* Where each step leads and which fields it sets.
LEMMA ComposeMoves ==
    ASSUME JobOK, Compose
    PROVE  /\ DOMAIN job' = Fields /\ UNCHANGED editVars
           /\ job'.at \in Phases(job.kind)
           /\ Same({"at", "retain", "seen", "read", "updated", "members", "to", "slices"})
<1>0. /\ DOMAIN job = Fields /\ job.kind \in {"update", "mention", "paneMention", "none"}
      /\ job.at \in Phases(job.kind)
  BY DEF JobOK
<1>1. CASE FindDocument
  <2>1. job.at = "find" /\ UNCHANGED editVars
    BY <1>1 DEF FindDocument, At
  <2>2. job.kind # "none"
    BY <1>0, <2>1 DEF Phases
  <2>3. \E step \in Phases(job.kind) : Goto(step)
    <3>1. CASE job.kind = "update"
      <4>1. Goto("markUpdates")
        BY <1>1, <3>1 DEF FindDocument
      <4> QED BY <3>1, <4>1 DEF Phases
    <3>2. CASE job.kind = "mention"
      <4>1. Goto("mention")
        BY <1>1, <3>2 DEF FindDocument
      <4> QED BY <3>2, <4>1 DEF Phases
    <3>3. CASE job.kind = "paneMention"
      <4>1. Goto("paneMention")
        BY <1>1, <3>3 DEF FindDocument
      <4> QED BY <3>3, <4>1 DEF Phases
    <3> QED BY <1>0, <2>2, <3>1, <3>2, <3>3
  <2>4. PICK step \in Phases(job.kind) : Goto(step)
    BY <2>3
  <2>5. DOMAIN job' = Fields /\ job'.at = step /\ Same({"at"})
    BY <1>0, <2>4, GoneTo
  <2> QED BY <2>1, <2>5 DEF Same
<1>2. CASE FindMention
  BY <1>0, <1>2 DEF FindMention, At, Phases, Set, Goto, Nothing, Throw, Same, Fields
<1>3. CASE FindPaneMention
  BY <1>0, <1>3 DEF FindPaneMention, At, Phases, Set, Goto, Nothing, Throw, Same, Fields
<1>4. CASE FindSurrounding
  BY <1>0, <1>4 DEF FindSurrounding, At, Phases, Set, Goto, Nothing, Throw, Same, Fields
<1>5. CASE FindCell
  BY <1>0, <1>5 DEF FindCell, At, Phases, Set, Goto, Nothing, Throw, Same, Fields
<1>6. CASE FindMentioned
  BY <1>0, <1>6 DEF FindMentioned, At, Phases, Set, Goto, Nothing, Throw, Same, Fields
<1>7. CASE FindProfile
  BY <1>0, <1>7 DEF FindProfile, At, Phases, Set, Goto, Nothing, Throw, Same, Fields
<1>8. CASE MarkUpdates
  BY <1>0, <1>8 DEF MarkUpdates, At, Phases, Set, Goto, Nothing, Throw, Same, Fields
<1>9. CASE FindSlices
  BY <1>0, <1>9 DEF FindSlices, At, Phases, Set, Goto, Nothing, Throw, Same, Fields
<1>10. CASE FindMembers
  BY <1>0, <1>10 DEF FindMembers, At, Phases, Set, Goto, Nothing, Throw, Same, Fields
<1>11. CASE Render
  BY <1>0, <1>11 DEF Render, At, Phases, Set, Goto, Nothing, Throw, Same, Fields
<1>12. CASE FindRecipients
  BY <1>0, <1>12 DEF FindRecipients, At, Phases, Set, Goto, Nothing, Throw, Same, Fields
<1>13. CASE FindRecipientsOfMention
  BY <1>0, <1>13 DEF FindRecipientsOfMention, At, Phases, Set, Goto, Nothing, Throw, Same, Fields
<1>14. CASE Send
  BY <1>0, <1>14 DEF Send, At, Phases, Set, Goto, Nothing, Throw, Same, Fields
<1> QED BY <1>1, <1>2, <1>3, <1>4, <1>5, <1>6, <1>7, <1>8, <1>9, <1>10, <1>11, <1>12,
           <1>13, <1>14 DEF Compose

\* An edit appends a revision, and what has been read before stays as it was.
LEMMA EditMoves ==
    ASSUME MailTyped, Edit
    PROVE  /\ base' = base /\ job' = job /\ mail' = mail /\ job.at \in Reading
           /\ LogFits(base, log') /\ Len(log') = Len(log) + 1
           /\ \A n \in 1..Len(log) : log'[n] = log[n]
           /\ \A n \in 0..Len(log) : Contents(base, log', n) = Contents(base, log, n)
<1>1. PICK doc : doc = Contents(base, log, Len(log))
  OBVIOUS
<1>2. LogFits(base, log) /\ log \in Seq(Operation) /\ Len(log) \in Nat
  BY LenProperties DEF MailTyped, LogFits
<1>3. doc \in Seq(Character) /\ Len(doc) \in Nat
  <2>1. Len(log) \in 0..Len(log)
    BY <1>2
  <2>2. doc \in Seq(Character)
    BY <1>1, <1>2, <2>1, ContentsTyped
  <2> QED BY <2>2, LenProperties
<1>4. \E op \in Operation : /\ Within(op, doc) /\ Commit(op)
                            /\ Inserting(op) => op.char.from = <<"revision", Len(log) + 1>>
  <2>1. CASE \E at \in 0..Len(doc), kind \in Inserts, user \in User :
                Commit(Insertion(at, Char(kind, <<"revision", Len(log) + 1>>, user)))
    <3>1. PICK at \in 0..Len(doc), kind \in Inserts, user \in User :
             Commit(Insertion(at, Char(kind, <<"revision", Len(log) + 1>>, user)))
      BY <2>1
    <3>2. PICK char : char = Char(kind, <<"revision", Len(log) + 1>>, user)
      OBVIOUS
    <3>3. <<"revision", Len(log) + 1>> \in {"base", "revision"} \X Nat
      BY <1>2
    <3>4. char \in Character /\ char.from = <<"revision", Len(log) + 1>>
      BY <3>2, <3>3, InsertsAssumption DEF Char, Character
    <3>5. PICK op : op = Insertion(at, char)
      OBVIOUS
    <3>6. op \in Operation /\ op.char = char /\ op.at = at /\ Inserting(op)
      BY <1>3, <3>4, <3>5 DEF Insertion, Operation, Inserting
    <3>7. Within(op, doc)
      BY <1>3, <3>6 DEF Within
    <3> QED BY <3>1, <3>2, <3>4, <3>5, <3>6, <3>7
  <2>2. CASE \E at \in 0..(Len(doc) - 1) : Commit(Deletion(at))
    <3>1. PICK at \in 0..(Len(doc) - 1) : Commit(Deletion(at))
      BY <2>2
    <3>2. PICK op : op = Deletion(at)
      OBVIOUS
    <3>3. op \in Operation /\ op.at = at /\ ~ Inserting(op)
      BY <1>3, <3>2 DEF Deletion, Operation, Inserting
    <3>4. Within(op, doc)
      BY <1>3, <3>3 DEF Within
    <3> QED BY <3>1, <3>2, <3>3, <3>4
  <2> QED BY <1>1, <2>1, <2>2 DEF Edit, ContentsAt
<1>5. PICK op \in Operation : /\ Within(op, doc) /\ Commit(op)
                              /\ Inserting(op) => op.char.from = <<"revision", Len(log) + 1>>
  BY <1>4
<1>6. /\ base' = base /\ job' = job /\ mail' = mail /\ job.at \in Reading
      /\ log' = Append(log, op)
  BY <1>5 DEF Commit
<1>7. PICK more : more = Append(log, op)
  OBVIOUS
<1>8. /\ more \in Seq(Operation) /\ Len(more) = Len(log) + 1
      /\ more[Len(log) + 1] = op
      /\ \A n \in 1..Len(log) : log[n] = more[n]
  BY <1>2, <1>5, <1>7, AppendProperties
<1>9. ASSUME NEW n \in 0..Len(log)
      PROVE  Contents(base, more, n) = Contents(base, log, n)
  <2>1. n \in Nat /\ \A i \in 1..n : log[i] = more[i]
    BY <1>2, <1>8
  <2> QED BY <2>1, ContentsAgree
<1>10. ASSUME NEW n \in 1..Len(more)
       PROVE  /\ Within(more[n], Contents(base, more, n - 1))
              /\ Inserting(more[n]) => more[n].char.from = <<"revision", n>>
  <2>1. CASE n \in 1..Len(log)
    <3>1. n - 1 \in 0..Len(log) /\ more[n] = log[n]
      BY <1>2, <1>8, <2>1
    <3>2. Contents(base, more, n - 1) = Contents(base, log, n - 1)
      BY <1>9, <3>1
    <3>3. /\ Within(log[n], Contents(base, log, n - 1))
          /\ Inserting(log[n]) => log[n].char.from = <<"revision", n>>
      BY <1>2, <2>1 DEF LogFits
    <3> QED BY <3>1, <3>2, <3>3
  <2>2. CASE n = Len(log) + 1
    <3>1. n - 1 = Len(log) /\ Len(log) \in 0..Len(log) /\ more[n] = op
      BY <1>2, <1>8, <2>2
    <3>2. Contents(base, more, n - 1) = doc
      BY <1>1, <1>9, <3>1
    <3> QED BY <1>5, <2>2, <3>1, <3>2
  <2> QED BY <1>2, <1>8, <2>1, <2>2
<1>11. LogFits(base, more)
  BY <1>2, <1>8, <1>10 DEF LogFits
<1> QED BY <1>6, <1>7, <1>8, <1>9, <1>11

LEMMA MailTypedKept == MailTyped /\ [Next]_vars => MailTyped'
<1> SUFFICES ASSUME MailTyped, [Next]_vars PROVE MailTyped'
  OBVIOUS
<1>1. Len(log) \in Nat
  BY LenProperties DEF MailTyped, LogFits
<1>2. CASE UNCHANGED mailVars
  BY <1>2 DEF MailTyped, JobOK, mailVars
<1>3. CASE Edit
  <2>1. /\ base' = base /\ job' = job /\ LogFits(base, log') /\ Len(log') = Len(log) + 1
        /\ \A n \in 1..Len(log) : log'[n] = log[n]
    BY <1>3, EditMoves
  <2>2. job.revision \in 0..Len(log')
    BY <1>1, <2>1 DEF MailTyped, JobOK
  <2>3. job.revision > 0 => log'[job.revision] = log[job.revision]
    BY <1>1, <2>1 DEF MailTyped, JobOK
  <2>4. LogFits(base', log')
    BY <2>1
  <2>5. JobOK'
    BY <2>1, <2>2, <2>3 DEF MailTyped, JobOK
  <2> QED BY <2>4, <2>5 DEF MailTyped
<1>4. CASE Compose
  <2>1. /\ DOMAIN job' = Fields /\ base' = base /\ log' = log
        /\ job'.at \in Phases(job.kind)
        /\ job'.kind = job.kind /\ job'.revision = job.revision
    BY <1>4, ComposeMoves DEF MailTyped, editVars, Same, Fields
  <2> QED BY <2>1 DEF MailTyped, JobOK
<1> QED BY <1>2, <1>3, <1>4 DEF Next, MailNext, vars, mailVars

LEMMA MailTypedInitially == Init => MailTyped /\ mail = NoMail
<1> SUFFICES ASSUME Init PROVE MailTyped /\ mail = NoMail
  OBVIOUS
<1>1. PICK s \in MailScenarios :
         /\ base = s.base
         /\ log = s.log
         /\ job = [kind |-> s.kind, user |-> s.user, mentioned |-> s.mentioned,
                   revision |-> s.revision, at |-> s.at, retain |-> 0, seen |-> 0,
                   read |-> 0, updated |-> FALSE, members |-> {}, to |-> {},
                   slices |-> << >>]
  BY DEF Init, MailInit
<1>2. /\ s.base \in Seq(Character)
      /\ \A i \in DOMAIN s.base : s.base[i].from = <<"base", i>>
      /\ s.log \in Seq(Operation)
      /\ \A n \in DOMAIN s.log :
            /\ Within(s.log[n], Contents(s.base, s.log, n - 1))
            /\ Inserting(s.log[n]) => s.log[n].char.from = <<"revision", n>>
  BY MailScenariosAssumption
<1>3. DOMAIN s.base = 1..Len(s.base) /\ DOMAIN s.log = 1..Len(s.log)
  BY <1>2, LenProperties
<1>4. LogFits(base, log)
  BY <1>1, <1>2, <1>3 DEF LogFits
<1>5. /\ s.revision \in 0..Len(s.log)
      /\ s.kind \in {"update", "mention", "paneMention", "none"}
      /\ s.at = IF s.kind = "none" THEN "nothing" ELSE "find"
      /\ s.kind = "mention" => /\ s.revision > 0 /\ Inserting(s.log[s.revision])
                               /\ s.log[s.revision].char.kind = "mention"
  BY MailScenariosAssumption
<1>6. /\ DOMAIN job = Fields /\ job.kind = s.kind /\ job.at = s.at /\ job.revision = s.revision
  BY <1>1 DEF Fields
<1>7. s.at \in Phases(s.kind)
  BY <1>5 DEF Phases
<1>8. JobOK
  BY <1>1, <1>5, <1>6, <1>7 DEF JobOK
<1> QED BY <1>4, <1>8 DEF MailTyped, Init, MailInit

-----------------------------------------------------------------------------
(***************************************************************************)
(* A mail is what its job has composed; and who is left out of one about   *)
(* updates has inserted all there is up to the revision that was read.     *)
(***************************************************************************)
MailSent == mail # NoMail => job.at = "sent" /\ mail.to = job.to /\ mail.slices = job.slices

LEMMA MailSentKept ==
    ASSUME MailTyped, MailSent, [Next]_vars
    PROVE  MailSent'
<1>1. CASE UNCHANGED mailVars
  BY <1>1 DEF MailSent, mailVars
<1>2. CASE Edit
  BY <1>2, EditMoves DEF MailSent
<1>3. CASE Send
  <2>1. mail' = [to |-> job.to, slices |-> job.slices] /\ Goto("sent")
    BY <1>3 DEF Send
  <2>2. job'.at = "sent" /\ Same({"at"})
    BY <2>1, GoneTo DEF MailTyped, JobOK
  <2>3. job'.to = job.to /\ job'.slices = job.slices
    BY <2>2 DEF Same, Fields
  <2> QED BY <2>1, <2>2, <2>3 DEF MailSent
<1>4. CASE Compose /\ ~ Send
  <2>1. mail' = mail /\ job.at # "sent"
    BY <1>4 DEF Compose, At, FindDocument, FindMention, FindPaneMention, FindSurrounding,
                FindCell, FindMentioned, FindProfile, MarkUpdates, FindSlices, FindMembers,
                Render, FindRecipients, FindRecipientsOfMention
  <2> QED BY <2>1 DEF MailSent
<1> QED BY <1>1, <1>2, <1>3, <1>4 DEF Next, MailNext, vars, mailVars

AfterSlices == {"members", "render", "authors", "send", "sent"}

UpdateRead ==
    (job.kind = "update" /\ job.at \in AfterSlices) => job.read \in job.revision..Len(log)

LeftOut ==
    (job.kind = "update" /\ job.at \in {"send", "sent"}) =>
        \A user \in job.members \ job.to, n \in (job.revision + 1)..job.read :
            Inserting(log[n]) => log[n].char.by = user

\* What is counted of the steps of an update.
LEMMA UpdateMoves ==
    ASSUME MailTyped, job.kind = "update", Compose
    PROVE  \/ /\ job.at \notin AfterSlices /\ job'.at \notin AfterSlices
           \/ FindSlices /\ job'.at \in AfterSlices \ {"send", "sent"} /\ job'.read = Len(log)
           \/ /\ job.at \in AfterSlices \ {"send", "sent"} /\ job'.at \notin {"send", "sent"}
              /\ job'.read = job.read
           \/ FindRecipients /\ job.at \in AfterSlices
           \/ Send
<1>0. /\ DOMAIN job = Fields /\ job.at \in Phases("update")
  BY DEF MailTyped, JobOK
<1>1. CASE FindDocument
  <2>1. job.at = "find" /\ Goto("markUpdates")
    BY <1>1 DEF FindDocument, At
  <2> QED BY <1>0, <2>1, GoneTo DEF AfterSlices
<1>2. CASE MarkUpdates
  BY <1>0, <1>2 DEF MarkUpdates, At, Set, AfterSlices, Fields
<1>3. CASE FindSlices
  BY <1>0, <1>3 DEF FindSlices, At, Set, Goto, Nothing, AfterSlices, Fields
<1>4. CASE FindMembers
  BY <1>0, <1>4 DEF FindMembers, At, Set, Goto, Nothing, Throw, AfterSlices, Fields
<1>5. CASE Render
  BY <1>0, <1>5 DEF Render, At, Set, Goto, Throw, AfterSlices, Fields
<1>6. CASE FindRecipients
  BY <1>6 DEF FindRecipients, At, AfterSlices
<1>7. ~ (FindMention \/ FindPaneMention \/ FindSurrounding \/ FindCell \/ FindMentioned
         \/ FindProfile \/ FindRecipientsOfMention)
  BY <1>0 DEF FindMention, FindPaneMention, FindSurrounding, FindCell, FindMentioned,
              FindProfile, FindRecipientsOfMention, At, Phases
<1> QED BY <1>1, <1>2, <1>3, <1>4, <1>5, <1>6, <1>7 DEF Compose

LEMMA InsertersFinite ==
    ASSUME MailTyped, NEW r \in Nat
    PROVE  /\ IsFiniteSet(Inserters(r))
           /\ \A n \in (r + 1)..Len(log) : Inserting(log[n]) => log[n].char.by \in Inserters(r)
<1>1. log \in Seq(Operation) /\ Len(log) \in Nat /\ DOMAIN log = 1..Len(log)
  BY LenProperties DEF MailTyped, LogFits
<1>2. PICK M : M = {m \in DOMAIN log : m > r /\ Inserting(log[m])}
  OBVIOUS
<1>3. Inserters(r) = {log[n].char.by : n \in M}
  BY <1>2 DEF Inserters
<1>4. IsFiniteSet(M)
  <2>1. IsFiniteSet(1..Len(log)) /\ M \subseteq 1..Len(log)
    BY <1>1, <1>2, FS_Interval
  <2> QED BY <2>1, FS_Subset
<1>5. PICK g : g = [n \in M |-> log[n].char.by]
  OBVIOUS
<1>6. Inserters(r) = {g[n] : n \in M}
  BY <1>3, <1>5
<1>7. IsFiniteSet({g[n] : n \in M})
  <2>1. g \in Surjection(M, {g[n] : n \in M})
    BY <1>5 DEF Surjection
  <2> QED BY <1>4, <2>1, FS_Surjection
<1>8. \A n \in (r + 1)..Len(log) : n \in DOMAIN log /\ n > r
  BY <1>1
<1> QED BY <1>2, <1>3, <1>6, <1>7, <1>8

LEMMA LeftOutKept ==
    ASSUME MailTyped, UpdateRead, LeftOut, [Next]_vars
    PROVE  UpdateRead' /\ LeftOut'
<1>0. /\ log \in Seq(Operation) /\ Len(log) \in Nat /\ job.revision \in Nat
      /\ job.revision <= Len(log) /\ DOMAIN job = Fields
  BY LenProperties DEF MailTyped, LogFits, JobOK
<1>1. CASE UNCHANGED mailVars
  BY <1>1 DEF UpdateRead, LeftOut, mailVars
<1>2. CASE Edit
  <2>1. /\ job' = job /\ Len(log') = Len(log) + 1 /\ job.at \in Reading
        /\ \A n \in 1..Len(log) : log'[n] = log[n]
    BY <1>2, EditMoves
  <2>2. UpdateRead'
    BY <1>0, <2>1 DEF UpdateRead
  <2>3. job.kind = "update" => job.at \notin {"send", "sent"}
    BY <2>1 DEF Reading
  <2> QED BY <2>1, <2>2, <2>3 DEF LeftOut
<1>3. CASE Compose
  <2>1. /\ log' = log /\ job'.kind = job.kind /\ job'.revision = job.revision
    BY <1>3, ComposeMoves DEF MailTyped, editVars, Same, Fields
  <2>2. CASE job.kind # "update"
    BY <2>1, <2>2 DEF UpdateRead, LeftOut
  <2>3. CASE /\ job.kind = "update"
             /\ job.at \notin AfterSlices /\ job'.at \notin AfterSlices
    BY <2>1, <2>3 DEF UpdateRead, LeftOut, AfterSlices
  <2>4. CASE /\ job.kind = "update" /\ FindSlices
             /\ job'.at \in AfterSlices \ {"send", "sent"} /\ job'.read = Len(log)
    BY <1>0, <2>1, <2>4 DEF UpdateRead, LeftOut
  <2>5. CASE /\ job.kind = "update" /\ job.at \in AfterSlices \ {"send", "sent"}
             /\ job'.at \notin {"send", "sent"} /\ job'.read = job.read
    BY <2>1, <2>5 DEF UpdateRead, LeftOut
  <2>6. CASE job.kind = "update" /\ Send
    <3>1. job.at = "send" /\ Goto("sent")
      BY <2>6 DEF Send, At
    <3>2. job'.at = "sent" /\ Same({"at"})
      BY <1>0, <3>1, GoneTo
    <3>3. job'.read = job.read /\ job'.members = job.members /\ job'.to = job.to
      BY <3>2 DEF Same, Fields
    <3> QED BY <2>1, <2>6, <3>1, <3>3 DEF UpdateRead, LeftOut, AfterSlices
  <2>7. CASE job.kind = "update" /\ FindRecipients /\ job.at \in AfterSlices
    <3>1. job.read \in job.revision..Len(log)
      BY <2>7 DEF UpdateRead
    <3>2. PICK authors, to :
             /\ authors = Inserters(job.revision)
             /\ to = IF Cardinality(authors) = 1 THEN job.members \ authors ELSE job.members
             /\ IF to = {} THEN Nothing ELSE Set([at |-> "send", to |-> to])
      BY <2>7 DEF FindRecipients
    <3>3. CASE to = {}
      <4>1. Goto("nothing")
        BY <3>2, <3>3 DEF Nothing
      <4>2. job'.at = "nothing"
        BY <1>0, <4>1, GoneTo
      <4> QED BY <4>2 DEF UpdateRead, LeftOut, AfterSlices
    <3>4. CASE to # {}
      <4>1. Set([at |-> "send", to |-> to])
        BY <3>2, <3>4
      <4>2. /\ job'.to = to /\ job'.read = job.read /\ job'.members = job.members
        BY <1>0, <4>1 DEF Set, Fields
      <4>3. ASSUME NEW user \in job.members \ to, NEW n \in (job.revision + 1)..job.read,
                   Inserting(log[n])
            PROVE  log[n].char.by = user
        <5>1. Cardinality(authors) = 1 /\ user \in authors
          BY <3>2, <4>3
        <5>2. IsFiniteSet(authors) /\ log[n].char.by \in authors
          <6>1. n \in (job.revision + 1)..Len(log)
            BY <1>0, <3>1
          <6> QED BY <1>0, <3>2, <4>3, <6>1, InsertersFinite
        <5>3. \E x : authors = {x}
          BY <5>1, <5>2, FS_Singleton
        <5> QED BY <5>1, <5>2, <5>3
      <4>4. UpdateRead'
        BY <2>1, <3>1, <4>2 DEF UpdateRead
      <4>5. LeftOut'
        BY <2>1, <4>2, <4>3 DEF LeftOut
      <4> QED BY <4>4, <4>5
    <3> QED BY <3>3, <3>4
  <2> QED BY <1>3, <2>2, <2>3, <2>4, <2>5, <2>6, <2>7, UpdateMoves
<1> QED BY <1>1, <1>2, <1>3 DEF Next, MailNext, vars, mailVars

RecipientsInv == MailTyped /\ MailSent /\ UpdateRead /\ LeftOut

LEMMA RecipientsInitially == Init => RecipientsInv
<1> SUFFICES ASSUME Init PROVE RecipientsInv
  OBVIOUS
<1>1. MailTyped /\ mail = NoMail
  BY MailTypedInitially
<1>2. job.at \in {"nothing", "find"}
  <2>1. PICK s \in MailScenarios : job.at = s.at
    BY DEF Init, MailInit
  <2> QED BY <2>1, MailScenariosAssumption
<1> QED BY <1>1, <1>2 DEF RecipientsInv, MailSent, UpdateRead, LeftOut, AfterSlices

LEMMA RecipientsKept == RecipientsInv /\ [Next]_vars => RecipientsInv'
BY MailTypedKept, MailSentKept, LeftOutKept DEF RecipientsInv

\* What a mail is sent to, and the revision that it shows, are those its job found.
THEOREM RecipientsInvariant == Spec => []RecipientsInv
<1> QED BY RecipientsInitially, RecipientsKept, PTL DEF Spec

LEMMA LeftOutByWork == RecipientsInv => LeftOutWroteAll
<1> SUFFICES ASSUME RecipientsInv, job.kind = "update", mail # NoMail,
                    NEW user \in job.members \ mail.to,
                    NEW i \in News(ContentsAt(job.read))
             PROVE  ContentsAt(job.read)[i].by = user
  BY DEF LeftOutWroteAll
<1>1. /\ job.at = "sent" /\ mail.to = job.to
      /\ LogFits(base, log) /\ job.revision \in 0..Len(log) /\ Len(log) \in Nat
  BY LenProperties DEF RecipientsInv, MailSent, MailTyped, JobOK, LogFits
<1>2. job.read \in job.revision..Len(log)
  BY <1>1 DEF RecipientsInv, UpdateRead, AfterSlices
<1>3. PICK old, new : /\ old = Contents(base, log, job.revision)
                      /\ new = Contents(base, log, job.read)
  OBVIOUS
<1>4. job.read \in 0..Len(log)
  BY <1>1, <1>2
<1>5. old \in Seq(Character) /\ new \in Seq(Character)
  BY <1>1, <1>3, <1>4, ContentsTyped
<1>6. DOMAIN old = 1..Len(old) /\ DOMAIN new = 1..Len(new)
  BY <1>5, LenProperties
<1>7. i \in DOMAIN new /\ new[i] \notin {old[j] : j \in DOMAIN old}
  BY <1>3 DEF News, ContentsAt
<1>8. new[i] \in Chars(new) /\ new[i] \notin Chars(old)
  BY <1>6, <1>7 DEF Chars
<1>9. PICK x : x = new[i]
  OBVIOUS
<1>10. PICK n \in (job.revision + 1)..job.read : Inserting(log[n]) /\ x = log[n].char
  <2>1. job.revision \in Nat /\ job.read \in Nat /\ job.revision <= job.read
        /\ job.read <= Len(log)
    BY <1>1, <1>2
  <2> QED BY <1>1, <1>3, <1>8, <1>9, <2>1, NewIsInserted
<1>11. log[n].char.by = user
  BY <1>1, <1>10 DEF RecipientsInv, LeftOut
<1> QED BY <1>3, <1>9, <1>10, <1>11 DEF ContentsAt

\* getRecipients leaves a subscribed member out of the mail about updates only if all
\* that is new in the contents it shows is his own work, however many edits are
\* committed while the mail is composed, and between its two reads of the log.
THEOREM LeftOutIsRight == Spec => []LeftOutWroteAll
<1> QED BY RecipientsInvariant, LeftOutByWork, PTL

-----------------------------------------------------------------------------
(***************************************************************************)
(* The positions of a set in their order.                                  *)
(***************************************************************************)
UpTo(S, i) == {j \in S : j <= i}

LEMMA RankGrows ==
    ASSUME NEW S \in SUBSET Nat, IsFiniteSet(S), NEW i \in S, NEW j \in S, i < j
    PROVE  Cardinality(UpTo(S, i)) < Cardinality(UpTo(S, j))
<1>1. UpTo(S, j) \subseteq S /\ UpTo(S, i) \subseteq UpTo(S, j)
  <2>1. i \in Nat /\ j \in Nat
    OBVIOUS
  <2>2. ASSUME NEW m \in S, m <= i
        PROVE  m <= j
    <3>1. m \in Nat
      OBVIOUS
    <3> QED BY <2>1, <2>2, <3>1
  <2> QED BY <2>2 DEF UpTo
<1>2. IsFiniteSet(UpTo(S, j)) /\ IsFiniteSet(UpTo(S, i))
  BY <1>1, FS_Subset
<1>3. j \in UpTo(S, j) /\ j \notin UpTo(S, i)
  BY DEF UpTo
<1>4. Cardinality(UpTo(S, i)) <= Cardinality(UpTo(S, j))
      /\ (Cardinality(UpTo(S, i)) = Cardinality(UpTo(S, j)) => UpTo(S, i) = UpTo(S, j))
  BY <1>1, <1>2, FS_Subset
<1>5. Cardinality(UpTo(S, i)) \in Nat /\ Cardinality(UpTo(S, j)) \in Nat
  BY <1>2, FS_CardinalityType
<1> QED BY <1>3, <1>4, <1>5

LEMMA RankBounds ==
    ASSUME NEW S \in SUBSET Nat, IsFiniteSet(S), NEW i \in S
    PROVE  Cardinality(UpTo(S, i)) \in 1..Cardinality(S)
<1>1. UpTo(S, i) \subseteq S /\ i \in UpTo(S, i)
  BY DEF UpTo
<1>2. /\ IsFiniteSet(UpTo(S, i)) /\ Cardinality(UpTo(S, i)) <= Cardinality(S)
  BY <1>1, FS_Subset
<1>3. Cardinality(UpTo(S, i)) \in Nat /\ Cardinality(S) \in Nat
  BY <1>2, FS_CardinalityType
<1>4. Cardinality(UpTo(S, i)) # 0
  BY <1>1, <1>2, FS_EmptySet
<1> QED BY <1>2, <1>3, <1>4

LEMMA RanksReached ==
    ASSUME NEW S \in SUBSET Nat, IsFiniteSet(S), NEW k \in 1..Cardinality(S)
    PROVE  \E i \in S : Cardinality(UpTo(S, i)) = k
<1>1. PICK f : f = [i \in S |-> Cardinality(UpTo(S, i))]
  OBVIOUS
<1>2. Cardinality(S) \in Nat
  BY FS_CardinalityType
<1>3. PICK T : T = 1..Cardinality(S)
  OBVIOUS
<1>4. IsFiniteSet(T) /\ Cardinality(T) = Cardinality(S)
  BY <1>2, <1>3, FS_Interval
<1>5. f \in [S -> T]
  BY <1>1, <1>3, RankBounds
<1>6. ASSUME NEW i \in S, NEW j \in S, f[i] = f[j]
      PROVE  i = j
  <2>1. i < j => f[i] < f[j]
    BY <1>1, RankGrows
  <2>2. j < i => f[j] < f[i]
    BY <1>1, RankGrows
  <2>3. f[i] \in Nat /\ i \in Nat /\ j \in Nat
    BY <1>2, <1>3, <1>5
  <2> QED BY <1>6, <2>1, <2>2, <2>3
<1>7. f \in Injection(S, T)
  BY <1>5, <1>6 DEF Injection, IsInjective
<1>8. f \in Surjection(S, T)
  BY <1>4, <1>7, FS_Injection
<1>9. \E i \in S : f[i] = k
  BY <1>3, <1>8 DEF Surjection
<1> QED BY <1>1, <1>9

\* Ascending has every position of the set once, in order.
LEMMA AscendingOrders ==
    ASSUME NEW S \in SUBSET Nat, IsFiniteSet(S), NEW a, a = Ascending(S)
    PROVE  /\ Cardinality(S) \in Nat /\ DOMAIN a = 1..Cardinality(S)
           /\ a \in Seq(Nat) /\ Len(a) = Cardinality(S)
           /\ \A k \in DOMAIN a : a[k] \in S
           /\ \A k, l \in DOMAIN a : k < l => a[k] < a[l]
           /\ \A i \in S : \E k \in DOMAIN a : a[k] = i
<1>1. Cardinality(S) \in Nat
  BY FS_CardinalityType
<1>2. DOMAIN a = 1..Cardinality(S)
  BY DEF Ascending
<1>3. ASSUME NEW k \in DOMAIN a
      PROVE  a[k] \in S /\ Cardinality(UpTo(S, a[k])) = k
  <2>1. \E i \in S : Cardinality(UpTo(S, i)) = k
    BY <1>2, <1>3, RanksReached
  <2>2. a[k] = CHOOSE i \in S : Cardinality(UpTo(S, i)) = k
    BY <1>2, <1>3 DEF Ascending, UpTo
  <2> QED BY <2>1, <2>2
<1>4. ASSUME NEW k \in DOMAIN a, NEW l \in DOMAIN a, k < l
      PROVE  a[k] < a[l]
  <2>1. a[k] \in S /\ a[l] \in S /\ a[k] \in Nat /\ a[l] \in Nat
    BY <1>3
  <2>2. k \in Nat /\ l \in Nat
    BY <1>1, <1>2
  <2>3. a[k] = a[l] => k = l
    <3>1. k = Cardinality(UpTo(S, a[k])) /\ l = Cardinality(UpTo(S, a[l]))
      BY <1>3
    <3> QED BY <3>1
  <2>4. a[l] < a[k] => l < k
    <3>1. SUFFICES ASSUME a[l] < a[k] PROVE l < k
      OBVIOUS
    <3>2. Cardinality(UpTo(S, a[l])) < Cardinality(UpTo(S, a[k]))
      BY <2>1, <3>1, RankGrows
    <3> QED BY <1>3, <3>2
  <2> QED BY <1>4, <2>1, <2>2, <2>3, <2>4
<1>5. ASSUME NEW i \in S
      PROVE  \E k \in DOMAIN a : a[k] = i
  <2>1. PICK k : k = Cardinality(UpTo(S, i))
    OBVIOUS
  <2>2. k \in DOMAIN a
    BY <1>2, <2>1, RankBounds
  <2>3. a[k] \in S /\ Cardinality(UpTo(S, a[k])) = k
    BY <1>3, <2>2
  <2>4. i \in Nat /\ a[k] \in Nat
    BY <2>3
  <2>5. ~ (a[k] < i) /\ ~ (i < a[k])
    <3>1. Cardinality(UpTo(S, i)) \in Nat
      BY <1>1, RankBounds
    <3>2. a[k] < i => Cardinality(UpTo(S, a[k])) < Cardinality(UpTo(S, i))
      BY <2>3, RankGrows
    <3>3. i < a[k] => Cardinality(UpTo(S, i)) < Cardinality(UpTo(S, a[k]))
      BY <2>3, RankGrows
    <3> QED BY <2>1, <2>3, <3>1, <3>2, <3>3
  <2> QED BY <2>2, <2>4, <2>5
<1>6. a \in [1..Cardinality(S) -> Nat]
  BY <1>2, <1>3 DEF Ascending
<1>7. a \in Seq(Nat)
  BY <1>1, <1>6, SeqDef
<1>8. Len(a) = Cardinality(S)
  BY <1>1, <1>2, <1>7, LenProperties
<1> QED BY <1>1, <1>2, <1>3, <1>4, <1>5, <1>7, <1>8

-----------------------------------------------------------------------------
(***************************************************************************)
(* The lines of a document: every character is on one, and they follow one *)
(* another.                                                                *)
(***************************************************************************)
LastsOf(doc) == {i \in DOMAIN doc : EndsLine(doc, i) \/ IsEmbed(doc, i) \/ i = Len(doc)}

LEMMA LinesOrdered ==
    ASSUME NEW doc \in Seq(Character), NEW lines, lines = Lines(doc)
    PROVE  /\ Len(lines) \in Nat /\ DOMAIN lines = 1..Len(lines)
           /\ \A k \in DOMAIN lines : /\ lines[k].last \in 1..Len(doc)
                                      /\ lines[k].first \in 1..lines[k].last
           /\ \A k, l \in DOMAIN lines : k < l => lines[k].last < lines[l].first
           /\ \A i \in 1..Len(doc) : \E k \in DOMAIN lines : i \in lines[k].first..lines[k].last
<1>0. PICK a : a = Ascending(LastsOf(doc))
  OBVIOUS
<1>1. Len(doc) \in Nat /\ DOMAIN doc = 1..Len(doc)
  BY LenProperties
<1>2. PICK S : S = LastsOf(doc)
  OBVIOUS
<1>3. S \subseteq 1..Len(doc) /\ (Len(doc) > 0 => Len(doc) \in S)
  BY <1>1, <1>2 DEF LastsOf
<1>4. S \in SUBSET Nat /\ IsFiniteSet(S)
  <2>1. IsFiniteSet(1..Len(doc))
    BY <1>1, FS_Interval
  <2>2. S \in SUBSET (1..Len(doc)) /\ S \subseteq Nat
    BY <1>1, <1>3
  <2>3. IsFiniteSet(S)
    BY <2>1, <2>2, FS_Subset
  <2> QED BY <2>2, <2>3
<1>5. /\ Cardinality(S) \in Nat /\ DOMAIN a = 1..Cardinality(S)
      /\ \A k \in DOMAIN a : a[k] \in S
      /\ \A k, l \in DOMAIN a : k < l => a[k] < a[l]
      /\ \A i \in S : \E k \in DOMAIN a : a[k] = i
  BY <1>0, <1>2, <1>4, AscendingOrders
<1>6. lines = [k \in DOMAIN a |->
                  [first |-> IF k = 1 THEN 1 ELSE a[k - 1] + 1, last |-> a[k]]]
  BY <1>0 DEF Lines, LastsOf
<1>7. PICK n : n = Cardinality(S)
  OBVIOUS
<1>8. lines \in Seq({lines[k] : k \in 1..n})
  <2>1. PICK V : V = {lines[k] : k \in 1..n}
    OBVIOUS
  <2>2. lines \in [1..n -> V]
    BY <1>5, <1>6, <1>7, <2>1
  <2>3. n \in Nat
    BY <1>5, <1>7
  <2>4. lines \in Seq(V)
    BY <2>2, <2>3, SeqDef
  <2> QED BY <2>1, <2>4
<1>9. DOMAIN lines = 1..n /\ Len(lines) = n /\ n \in Nat
  <2>1. DOMAIN lines = 1..n /\ DOMAIN lines = 1..Len(lines) /\ Len(lines) \in Nat
    BY <1>5, <1>6, <1>7, <1>8, LenProperties
  <2> QED BY <1>5, <1>7, <2>1
<1>10. ASSUME NEW k \in 1..n
       PROVE  /\ lines[k].last = a[k]
              /\ lines[k].first = IF k = 1 THEN 1 ELSE a[k - 1] + 1
              /\ a[k] \in 1..Len(doc)
              /\ lines[k].first \in 1..a[k]
  <2>1. /\ lines[k].last = a[k] /\ a[k] \in 1..Len(doc)
        /\ lines[k].first = IF k = 1 THEN 1 ELSE a[k - 1] + 1
    <3>1. k \in DOMAIN a
      BY <1>5, <1>7
    <3>2. lines[k] = [first |-> IF k = 1 THEN 1 ELSE a[k - 1] + 1, last |-> a[k]]
      BY <1>6, <3>1
    <3>3. a[k] \in 1..Len(doc)
      BY <1>3, <1>5, <3>1
    <3> QED BY <3>2, <3>3
  <2>2. CASE k = 1
    BY <1>1, <2>1, <2>2
  <2>3. CASE k # 1
    <3>1. k - 1 \in 1..n /\ k - 1 < k
      BY <1>9, <2>3
    <3>2. a[k - 1] < a[k] /\ a[k - 1] \in 1..Len(doc)
      BY <1>3, <1>5, <1>7, <3>1
    <3> QED BY <1>1, <2>1, <2>3, <3>2
  <2> QED BY <2>1, <2>2, <2>3
<1>11. ASSUME NEW k \in 1..n, NEW l \in 1..n, k < l
       PROVE  lines[k].last < lines[l].first
  <2>1. l # 1 /\ l - 1 \in 1..n /\ (k < l - 1 \/ k = l - 1)
    BY <1>9, <1>11
  <2>2. a[k] <= a[l - 1]
    <3>1. a[k] \in Nat /\ a[l - 1] \in Nat
      BY <1>4, <1>5, <1>7, <2>1
    <3>2. k < l - 1 => a[k] < a[l - 1]
      BY <1>5, <1>7, <2>1
    <3> QED BY <2>1, <3>1, <3>2
  <2>3. a[k] \in Nat /\ a[l - 1] \in Nat
    BY <1>4, <1>5, <1>7, <2>1
  <2> QED BY <1>10, <2>1, <2>2, <2>3
<1>12. ASSUME NEW i \in 1..Len(doc)
       PROVE  \E k \in 1..n : i \in lines[k].first..lines[k].last
  <2>1. PICK U : U = {s \in S : i <= s}
    OBVIOUS
  <2>2. Len(doc) \in U /\ U \subseteq Nat
    <3>1. Len(doc) > 0 /\ i <= Len(doc)
      BY <1>1
    <3> QED BY <1>3, <1>4, <2>1, <3>1
  <2>3. PICK s \in U : \A r \in U : s <= r
    BY <2>2, Smallest
  <2>4. PICK k \in 1..n : a[k] = s
    BY <1>5, <1>7, <2>1
  <2>5. i <= a[k]
    BY <2>1, <2>4
  <2>6. lines[k].first <= i
    <3>1. CASE k = 1
      BY <1>10, <3>1
    <3>2. CASE k # 1
      <4>1. k - 1 \in 1..n /\ k - 1 < k
        BY <1>9, <3>2
      <4>2. a[k - 1] < a[k] /\ a[k - 1] \in S /\ a[k - 1] \in Nat /\ a[k] \in Nat
        BY <1>4, <1>5, <1>7, <4>1
      <4>3. a[k - 1] \notin U
        BY <2>3, <2>4, <4>2
      <4>4. a[k - 1] < i
        BY <2>1, <4>2, <4>3
      <4> QED BY <1>10, <3>2, <4>2, <4>4
    <3> QED BY <3>1, <3>2
  <2>7. lines[k].first \in Nat /\ a[k] \in Nat /\ lines[k].last = a[k]
    BY <1>10
  <2> QED BY <2>5, <2>6, <2>7
<1> QED BY <1>5, <1>7, <1>9, <1>10, <1>11, <1>12

LEMMA NoEmbedLines ==
    ASSUME NEW doc \in Seq(Character), NEW k \in DOMAIN Lines(doc), NEW i \in 1..Len(doc),
           i \in Lines(doc)[k].first..Lines(doc)[k].last, \A j \in 1..i : ~ IsEmbed(doc, j)
    PROVE  EmbedLinesBefore(doc, k) = 0
<1>1. PICK lines : lines = Lines(doc)
  OBVIOUS
<1>2. /\ Len(lines) \in Nat /\ DOMAIN lines = 1..Len(lines)
      /\ \A m \in DOMAIN lines : /\ lines[m].last \in 1..Len(doc)
                                 /\ lines[m].first \in 1..lines[m].last
      /\ \A m, l \in DOMAIN lines : m < l => lines[m].last < lines[l].first
  BY <1>1, LinesOrdered
<1>3. Len(doc) \in Nat
  BY LenProperties
<1>4. ASSUME NEW j \in 1..(k - 1)
      PROVE  ~ IsEmbed(doc, lines[j].last)
  <2>1. j \in DOMAIN lines /\ k \in DOMAIN lines /\ j < k
    BY <1>1, <1>2
  <2>2. lines[j].last < lines[k].first /\ lines[j].last \in 1..Len(doc)
    BY <1>2, <2>1
  <2>3. lines[k].first \in Nat /\ lines[k].first <= i
    BY <1>1, <1>2, <1>3, <2>1
  <2>4. lines[j].last \in 1..i
    BY <1>3, <2>2, <2>3
  <2> QED BY <2>4
<1>5. {j \in 1..(k - 1) : IsEmbed(doc, Lines(doc)[j].last)} = {}
  BY <1>1, <1>4
<1> QED BY <1>5, FS_EmptySet DEF EmbedLinesBefore

\* A mention without embeds before it is found at the length counted before it, and
\* is on the lines around it.
LEMMA SurroundingFinds ==
    ASSUME NEW doc \in Seq(Character), NEW i \in 1..Len(doc), doc[i].kind = "mention",
           \A j \in 1..i : ~ IsEmbed(doc, j), NEW retain, retain = i - 1,
           NEW shown, shown = SurroundingDelta(doc, retain)
    PROVE  \E m \in DOMAIN shown : shown[m] = doc[i]
<1>1. PICK lines : lines = Lines(doc)
  OBVIOUS
<1>2. /\ Len(lines) \in Nat /\ DOMAIN lines = 1..Len(lines)
      /\ \A k \in DOMAIN lines : /\ lines[k].last \in 1..Len(doc)
                                 /\ lines[k].first \in 1..lines[k].last
      /\ \A k, l \in DOMAIN lines : k < l => lines[k].last < lines[l].first
      /\ \A n \in 1..Len(doc) : \E k \in DOMAIN lines : n \in lines[k].first..lines[k].last
  BY <1>1, LinesOrdered
<1>3. Len(doc) \in Nat
  BY LenProperties
<1>4. PICK k \in DOMAIN lines : i \in lines[k].first..lines[k].last
  BY <1>2
<1>5. PICK found : found =
         {n \in DOMAIN lines :
             \E j \in lines[n].first..lines[n].last :
                 ~EndsLine(doc, j) /\ StartsOp(doc, j) /\ Counted(doc, n, j) = retain}
  OBVIOUS
<1>6. k \in found
  <2>1. ~ EndsLine(doc, i) /\ StartsOp(doc, i)
    BY DEF EndsLine, LineEnds, StartsOp
  <2>2. EmbedLinesBefore(doc, k) = 0
    BY <1>1, <1>4, NoEmbedLines
  <2>3. Counted(doc, k, i) = retain
    BY <1>3, <2>2 DEF Counted
  <2> QED BY <1>4, <1>5, <2>1, <2>3
<1>7. PICK least : least = Min(found)
  OBVIOUS
<1>8. least \in found /\ \A n \in found : least <= n
  <2>1. found \subseteq Nat
    BY <1>2, <1>5
  <2>2. \E x \in found : \A y \in found : x <= y
    BY <1>6, <2>1, Smallest
  <2> QED BY <1>7, <2>2 DEF Min
<1>9. least = k
  <2>1. least \in DOMAIN lines /\ least <= k /\ least \in Nat /\ k \in Nat
    BY <1>2, <1>5, <1>6, <1>8
  <2>2. SUFFICES ASSUME least < k PROVE FALSE
    BY <2>1
  <2>3. PICK j \in lines[least].first..lines[least].last : Counted(doc, least, j) = retain
    BY <1>5, <1>8
  <2>4. /\ lines[least].last < lines[k].first
        /\ lines[least].last \in 1..Len(doc) /\ lines[least].first \in 1..lines[least].last
        /\ lines[k].first \in Nat
    BY <1>2, <1>3, <2>1, <2>2
  <2>5. j \in 1..Len(doc) /\ j < i
    BY <1>3, <1>4, <2>4
  <2>6. \A n \in 1..j : ~ IsEmbed(doc, n)
    BY <1>3, <2>5
  <2>7. EmbedLinesBefore(doc, least) = 0
    BY <1>1, <2>1, <2>3, <2>5, <2>6, NoEmbedLines
  <2> QED BY <1>3, <2>3, <2>5, <2>7 DEF Counted
<1>10. shown = WithNeighbours(doc, k)
  BY <1>1, <1>5, <1>6, <1>7, <1>9 DEF SurroundingDelta
<1>11. PICK before, after : /\ before = IF k = 1 THEN k ELSE k - 1
                            /\ after = IF k = Len(lines) THEN k ELSE k + 1
  OBVIOUS
<1>12. PICK first, last : first = lines[before].first /\ last = lines[after].last
  OBVIOUS
<1>13. shown = SubSeq(doc, first, last)
  BY <1>1, <1>10, <1>11, <1>12 DEF WithNeighbours, Through
<1>14. before \in DOMAIN lines /\ after \in DOMAIN lines
       /\ (before = k \/ before < k) /\ (after = k \/ k < after)
  BY <1>2, <1>11
<1>15. /\ first \in Nat /\ first > 0 /\ last \in Nat /\ last <= Len(doc)
       /\ first <= i /\ i <= last
  <2>1. /\ lines[k].last \in 1..Len(doc) /\ lines[k].first \in 1..lines[k].last
        /\ lines[before].last \in 1..Len(doc) /\ first \in 1..lines[before].last
        /\ last \in 1..Len(doc) /\ lines[after].first \in 1..last
    BY <1>2, <1>12, <1>14
  <2>2. before < k => first < lines[k].first
    <3>1. SUFFICES ASSUME before < k PROVE first < lines[k].first
      OBVIOUS
    <3>2. lines[before].last < lines[k].first
      BY <1>2, <1>14, <3>1
    <3> QED BY <1>3, <2>1, <3>2
  <2>3. k < after => lines[k].last < last
    <3>1. SUFFICES ASSUME k < after PROVE lines[k].last < last
      OBVIOUS
    <3>2. lines[k].last < lines[after].first
      BY <1>2, <1>14, <3>1
    <3> QED BY <1>3, <2>1, <3>2
  <2>4. before = k => first = lines[k].first
    BY <1>12
  <2>5. after = k => last = lines[k].last
    BY <1>12
  <2> QED BY <1>3, <1>4, <1>14, <2>1, <2>2, <2>3, <2>4, <2>5
<1>16. PICK m : m = i - first + 1
  OBVIOUS
<1>17. first <= last /\ m \in 1..(last - first + 1) /\ first + m - 1 = i
  BY <1>15, <1>16
<1>18. /\ shown \in Seq(Character) /\ Len(shown) = last - first + 1
       /\ \A n \in 1..(last - first + 1) : shown[n] = doc[first + n - 1]
  <2>1. PICK S : S = Character
    OBVIOUS
  <2>2. /\ SubSeq(doc, first, last) \in Seq(S)
        /\ Len(SubSeq(doc, first, last)) = IF first <= last THEN last - first + 1 ELSE 0
        /\ \A n \in 1..(IF first <= last THEN last - first + 1 ELSE 0) :
              SubSeq(doc, first, last)[n] = doc[first + n - 1]
    BY <1>15, <2>1, Slicing
  <2> QED BY <1>13, <1>17, <2>1, <2>2
<1>19. m \in DOMAIN shown /\ shown[m] = doc[i]
  BY <1>17, <1>18, LenProperties
<1> QED BY <1>19

-----------------------------------------------------------------------------
(***************************************************************************)
(* The position of a mention while revisions are applied.                  *)
(***************************************************************************)
Located(c, x, p) == \A i \in 1..Len(c) : c[i] = x => i = p + 1

Shifted(p, op) ==
    CASE Inserting(op) /\ op.at <= p -> p + 1
      [] ~Inserting(op) /\ op.at < p -> p - 1
      [] OTHER -> p

LEMMA ShiftFollows ==
    ASSUME NEW c \in Seq(Character), NEW op \in Operation, Within(op, c), NEW p \in Nat,
           NEW x, Located(c, x, p), Inserting(op) => op.char # x
    PROVE  Shifted(p, op) \in Nat /\ Located(Apply(c, op), x, Shifted(p, op))
<1>1. Len(c) \in Nat /\ op.at \in Nat
  BY LenProperties, OperationTyped
<1>2. PICK e : e = Apply(c, op)
  OBVIOUS
<1>3. PICK q : q = Shifted(p, op)
  OBVIOUS
<1>4. CASE Inserting(op)
  <2>1. /\ Len(e) = Len(c) + 1 /\ op.at <= Len(c)
        /\ \A j \in 1..op.at : e[j] = c[j]
        /\ e[op.at + 1] = op.char
        /\ \A j \in (op.at + 1)..Len(c) : e[j + 1] = c[j]
    BY <1>2, <1>4, InsertionApplied DEF Within
  <2>2. q = IF op.at <= p THEN p + 1 ELSE p
    BY <1>3, <1>4 DEF Shifted
  <2>3. ASSUME NEW i \in 1..Len(e), e[i] = x
        PROVE  i = q + 1
    <3>1. CASE i <= op.at
      <4>1. i \in 1..op.at /\ i \in 1..Len(c)
        BY <1>1, <2>1, <3>1
      <4>2. i = p + 1
        BY <2>1, <2>3, <4>1 DEF Located
      <4> QED BY <1>1, <2>2, <3>1, <4>2
    <3>2. CASE i = op.at + 1
      BY <1>4, <2>1, <2>3, <3>2
    <3>3. CASE i > op.at + 1
      <4>1. i - 1 \in (op.at + 1)..Len(c) /\ i - 1 + 1 = i /\ i - 1 \in 1..Len(c)
        BY <1>1, <2>1, <3>3
      <4>2. c[i - 1] = x
        BY <2>1, <2>3, <4>1
      <4>3. i - 1 = p + 1
        BY <4>1, <4>2 DEF Located
      <4> QED BY <1>1, <2>2, <3>3, <4>3
    <3> QED BY <1>1, <2>1, <3>1, <3>2, <3>3
  <2> QED BY <1>1, <1>2, <1>3, <2>2, <2>3 DEF Located
<1>5. CASE ~ Inserting(op)
  <2>1. /\ Len(e) = Len(c) - 1 /\ op.at < Len(c)
        /\ \A j \in 1..op.at : e[j] = c[j]
        /\ \A j \in (op.at + 2)..Len(c) : e[j - 1] = c[j]
    BY <1>2, <1>5, DeletionApplied DEF Within
  <2>2. q = IF op.at < p THEN p - 1 ELSE p
    BY <1>3, <1>5 DEF Shifted
  <2>3. ASSUME NEW i \in 1..Len(e), e[i] = x
        PROVE  i = q + 1
    <3>1. CASE i <= op.at
      <4>1. i \in 1..op.at /\ i \in 1..Len(c)
        BY <1>1, <2>1, <3>1
      <4>2. i = p + 1
        BY <2>1, <2>3, <4>1 DEF Located
      <4> QED BY <1>1, <2>2, <3>1, <4>2
    <3>2. CASE i > op.at
      <4>1. i + 1 \in (op.at + 2)..Len(c) /\ i + 1 - 1 = i /\ i + 1 \in 1..Len(c)
        BY <1>1, <2>1, <3>2
      <4>2. c[i + 1] = x
        BY <2>1, <2>3, <4>1
      <4>3. i + 1 = p + 1
        BY <4>1, <4>2 DEF Located
      <4> QED BY <1>1, <2>2, <3>2, <4>3
    <3> QED BY <1>1, <2>1, <3>1, <3>2
  <2>4. q \in Nat
    BY <1>1, <2>2
  <2> QED BY <1>1, <1>2, <1>3, <2>3, <2>4 DEF Located
<1> QED BY <1>4, <1>5

Walks(f, at, r, m) ==
    f = [n \in r..m |-> IF n = r THEN at ELSE Shifted(f[n - 1], log[n])]

LEMMA WalkExists ==
    ASSUME NEW at, NEW r \in Nat
    PROVE  \A m \in Nat : m >= r => \E f : Walks(f, at, r, m)
<1> DEFINE T == {m \in Nat : m >= r => \E f : Walks(f, at, r, m)}
<1>1. \E f : Walks(f, at, r, r)
  <2>1. PICK f : f = [n \in r..r |-> at]
    OBVIOUS
  <2>2. \A n \in r..r : n = r
    OBVIOUS
  <2>3. Walks(f, at, r, r)
    BY <2>1, <2>2 DEF Walks
  <2> QED BY <2>3
<1>2. 0 \in T
  <2>1. 0 >= r => r = 0
    OBVIOUS
  <2> QED BY <1>1, <2>1
<1>3. ASSUME NEW m \in Nat, m \in T
      PROVE  m + 1 \in T
  <2>1. SUFFICES ASSUME m + 1 >= r PROVE \E f : Walks(f, at, r, m + 1)
    OBVIOUS
  <2>2. CASE m + 1 = r
    BY <1>1, <2>2
  <2>3. CASE m >= r
    <3>1. PICK f : Walks(f, at, r, m)
      BY <1>3, <2>3
    <3>2. PICK h : h = [n \in r..(m + 1) |->
                           IF n = m + 1 THEN Shifted(f[m], log[m + 1]) ELSE f[n]]
      OBVIOUS
    <3>3. ASSUME NEW n \in r..(m + 1)
          PROVE  h[n] = IF n = r THEN at ELSE Shifted(h[n - 1], log[n])
      <4>1. CASE n = r
        <5>1. n \in r..m /\ n # m + 1
          BY <2>3, <4>1
        <5> QED BY <3>1, <3>2, <4>1, <5>1 DEF Walks
      <4>2. CASE n \in (r + 1)..m
        <5>1. /\ n \in r..m /\ n # m + 1 /\ n # r
              /\ n - 1 \in r..(m + 1) /\ n - 1 # m + 1
          BY <4>2
        <5>2. h[n] = f[n] /\ h[n - 1] = f[n - 1]
          BY <3>2, <5>1
        <5>3. f[n] = Shifted(f[n - 1], log[n])
          BY <3>1, <5>1 DEF Walks
        <5> QED BY <5>1, <5>2, <5>3
      <4>3. CASE n = m + 1
        <5>1. n # r /\ n - 1 = m /\ m \in r..(m + 1) /\ m # m + 1
          BY <2>3, <4>3
        <5>2. h[n] = Shifted(f[m], log[m + 1]) /\ h[m] = f[m]
          BY <3>2, <4>3, <5>1
        <5> QED BY <4>3, <5>1, <5>2
      <4> QED BY <2>3, <4>1, <4>2, <4>3
    <3>4. Walks(h, at, r, m + 1)
      BY <3>2, <3>3 DEF Walks
    <3> QED BY <3>4
  <2> QED BY <2>1, <2>2, <2>3
<1>4. Nat \subseteq T
  <2> HIDE DEF T
  <2> QED BY <1>2, <1>3, SetInduction
<1> QED BY <1>4

\* transformDocumentOperation follows a character through the log, as long as it is
\* there.
LEMMA TransformedFollows ==
    ASSUME LogFits(base, log), NEW r \in 1..Len(log), Inserting(log[r]),
           NEW x, x = log[r].char, NEW p, p = Transformed(log[r].at, r)
    PROVE  p \in Nat /\ Located(Contents(base, log, Len(log)), x, p)
<1>1. log \in Seq(Operation) /\ Len(log) \in Nat /\ r \in Nat /\ r <= Len(log)
  BY LenProperties DEF LogFits
<1>2. PICK at : at = log[r].at
  OBVIOUS
<1>3. PICK f : f = CHOOSE g : Walks(g, at, r, Len(log))
  OBVIOUS
<1>4. Walks(f, at, r, Len(log))
  BY <1>1, <1>3, WalkExists
<1>5. p = f[Len(log)]
  BY <1>2, <1>3 DEF Transformed, Walks, Shifted
<1>6. /\ f[r] = at
      /\ \A n \in (r + 1)..Len(log) : f[n] = Shifted(f[n - 1], log[n])
  <2>1. r \in r..Len(log) /\ \A n \in (r + 1)..Len(log) : n \in r..Len(log) /\ n # r
    BY <1>1
  <2> QED BY <1>4, <2>1 DEF Walks
<1>7. PICK b : b = r - 1
  OBVIOUS
<1>8. b \in Nat /\ b + 1 = r /\ b <= Len(log) /\ b + 1 <= Len(log)
  BY <1>1, <1>7
<1>9. PICK c, op : c = Contents(base, log, b) /\ op = log[r]
  OBVIOUS
<1>10. /\ c \in Seq(Character) /\ op \in Operation /\ Within(op, c)
       /\ op.char.from = <<"revision", r>>
       /\ Contents(base, log, r) = Apply(c, op)
  BY <1>8, <1>9, ContentsNext
<1>11. x \notin Chars(c)
  <2>1. SUFFICES ASSUME x \in Chars(c) PROVE FALSE
    OBVIOUS
  <2>2. CASE x \in Chars(base)
    <3>1. PICK i \in 1..Len(base) : x = base[i]
      BY <2>2 DEF Chars
    <3>2. x.from = <<"base", i>>
      BY <3>1 DEF LogFits
    <3> QED BY <1>9, <1>10, <3>2
  <2>3. CASE x \notin Chars(base)
    <3>1. 0 \in Nat /\ 0 <= b /\ Contents(base, log, 0) = base
      BY <1>8, ContentsStart
    <3>2. PICK m \in (0 + 1)..b : Inserting(log[m]) /\ x = log[m].char
      BY <1>8, <1>9, <2>1, <2>3, <3>1, NewIsInserted
    <3>3. m \in 1..Len(log) /\ m # r
      BY <1>1, <1>8, <3>2
    <3>4. x.from = <<"revision", m>>
      BY <3>2, <3>3 DEF LogFits
    <3> QED BY <1>9, <1>10, <3>3, <3>4
  <2> QED BY <2>2, <2>3
<1> DEFINE T == {n \in Nat : (r <= n /\ n <= Len(log)) =>
                                 f[n] \in Nat /\ Located(Contents(base, log, n), x, f[n])}
<1>12. f[r] \in Nat /\ Located(Contents(base, log, r), x, f[r])
  <2>1. PICK e : e = Apply(c, op)
    OBVIOUS
  <2>2. /\ op.at \in Nat /\ Len(c) \in Nat /\ op.at <= Len(c)
        /\ Len(e) = Len(c) + 1
        /\ \A j \in 1..op.at : e[j] = c[j]
        /\ e[op.at + 1] = op.char
        /\ \A j \in (op.at + 1)..Len(c) : e[j + 1] = c[j]
    BY <1>9, <1>10, <2>1, InsertionApplied, OperationTyped, LenProperties DEF Within
  <2>3. ASSUME NEW i \in 1..Len(e), e[i] = x
        PROVE  i = op.at + 1
    <3>1. CASE i <= op.at
      <4>1. i \in 1..op.at /\ i \in 1..Len(c)
        BY <2>2, <3>1
      <4>2. c[i] = x
        BY <2>2, <2>3, <4>1
      <4> QED BY <1>11, <4>1, <4>2 DEF Chars
    <3>2. CASE i > op.at + 1
      <4>1. i - 1 \in (op.at + 1)..Len(c) /\ i - 1 + 1 = i /\ i - 1 \in 1..Len(c)
        BY <2>2, <3>2
      <4>2. c[i - 1] = x
        BY <2>2, <2>3, <4>1
      <4> QED BY <1>11, <4>1, <4>2 DEF Chars
    <3> QED BY <2>2, <3>1, <3>2
  <2> QED BY <1>2, <1>6, <1>9, <1>10, <2>1, <2>2, <2>3 DEF Located
<1>13. 0 \in T
  BY <1>1
<1>14. ASSUME NEW n \in Nat, n \in T
       PROVE  n + 1 \in T
  <2>1. SUFFICES ASSUME r <= n + 1, n + 1 <= Len(log)
                 PROVE  /\ f[n + 1] \in Nat
                        /\ Located(Contents(base, log, n + 1), x, f[n + 1])
    OBVIOUS
  <2>2. CASE n + 1 = r
    BY <1>12, <2>2
  <2>3. CASE r <= n
    <3>1. n <= Len(log) /\ n + 1 \in (r + 1)..Len(log) /\ n + 1 - 1 = n /\ n + 1 # r
      BY <1>1, <2>1, <2>3
    <3>2. f[n] \in Nat /\ Located(Contents(base, log, n), x, f[n])
      BY <1>14, <2>3, <3>1
    <3>3. PICK d, o, q : d = Contents(base, log, n) /\ o = log[n + 1] /\ q = f[n]
      OBVIOUS
    <3>4. /\ d \in Seq(Character) /\ o \in Operation /\ Within(o, d)
          /\ Inserting(o) => o.char.from = <<"revision", n + 1>>
          /\ Contents(base, log, n + 1) = Apply(d, o)
      BY <2>1, <3>3, ContentsNext
    <3>5. Inserting(o) => o.char # x
      BY <1>1, <1>9, <1>10, <3>1, <3>4
    <3>6. Shifted(q, o) \in Nat /\ Located(Apply(d, o), x, Shifted(q, o))
      BY <3>2, <3>3, <3>4, <3>5, ShiftFollows
    <3>7. f[n + 1] = Shifted(q, o)
      BY <1>6, <3>1, <3>3
    <3> QED BY <3>4, <3>6, <3>7
  <2> QED BY <1>1, <2>1, <2>2, <2>3
<1>15. Nat \subseteq T
  <2> HIDE DEF T
  <2> QED BY <1>13, <1>14, SetInduction
<1> QED BY <1>1, <1>5, <1>15

-----------------------------------------------------------------------------
(***************************************************************************)
(* What a job about a mention has found: where the mention is by then, and  *)
(* what surrounds it.                                                      *)
(***************************************************************************)
Visible(c, x) == \E i \in 1..Len(c) : c[i] = x /\ \A j \in 1..i : ~ IsEmbed(c, j)

MentionSeen ==
    (job.kind = "mention" /\ job.at = "surrounding") =>
        /\ job.seen \in 0..Len(log) /\ job.retain \in Nat
        /\ Located(Contents(base, log, job.seen), log[job.revision].char, job.retain)

AfterSurrounding == {"mentioned", "profile", "render", "recipients", "send", "sent"}

MentionFound ==
    (job.kind = "mention" /\ job.at \in AfterSurrounding) =>
        /\ job.read \in 0..Len(log)
        /\ (job.seen = job.read /\ Visible(Contents(base, log, job.read), log[job.revision].char))
           => log[job.revision].char \in ShownBy(job.slices)

LEMMA MentionMoves ==
    ASSUME MailTyped, job.kind = "mention", Compose
    PROVE  \/ job'.at \notin AfterSurrounding \cup {"surrounding"}
           \/ FindMention /\ job'.at \notin AfterSurrounding
           \/ FindSurrounding
           \/ Render
           \/ /\ job.at \in AfterSurrounding /\ job'.at \in AfterSurrounding
              /\ job'.read = job.read /\ job'.seen = job.seen /\ job'.slices = job.slices
<1>0. /\ DOMAIN job = Fields /\ job.at \in Phases("mention")
  BY DEF MailTyped, JobOK
<1>1. CASE FindDocument
  <2>1. Goto("mention")
    BY <1>1 DEF FindDocument
  <2> QED BY <1>0, <2>1, GoneTo DEF AfterSurrounding
<1>2. CASE FindMention
  BY <1>0, <1>2 DEF FindMention, Set, Goto, Nothing, Throw, AfterSurrounding, Fields
<1>3. CASE FindMentioned
  BY <1>0, <1>3 DEF FindMentioned, At, Set, Goto, Nothing, Throw, AfterSurrounding, Fields
<1>4. CASE FindProfile
  BY <1>0, <1>4 DEF FindProfile, At, Set, Goto, Throw, AfterSurrounding, Fields
<1>5. CASE FindRecipientsOfMention
  BY <1>0, <1>5 DEF FindRecipientsOfMention, At, Set, Goto, Nothing, AfterSurrounding, Fields
<1>6. CASE Send
  BY <1>0, <1>6 DEF Send, At, Set, Goto, AfterSurrounding, Fields
<1>7. ~ (FindPaneMention \/ FindCell \/ MarkUpdates \/ FindSlices \/ FindMembers
         \/ FindRecipients)
  BY <1>0 DEF FindPaneMention, FindCell, MarkUpdates, FindSlices, FindMembers,
              FindRecipients, At, Phases
<1> QED BY <1>1, <1>2, <1>3, <1>4, <1>5, <1>6, <1>7 DEF Compose

LEMMA FindMentionKept ==
    ASSUME MailTyped, job.kind = "mention", FindMention, job'.at = "surrounding"
    PROVE  MentionSeen'
<1>1. /\ DOMAIN job = Fields /\ LogFits(base, log) /\ Len(log) \in Nat
      /\ job.revision \in 1..Len(log) /\ Inserting(log[job.revision])
  BY LenProperties DEF MailTyped, JobOK, LogFits
<1>2. PICK retain : retain = Transformed(log[job.revision].at, job.revision)
  OBVIOUS
<1>3. /\ retain \in Nat
      /\ Located(Contents(base, log, Len(log)), log[job.revision].char, retain)
  <2>1. PICK r, x : r = job.revision /\ x = log[job.revision].char
    OBVIOUS
  <2> QED BY <1>1, <1>2, <2>1, TransformedFollows
<1>4. Set([at |-> "surrounding", retain |-> retain, seen |-> Len(log)])
  <2>1. /\ CASE retain = 0 -> Throw
             [] retain > 0 /\ job.mentioned = job.user -> Nothing
             [] OTHER -> Set([at |-> "surrounding", retain |-> retain, seen |-> Len(log)])
    BY <1>2 DEF FindMention
  <2>2. ~ Throw /\ ~ Nothing
    <3>1. Throw => job'.at = "failed"
      BY <1>1, GoneTo DEF Throw
    <3>2. Nothing => job'.at = "nothing"
      BY <1>1, GoneTo DEF Nothing
    <3> QED BY <3>1, <3>2
  <2> QED BY <1>3, <2>1, <2>2
<1>5. /\ job'.retain = retain /\ job'.seen = Len(log) /\ job'.revision = job.revision
  BY <1>1, <1>4 DEF Set, Fields
<1>6. base' = base /\ log' = log
  BY DEF FindMention, editVars
<1> QED BY <1>1, <1>3, <1>5, <1>6 DEF MentionSeen

LEMMA FindSurroundingKept ==
    ASSUME MailTyped, job.kind = "mention", MentionSeen, FindSurrounding
    PROVE  MentionFound' /\ job'.at # "surrounding"
<1>1. /\ DOMAIN job = Fields /\ LogFits(base, log) /\ Len(log) \in Nat
      /\ job.revision \in 1..Len(log) /\ job.at = "surrounding"
      /\ log[job.revision].char.kind = "mention"
  BY LenProperties DEF MailTyped, JobOK, LogFits, FindSurrounding, At
<1>2. base' = base /\ log' = log
  BY DEF FindSurrounding, editVars
<1>3. PICK doc, shown, chars :
         /\ doc = Contents(base, log, Len(log))
         /\ shown = SurroundingDelta(doc, job.retain)
         /\ chars = {shown[i] : i \in DOMAIN shown}
  OBVIOUS
<1>4. IF shown = << >> THEN Nothing
      ELSE Set([at |-> "mentioned", read |-> Len(log),
                slices |-> <<[chars |-> chars, authors |-> {}]>>])
  BY <1>3 DEF FindSurrounding, ContentsAt
<1>5. CASE Nothing
  <2>1. job'.at = "nothing"
    BY <1>1, <1>5, GoneTo DEF Nothing
  <2> QED BY <2>1 DEF MentionFound, AfterSurrounding
<1>6. CASE Set([at |-> "mentioned", read |-> Len(log),
                slices |-> <<[chars |-> chars, authors |-> {}]>>])
  <2>1. /\ job'.at = "mentioned" /\ job'.read = Len(log) /\ job'.seen = job.seen
        /\ job'.slices = <<[chars |-> chars, authors |-> {}]>>
        /\ job'.revision = job.revision
    BY <1>1, <1>6 DEF Set, Fields
  <2>2. PICK x : x = log[job.revision].char
    OBVIOUS
  <2>3. ASSUME job.seen = Len(log), Visible(doc, x)
        PROVE  x \in chars
    <3>1. doc \in Seq(Character) /\ Len(doc) \in Nat
      <4>1. Len(log) \in 0..Len(log)
        BY <1>1
      <4>2. doc \in Seq(Character)
        BY <1>1, <1>3, <4>1, ContentsTyped
      <4> QED BY <4>2, LenProperties
    <3>2. PICK i \in 1..Len(doc) : doc[i] = x /\ \A j \in 1..i : ~ IsEmbed(doc, j)
      BY <2>3 DEF Visible
    <3>3. i = job.retain + 1
      BY <1>1, <1>3, <2>2, <2>3, <3>2 DEF MentionSeen, Located
    <3>4. PICK retain : retain = i - 1
      OBVIOUS
    <3>5. job.retain = retain
      <4>1. job.retain \in Nat
        BY <1>1 DEF MentionSeen
      <4> QED BY <3>3, <3>4, <4>1
    <3>6. doc[i].kind = "mention"
      BY <1>1, <2>2, <3>2
    <3>7. \E m \in DOMAIN shown : shown[m] = doc[i]
      BY <1>3, <3>1, <3>2, <3>4, <3>5, <3>6, SurroundingFinds
    <3> QED BY <1>3, <3>2, <3>7
  <2>4. (job.seen = Len(log) /\ Visible(doc, x)) => x \in ShownBy(job'.slices)
    <3>1. SUFFICES ASSUME x \in chars PROVE x \in ShownBy(job'.slices)
      BY <2>3
    <3>2. 1 \in DOMAIN job'.slices /\ job'.slices[1].chars = chars
      BY <2>1
    <3> QED BY <3>1, <3>2 DEF ShownBy
  <2> QED BY <1>1, <1>2, <1>3, <2>1, <2>2, <2>4 DEF MentionFound
<1> QED BY <1>4, <1>5, <1>6

LEMMA MentionKept ==
    ASSUME MailTyped, MentionSeen, MentionFound, [Next]_vars
    PROVE  MentionSeen' /\ MentionFound'
<1>0. /\ DOMAIN job = Fields /\ LogFits(base, log) /\ Len(log) \in Nat
      /\ job.revision \in 0..Len(log)
  BY LenProperties DEF MailTyped, JobOK, LogFits
<1>1. CASE UNCHANGED mailVars
  BY <1>1 DEF MentionSeen, MentionFound, ShownBy, mailVars
<1>2. CASE Edit
  <2>1. /\ base' = base /\ job' = job /\ Len(log') = Len(log) + 1
        /\ \A n \in 1..Len(log) : log'[n] = log[n]
        /\ \A n \in 0..Len(log) : Contents(base, log', n) = Contents(base, log, n)
    BY <1>2, EditMoves
  <2>2. job.kind = "mention" => /\ log'[job.revision] = log[job.revision]
    BY <1>0, <2>1 DEF MailTyped, JobOK
  <2>3. MentionSeen'
    <3>1. SUFFICES ASSUME job.kind = "mention", job.at = "surrounding"
                   PROVE  /\ job.seen \in 0..Len(log') /\ job.retain \in Nat
                          /\ Located(Contents(base, log', job.seen),
                                     log'[job.revision].char, job.retain)
      BY <2>1 DEF MentionSeen
    <3>2. /\ job.seen \in 0..Len(log) /\ job.retain \in Nat
          /\ Located(Contents(base, log, job.seen), log[job.revision].char, job.retain)
      BY <3>1 DEF MentionSeen
    <3>3. Contents(base, log', job.seen) = Contents(base, log, job.seen)
      BY <2>1, <3>2
    <3> QED BY <1>0, <2>1, <2>2, <3>1, <3>2, <3>3
  <2>4. MentionFound'
    <3>1. job.kind = "mention" => job.at \notin AfterSurrounding
      <4>1. job.at \in Reading
        BY <1>2, EditMoves
      <4> QED BY <4>1 DEF Reading, AfterSurrounding
    <3> QED BY <2>1, <3>1 DEF MentionFound
  <2> QED BY <2>3, <2>4
<1>3. CASE Compose
  <2>1. /\ base' = base /\ log' = log
        /\ job'.kind = job.kind /\ job'.revision = job.revision
    BY <1>3, ComposeMoves DEF MailTyped, editVars, Same, Fields
  <2>2. CASE job.kind # "mention"
    BY <2>1, <2>2 DEF MentionSeen, MentionFound
  <2>3. CASE job.kind = "mention" /\ job'.at \notin AfterSurrounding \cup {"surrounding"}
    BY <2>3 DEF MentionSeen, MentionFound
  <2>4. CASE job.kind = "mention" /\ FindMention /\ job'.at \notin AfterSurrounding
    BY <2>3, <2>4, FindMentionKept DEF MentionFound
  <2>5. CASE job.kind = "mention" /\ FindSurrounding
    BY <2>5, FindSurroundingKept DEF MentionSeen
  <2>6. CASE /\ job.kind = "mention" /\ job.at \in AfterSurrounding
             /\ job'.at \in AfterSurrounding
             /\ job'.read = job.read /\ job'.seen = job.seen /\ job'.slices = job.slices
    BY <2>1, <2>6 DEF MentionSeen, MentionFound, AfterSurrounding, ShownBy
  <2>7. CASE job.kind = "mention" /\ Render
    <3>1. job.at = "render"
      BY <2>7 DEF Render, At
    <3>2. CASE Throw
      <4>1. job'.at = "failed"
        BY <1>0, <3>2, GoneTo DEF Throw
      <4> QED BY <4>1 DEF MentionSeen, MentionFound, AfterSurrounding
    <3>3. CASE Set([at |-> "recipients",
                    slices |-> [n \in DOMAIN job.slices |-> Converted(job.slices[n])]])
      <4>1. /\ job'.at = "recipients" /\ job'.read = job.read /\ job'.seen = job.seen
            /\ job'.slices = [n \in DOMAIN job.slices |-> Converted(job.slices[n])]
        BY <1>0, <3>3 DEF Set, Fields
      <4>2. PICK x : x = log[job.revision].char
        OBVIOUS
      <4>3. x.kind = "mention"
        BY <2>7, <4>2 DEF MailTyped, JobOK
      <4>4. ASSUME x \in ShownBy(job.slices)
            PROVE  x \in ShownBy(job'.slices)
        <5>1. PICK n \in DOMAIN job.slices : x \in job.slices[n].chars
          BY <4>4 DEF ShownBy
        <5>2. x \in Drawn(job.slices[n].chars)
          BY <4>3, <5>1 DEF Drawn
        <5>3. n \in DOMAIN job'.slices /\ x \in job'.slices[n].chars
          BY <4>1, <5>1, <5>2 DEF Converted
        <5> QED BY <5>3 DEF ShownBy
      <4>5. /\ job.read \in 0..Len(log)
            /\ (job.seen = job.read /\ Visible(Contents(base, log, job.read), x))
               => x \in ShownBy(job.slices)
        BY <2>7, <3>1, <4>2 DEF MentionFound, AfterSurrounding
      <4>6. MentionFound'
        BY <2>1, <4>1, <4>2, <4>4, <4>5 DEF MentionFound
      <4> QED BY <4>1, <4>6 DEF MentionSeen
    <3> QED BY <2>7, <3>2, <3>3 DEF Render
  <2> QED BY <1>3, <2>2, <2>3, <2>4, <2>5, <2>6, <2>7, MentionMoves
<1> QED BY <1>1, <1>2, <1>3 DEF Next, MailNext, vars, mailVars

MentionInv == MailTyped /\ MailSent /\ MentionSeen /\ MentionFound

LEMMA MentionInitially == Init => MentionInv
<1> SUFFICES ASSUME Init PROVE MentionInv
  OBVIOUS
<1>1. MailTyped /\ mail = NoMail
  BY MailTypedInitially
<1>2. job.at \in {"nothing", "find"}
  <2>1. PICK s \in MailScenarios : job.at = s.at
    BY DEF Init, MailInit
  <2> QED BY <2>1, MailScenariosAssumption
<1> QED BY <1>1, <1>2 DEF MentionInv, MailSent, MentionSeen, MentionFound, AfterSurrounding

LEMMA MentionInvKept == MentionInv /\ [Next]_vars => MentionInv'
BY MailTypedKept, MailSentKept, MentionKept DEF MentionInv

\* What a job about a mention has found is where the mention is by now.
THEOREM MentionInvariant == Spec => []MentionInv
<1> QED BY MentionInitially, MentionInvKept, PTL DEF Spec

LEMMA FoundIsShown == MentionInv => MentionShown
<1> SUFFICES ASSUME MentionInv, job.kind = "mention", mail # NoMail, job.seen = job.read,
                    NEW i \in DOMAIN ContentsAt(job.read),
                    ContentsAt(job.read)[i] = log[job.revision].char,
                    \A j \in 1..i : ~IsEmbed(ContentsAt(job.read), j)
             PROVE  log[job.revision].char \in ShownBy(mail.slices)
  BY DEF MentionShown
<1>1. /\ job.at = "sent" /\ mail.slices = job.slices
      /\ LogFits(base, log) /\ job.read \in 0..Len(log)
  BY DEF MentionInv, MailSent, MailTyped, MentionFound, AfterSurrounding
<1>2. PICK doc : doc = Contents(base, log, job.read)
  OBVIOUS
<1>3. doc \in Seq(Character)
  BY <1>1, <1>2, ContentsTyped
<1>4. DOMAIN doc = 1..Len(doc)
  BY <1>3, LenProperties
<1>5. Visible(doc, log[job.revision].char)
  BY <1>2, <1>4 DEF Visible, ContentsAt
<1> QED BY <1>1, <1>2, <1>5 DEF MentionInv, MentionFound, AfterSurrounding

\* The mail about a mention shows it, wherever the edits that are committed while it
\* is composed have moved it, if none comes between its two reads of the log and no
\* embed precedes the mention: the length that getSurroundingDelta counts is then
\* the position transformDocumentOperation gives.
THEOREM MentionIsShown == Spec => []MentionShown
<1> QED BY MentionInvariant, FoundIsShown, PTL

-----------------------------------------------------------------------------
(***************************************************************************)
(* The slices: whatever was added below the header is in one, with who     *)
(* added it.                                                               *)
(***************************************************************************)
PieceStarts(doc) == {i \in DOMAIN doc : StartsPiece(doc, i)}

LastOfPiece(doc, i) ==
    IF ~IsText(doc, i) THEN i
    ELSE Min({j \in i..Len(doc) : j = Len(doc) \/ ~IsText(doc, j + 1)})

\* Below the header, text belongs to the piece that begins after what is no text.
LEMMA PieceBegins ==
    ASSUME NEW doc \in Seq(Character), NEW i \in 1..Len(doc), ~ InHeader(doc, i),
           doc[i].kind \notin LineEnds
    PROVE  \E s \in PieceStarts(doc) : s <= i /\ i <= LastOfPiece(doc, s)
                                       /\ LastOfPiece(doc, s) \in Nat
<1>0. Len(doc) \in Nat /\ DOMAIN doc = 1..Len(doc)
  BY LenProperties
<1>1. ~ EndsLine(doc, i)
  BY DEF EndsLine
<1>2. CASE IsEmbed(doc, i)
  <2>1. StartsPiece(doc, i)
    BY <1>1, <1>2 DEF StartsPiece
  <2>2. ~ IsText(doc, i)
    BY <1>2 DEF IsText
  <2>3. LastOfPiece(doc, i) = i
    BY <2>2 DEF LastOfPiece
  <2> QED BY <1>0, <2>1, <2>3 DEF PieceStarts
<1>3. CASE ~ IsEmbed(doc, i)
  <2>1. PICK U : U = {s \in 1..i : \A j \in s..i : IsText(doc, j) /\ ~ InHeader(doc, j)}
    OBVIOUS
  <2>2. i \in U /\ U \subseteq Nat
    <3>1. i \in 1..i /\ \A j \in i..i : j = i
      BY <1>0
    <3> QED BY <1>1, <1>3, <2>1, <3>1 DEF IsText
  <2>3. PICK s \in U : \A r \in U : s <= r
    BY <2>2, Smallest
  <2>4. s \in 1..i /\ \A j \in s..i : IsText(doc, j) /\ ~ InHeader(doc, j)
    BY <2>1
  <2>5. s \in s..i /\ s \in 1..Len(doc)
    BY <1>0, <2>4
  <2>6. s # 1
    <3>1. 1..(1 - 1) = {}
      OBVIOUS
    <3>2. InHeader(doc, 1)
      BY <3>1 DEF InHeader
    <3> QED BY <2>4, <2>5, <3>2
  <2>7. PICK b : b = s - 1
    OBVIOUS
  <2>8. b \in 1..i /\ b < s /\ b \notin U /\ b \in 1..Len(doc) /\ b + 1 = s
    BY <1>0, <2>3, <2>4, <2>6, <2>7
  <2>9. ~ (IsText(doc, b) /\ ~ InHeader(doc, b))
    <3>1. \A j \in b..i : j = b \/ j \in s..i
      BY <2>4, <2>8
    <3> QED BY <2>1, <2>4, <2>8, <3>1
  <2>10. ~ IsText(doc, b)
    <3>1. SUFFICES ASSUME IsText(doc, b) PROVE FALSE
      OBVIOUS
    <3>2. InHeader(doc, b)
      BY <2>9, <3>1
    <3>3. ~ EndsLine(doc, b)
      BY <3>1 DEF IsText
    <3>4. \A j \in 1..(s - 1) : j \in 1..(b - 1) \/ j = b
      BY <2>4, <2>8
    <3>5. InHeader(doc, s)
      BY <3>2, <3>3, <3>4 DEF InHeader
    <3> QED BY <2>4, <2>5, <3>5
  <2>11. StartsPiece(doc, s)
    <3>1. IsText(doc, s) /\ ~ InHeader(doc, s)
      BY <2>4, <2>5
    <3>2. ~ IsEmbed(doc, s) /\ ~ EndsLine(doc, s)
      BY <3>1 DEF IsText
    <3> QED BY <2>7, <2>10, <3>1, <3>2 DEF StartsPiece
  <2>12. PICK V : V = {j \in s..Len(doc) : j = Len(doc) \/ ~IsText(doc, j + 1)}
    OBVIOUS
  <2>13. Len(doc) \in V /\ V \subseteq Nat
    BY <1>0, <2>5, <2>12
  <2>14. PICK l \in V : \A r \in V : l <= r
    BY <2>13, Smallest
  <2>15. Min(V) \in V
    BY <2>14 DEF Min
  <2>16. LastOfPiece(doc, s) = Min(V)
    BY <2>4, <2>5, <2>12 DEF LastOfPiece
  <2>17. PICK m \in V : m = Min(V)
    BY <2>15
  <2>18. m \in Nat /\ i \in Nat /\ i <= Len(doc) /\ s \in Nat /\ s <= i
    <3>1. m \in Nat
      BY <2>13
    <3>2. i \in Nat /\ i <= Len(doc)
      BY <1>0
    <3> QED BY <2>4, <3>1, <3>2
  <2>19. ~ (m < i)
    <3>1. SUFFICES ASSUME m < i PROVE FALSE
      OBVIOUS
    <3>2. m = Len(doc) \/ ~ IsText(doc, m + 1)
      BY <2>12
    <3>3. m \in s..Len(doc)
      BY <2>12
    <3>4. s <= m
      BY <1>0, <2>18, <3>3
    <3>5. m + 1 <= i
      BY <2>18, <3>1
    <3>6. m + 1 \in s..i
      BY <2>18, <3>4, <3>5
    <3>7. m # Len(doc)
      BY <2>18, <3>1
    <3>8. IsText(doc, m + 1)
      BY <2>4, <3>6
    <3> QED BY <3>2, <3>7, <3>8
  <2>20. i <= m
    BY <2>18, <2>19
  <2> QED BY <1>0, <2>5, <2>11, <2>16, <2>17, <2>18, <2>20 DEF PieceStarts
<1> QED BY <1>2, <1>3

LEMMA PieceHas ==
    ASSUME NEW doc \in Seq(Character), NEW i \in 1..Len(doc), ~ InHeader(doc, i),
           doc[i].kind \notin LineEnds
    PROVE  /\ DOMAIN Pieces(doc) \subseteq Nat \ {0} /\ IsFiniteSet(DOMAIN Pieces(doc))
           /\ \E k \in DOMAIN Pieces(doc) : i \in Pieces(doc)[k].chars
<1>1. Len(doc) \in Nat /\ DOMAIN doc = 1..Len(doc)
  BY LenProperties
<1>2. PICK S : S = PieceStarts(doc)
  OBVIOUS
<1>3. S \in SUBSET Nat /\ IsFiniteSet(S)
  <2>1. IsFiniteSet(1..Len(doc))
    BY <1>1, FS_Interval
  <2>2. S \in SUBSET (1..Len(doc)) /\ S \subseteq Nat
    BY <1>1, <1>2 DEF PieceStarts
  <2>3. IsFiniteSet(S)
    BY <2>1, <2>2, FS_Subset
  <2> QED BY <2>2, <2>3
<1>4. PICK a : a = Ascending(S)
  OBVIOUS
<1>5. /\ Cardinality(S) \in Nat /\ DOMAIN a = 1..Cardinality(S)
      /\ \A s \in S : \E k \in DOMAIN a : a[k] = s
  BY <1>3, <1>4, AscendingOrders
<1>6. PICK pieces : pieces = Pieces(doc)
  OBVIOUS
<1>7. /\ DOMAIN pieces = DOMAIN a
      /\ \A k \in DOMAIN a : pieces[k].chars = a[k]..LastOfPiece(doc, a[k])
  BY <1>2, <1>4, <1>6 DEF Pieces, PieceStarts, LastOfPiece
<1>8. PICK s \in S : s <= i /\ i <= LastOfPiece(doc, s) /\ LastOfPiece(doc, s) \in Nat
  BY <1>2, PieceBegins
<1>9. PICK k \in DOMAIN a : a[k] = s
  BY <1>5
<1>10. i \in s..LastOfPiece(doc, s)
  BY <1>1, <1>3, <1>8
<1>11. i \in pieces[k].chars /\ k \in DOMAIN pieces
  BY <1>7, <1>9, <1>10
<1>12. DOMAIN pieces \subseteq Nat \ {0} /\ IsFiniteSet(DOMAIN pieces)
  <2>1. DOMAIN pieces = 1..Cardinality(S)
    BY <1>5, <1>7
  <2>2. IsFiniteSet(1..Cardinality(S))
    BY <1>5, FS_Interval
  <2> QED BY <1>5, <2>1, <2>2
<1> QED BY <1>6, <1>11, <1>12

\* What was added below the header, other than the end of a line, is in a slice, with
\* who added it.
LEMMA SlicesShow ==
    ASSUME NEW doc \in Seq(Character), NEW added, NEW i \in 1..Len(doc), i \in added,
           ~ InHeader(doc, i), doc[i].kind \notin LineEnds,
           NEW slices, slices = SlicesOf(doc, added)
    PROVE  \E n \in DOMAIN slices : doc[i] \in slices[n].chars /\ doc[i].by \in slices[n].authors
<1>1. PICK pieces : pieces = Pieces(doc)
  OBVIOUS
<1>2. /\ DOMAIN pieces \subseteq Nat \ {0} /\ IsFiniteSet(DOMAIN pieces)
      /\ \E k \in DOMAIN pieces : i \in pieces[k].chars
  BY <1>1, PieceHas
<1>3. PICK k \in DOMAIN pieces : i \in pieces[k].chars
  BY <1>2
<1>4. PICK important : important = Important(doc, added)
  OBVIOUS
<1>5. k \in important
  <2>1. doc[i].kind # "newline"
    BY DEF LineEnds
  <2>2. IsUpdated(doc, added, pieces[k])
    BY <1>3, <2>1 DEF IsUpdated
  <2> QED BY <1>1, <1>3, <1>4, <2>2 DEF Important
<1>6. important \subseteq Nat \ {0} /\ IsFiniteSet(important)
  <2>1. important \subseteq DOMAIN pieces
    BY <1>1, <1>4 DEF Important
  <2> QED BY <1>2, <2>1, FS_Subset
<1>7. PICK U : U = {m \in important : m <= k /\ m..k \subseteq important}
  OBVIOUS
<1>8. k \in U /\ U \subseteq Nat
  <2>1. k \in Nat
    BY <1>5, <1>6
  <2>2. \A j \in k..k : j = k
    BY <2>1
  <2>3. k..k \subseteq important
    BY <1>5, <2>2
  <2> QED BY <1>5, <1>6, <1>7, <2>1, <2>3
<1>9. PICK m \in U : \A j \in U : m <= j
  BY <1>8, Smallest
<1>10. m \in important /\ m <= k /\ m..k \subseteq important
  BY <1>7
<1>11. m - 1 \notin important
  <2>1. SUFFICES ASSUME m - 1 \in important PROVE FALSE
    OBVIOUS
  <2>2. m \in Nat /\ m - 1 \in Nat /\ k \in Nat /\ m - 1 <= k
    BY <1>5, <1>6, <1>10, <2>1
  <2>3. PICK b : b = m - 1
    OBVIOUS
  <2>4. \A j \in b..k : j = b \/ j \in m..k
    BY <2>2, <2>3
  <2>5. b..k \subseteq important
    BY <1>10, <2>1, <2>3, <2>4
  <2>6. b \in U
    BY <1>7, <2>1, <2>2, <2>3, <2>5
  <2> QED BY <1>9, <2>2, <2>3, <2>6
<1>12. PICK S : S = {j \in important : j - 1 \notin important}
  OBVIOUS
<1>13. PICK starts : starts = Ascending(S)
  OBVIOUS
<1>14. \E n \in DOMAIN starts : starts[n] = m
  <2>1. S \subseteq important
    BY <1>12
  <2>2. S \in SUBSET Nat /\ IsFiniteSet(S)
    BY <1>6, <2>1, FS_Subset
  <2>3. m \in S
    BY <1>10, <1>11, <1>12
  <2> QED BY <1>13, <2>2, <2>3, AscendingOrders
<1>15. PICK n \in DOMAIN starts : starts[n] = m
  BY <1>14
<1> DEFINE Run(q) == {j \in important : q <= j /\ q..j \subseteq important}
           Slice(q) == UNION {pieces[j].chars : j \in Run(q)}
<1>16. i \in Slice(m)
  <2>1. k \in Run(m)
    BY <1>5, <1>10
  <2> QED BY <1>3, <2>1
<1>17. slices = [q \in DOMAIN starts |->
                    [chars |-> {doc[j] : j \in Slice(starts[q])},
                     authors |-> {doc[j].by : j \in Slice(starts[q]) \cap added}]]
  BY <1>1, <1>4, <1>12, <1>13 DEF SlicesOf
<1> HIDE DEF Slice
<1>18. /\ slices[n].chars = {doc[j] : j \in Slice(m)}
       /\ slices[n].authors = {doc[j].by : j \in Slice(m) \cap added}
  BY <1>15, <1>17
<1>19. doc[i] \in slices[n].chars /\ doc[i].by \in slices[n].authors
  BY <1>16, <1>18
<1>20. n \in DOMAIN slices
  BY <1>15, <1>17
<1> QED BY <1>19, <1>20

-----------------------------------------------------------------------------
(***************************************************************************)
(* The tokens of a text follow one another.                                *)
(***************************************************************************)
LEMMA RankIsPlace ==
    ASSUME NEW S \in SUBSET Nat, IsFiniteSet(S), NEW a, a = Ascending(S), NEW i \in S
    PROVE  /\ Cardinality(UpTo(S, i)) \in DOMAIN a
           /\ a[Cardinality(UpTo(S, i))] = i
<1>1. /\ Cardinality(S) \in Nat /\ DOMAIN a = 1..Cardinality(S)
      /\ \A k \in DOMAIN a : a[k] \in S
  BY AscendingOrders
<1>2. PICK k : k = Cardinality(UpTo(S, i))
  OBVIOUS
<1>3. k \in 1..Cardinality(S)
  BY <1>2, RankBounds
<1>4. a[k] = CHOOSE j \in S : Cardinality(UpTo(S, j)) = k
  BY <1>1, <1>3 DEF Ascending, UpTo
<1>5. a[k] \in S /\ Cardinality(UpTo(S, a[k])) = k
  BY <1>2, <1>4
<1>6. a[k] < i => k < k
  <2>1. SUFFICES ASSUME a[k] < i PROVE k < k
    OBVIOUS
  <2>2. Cardinality(UpTo(S, a[k])) < Cardinality(UpTo(S, i))
    BY <1>5, <2>1, RankGrows
  <2> QED BY <1>2, <1>5, <2>2
<1>7. i < a[k] => k < k
  <2>1. SUFFICES ASSUME i < a[k] PROVE k < k
    OBVIOUS
  <2>2. Cardinality(UpTo(S, i)) < Cardinality(UpTo(S, a[k]))
    BY <1>5, <2>1, RankGrows
  <2> QED BY <1>2, <1>5, <2>2
<1>8. k \in Nat /\ i \in Nat /\ a[k] \in Nat
  <2>1. k \in Nat
    BY <1>1, <1>3
  <2>2. a[k] \in Nat
    BY <1>5
  <2> QED BY <2>1, <2>2
<1>9. a[k] = i
  BY <1>6, <1>7, <1>8
<1> QED BY <1>1, <1>2, <1>3, <1>9

LEMMA IntervalAscends ==
    ASSUME NEW p \in Nat, NEW q \in Nat, p <= q, NEW a, a = Ascending(p..q)
    PROVE  /\ DOMAIN a = 1..(q - p + 1)
           /\ \A o \in 0..(q - p) : a[o + 1] = p + o
<1>1. PICK S : S = p..q
  OBVIOUS
<1>2. S \in SUBSET Nat
  BY <1>1
<1>3. IsFiniteSet(S) /\ Cardinality(S) = q - p + 1
  <2>1. p \in Int /\ q \in Int /\ ~ (p > q)
    OBVIOUS
  <2> QED BY <1>1, <2>1, FS_Interval
<1>4. DOMAIN a = 1..(q - p + 1)
  BY <1>1, <1>2, <1>3, AscendingOrders
<1>5. ASSUME NEW o \in 0..(q - p)
      PROVE  a[o + 1] = p + o
  <2>1. PICK i : i = p + o
    OBVIOUS
  <2>2. i \in Nat /\ p <= i /\ i <= q
    <3>1. o \in Nat /\ o <= q - p
      OBVIOUS
    <3> QED BY <2>1, <3>1
  <2>3. UpTo(S, i) = p..i
    BY <1>1, <2>2 DEF UpTo
  <2>4. Cardinality(p..i) = i - p + 1
    <3>1. p \in Int /\ i \in Int /\ ~ (p > i)
      BY <2>2
    <3> QED BY <3>1, FS_Interval
  <2>5. i - p + 1 = o + 1
    BY <2>1
  <2>6. i \in S
    BY <1>1, <2>2
  <2>7. a[Cardinality(UpTo(S, i))] = i
    BY <1>1, <1>2, <1>3, <2>6, RankIsPlace
  <2> QED BY <2>1, <2>3, <2>4, <2>5, <2>7
<1> QED BY <1>4, <1>5

TokensAre(doc, tokens, T, first, last) ==
    /\ T \in Nat /\ DOMAIN tokens = 1..T
    /\ \A k \in 1..T : /\ first[k] \in Nat /\ last[k] \in Nat
                       /\ 1 <= first[k] /\ first[k] <= last[k] /\ last[k] <= Len(doc)
                       /\ tokens[k] = first[k]..last[k]
    /\ \A k, l \in 1..T : k < l => last[k] < first[l]
    /\ \A i \in 1..Len(doc) : \E k \in 1..T : i \in tokens[k]

LEMMA TokensOrdered ==
    ASSUME NEW doc \in Seq(Character), NEW tokens, tokens = Tokens(doc)
    PROVE  \E T, first, last : TokensAre(doc, tokens, T, first, last)
<1>1. Len(doc) \in Nat /\ DOMAIN doc = 1..Len(doc)
  BY LenProperties
<1>2. PICK S : S = {i \in DOMAIN doc :
                      i = 1 \/ doc[i].kind = "word" \/ Plain(doc[i]) # Plain(doc[i - 1])}
  OBVIOUS
<1>3. S \in SUBSET Nat /\ IsFiniteSet(S) /\ S \subseteq 1..Len(doc)
  <2>1. S \in SUBSET (1..Len(doc))
    BY <1>1, <1>2
  <2>2. IsFiniteSet(1..Len(doc))
    BY <1>1, FS_Interval
  <2>3. IsFiniteSet(S)
    BY <2>1, <2>2, FS_Subset
  <2>4. S \subseteq Nat
    BY <1>1, <2>1
  <2> QED BY <2>1, <2>3, <2>4
<1>4. PICK first : first = Ascending(S)
  OBVIOUS
<1>5. PICK T : T = Cardinality(S)
  OBVIOUS
<1>6. /\ T \in Nat /\ DOMAIN first = 1..T /\ Len(first) = T
      /\ \A k \in 1..T : first[k] \in S
      /\ \A k, l \in 1..T : k < l => first[k] < first[l]
      /\ \A i \in S : \E k \in 1..T : first[k] = i
  BY <1>3, <1>4, <1>5, AscendingOrders
<1>7. PICK last : last = [k \in 1..T |-> IF k = T THEN Len(doc) ELSE first[k + 1] - 1]
  OBVIOUS
<1>8. tokens = [k \in 1..T |-> first[k]..last[k]]
  <2>1. tokens = [k \in DOMAIN first |->
                    first[k]..(IF k = Len(first) THEN Len(doc) ELSE first[k + 1] - 1)]
    BY <1>2, <1>4 DEF Tokens
  <2> QED BY <1>6, <1>7, <2>1
<1>9. ASSUME NEW k \in 1..T
      PROVE  first[k] \in Nat /\ 1 <= first[k] /\ first[k] <= Len(doc)
  <2>1. first[k] \in 1..Len(doc)
    BY <1>3, <1>6
  <2> QED BY <1>1, <2>1
<1>10. ASSUME NEW k \in 1..T
       PROVE  last[k] \in Nat /\ first[k] <= last[k] /\ last[k] <= Len(doc)
  <2>1. CASE k = T
    BY <1>1, <1>7, <1>9, <2>1
  <2>2. CASE k # T
    <3>1. k + 1 \in 1..T /\ k < k + 1
      BY <1>6, <2>2
    <3>2. first[k] < first[k + 1]
      BY <1>6, <3>1
    <3>3. first[k + 1] \in Nat /\ first[k + 1] <= Len(doc) /\ first[k] \in Nat
      BY <1>9, <3>1
    <3>4. last[k] = first[k + 1] - 1
      BY <1>7, <2>2
    <3> QED BY <1>1, <3>2, <3>3, <3>4
  <2> QED BY <2>1, <2>2
<1>11. ASSUME NEW k \in 1..T, NEW l \in 1..T, k < l
       PROVE  last[k] < first[l]
  <2>1. k # T /\ k + 1 \in 1..T /\ k + 1 <= l
    BY <1>6, <1>11
  <2>2. last[k] = first[k + 1] - 1
    BY <1>7, <2>1
  <2>3. first[k + 1] = first[l] \/ first[k + 1] < first[l]
    BY <1>6, <2>1
  <2>4. first[k + 1] \in Nat /\ first[l] \in Nat
    BY <1>9, <2>1
  <2> QED BY <2>2, <2>3, <2>4
<1>12. ASSUME NEW i \in 1..Len(doc)
       PROVE  \E k \in 1..T : i \in tokens[k]
  <2>0. i \in Nat /\ 1 <= i /\ i <= Len(doc)
    BY <1>1
  <2>1. 1 \in S
    BY <1>1, <1>2, <2>0
  <2>2. PICK k1 \in 1..T : first[k1] = 1
    BY <1>6, <2>1
  <2>3. PICK U : U = {k \in 1..T : i <= last[k]}
    OBVIOUS
  <2>4. T \in U /\ U \subseteq Nat
    <3>1. T \in 1..T
      BY <1>6, <2>2
    <3> QED BY <1>6, <1>7, <2>0, <2>3, <3>1
  <2>5. PICK k \in U : \A l \in U : k <= l
    BY <2>4, Smallest
  <2>6. k \in 1..T /\ i <= last[k]
    BY <2>3
  <2>7. first[k] <= i
    <3>1. CASE k = 1
      <4>1. k1 = k \/ first[k] < first[k1]
        BY <1>6, <2>2, <2>6, <3>1
      <4>2. first[k] \in Nat /\ 1 <= first[k]
        BY <1>9, <2>6
      <4> QED BY <2>0, <2>2, <4>1, <4>2
    <3>2. CASE k # 1
      <4>1. PICK l : l = k - 1
        OBVIOUS
      <4>2. l \in 1..T /\ l < k /\ l # T /\ l + 1 = k
        BY <1>6, <2>6, <3>2, <4>1
      <4>3. l \notin U
        BY <1>6, <2>5, <2>6, <4>2
      <4>4. ~ (i <= last[l])
        BY <2>3, <4>2, <4>3
      <4>5. last[l] = first[k] - 1
        BY <1>7, <4>2
      <4>6. first[k] \in Nat
        BY <1>9, <2>6
      <4> QED BY <2>0, <4>4, <4>5, <4>6
    <3> QED BY <3>1, <3>2
  <2>8. first[k] \in Nat /\ last[k] \in Nat
    BY <1>9, <1>10, <2>6
  <2>9. i \in first[k]..last[k]
    BY <2>0, <2>6, <2>7, <2>8
  <2> QED BY <1>8, <2>6, <2>9
<1>13. \A k \in 1..T : tokens[k] = first[k]..last[k]
  BY <1>8
<1>14. DOMAIN tokens = 1..T
  BY <1>8
<1>15. TokensAre(doc, tokens, T, first, last)
  BY <1>6, <1>9, <1>10, <1>11, <1>12, <1>13, <1>14 DEF TokensAre
<1> QED BY <1>15

\* A map that keeps the order takes each position to the one of the same rank.
LEMMA RankCarries ==
    ASSUME NEW S \in SUBSET Nat, IsFiniteSet(S), NEW T \in SUBSET Nat, IsFiniteSet(T),
           NEW f \in [S -> T], \A i, j \in S : i < j => f[i] < f[j],
           \A t \in T : \E i \in S : f[i] = t,
           NEW a, a = Ascending(S), NEW b, b = Ascending(T), NEW i \in S
    PROVE  \E m \in DOMAIN a : a[m] = i /\ m \in DOMAIN b /\ b[m] = f[i]
<1>1. PICK L, R : L = UpTo(S, i) /\ R = UpTo(T, f[i])
  OBVIOUS
<1>2. L \in SUBSET S /\ R \in SUBSET T /\ IsFiniteSet(L) /\ IsFiniteSet(R)
  <2>1. L \in SUBSET S /\ R \in SUBSET T
    BY <1>1 DEF UpTo
  <2> QED BY <2>1, FS_Subset
<1>3. PICK g : g = [j \in L |-> f[j]]
  OBVIOUS
<1>4. ASSUME NEW j \in S
      PROVE  j \in L <=> f[j] \in R
  <2>1. i \in Nat /\ j \in Nat /\ f[i] \in Nat /\ f[j] \in Nat
    OBVIOUS
  <2>2. j <= i <=> f[j] <= f[i]
    <3>1. i < j => f[i] < f[j]
      OBVIOUS
    <3>2. j < i => f[j] < f[i]
      OBVIOUS
    <3>3. j = i => f[j] = f[i]
      OBVIOUS
    <3> QED BY <2>1, <3>1, <3>2, <3>3
  <2> QED BY <1>1, <2>2 DEF UpTo
<1>5. g \in [L -> R]
  BY <1>2, <1>3, <1>4
<1>6. ASSUME NEW j \in L, NEW k \in L, g[j] = g[k]
      PROVE  j = k
  <2>1. j \in S /\ k \in S /\ f[j] = f[k]
    BY <1>2, <1>3, <1>6
  <2>2. j \in Nat /\ k \in Nat /\ f[j] \in Nat /\ f[k] \in Nat
    BY <2>1
  <2>3. (j < k => f[j] < f[k]) /\ (k < j => f[k] < f[j])
    BY <2>1
  <2> QED BY <2>1, <2>2, <2>3
<1>7. ASSUME NEW t \in R
      PROVE  \E j \in L : g[j] = t
  <2>1. PICK j \in S : f[j] = t
    BY <1>2
  <2>2. j \in L
    BY <1>4, <2>1
  <2> QED BY <1>3, <2>1, <2>2
<1>8. Cardinality(R) = Cardinality(L)
  <2>1. g \in Injection(L, R)
    BY <1>5, <1>6 DEF Injection, IsInjective
  <2>2. g \in Surjection(L, R)
    BY <1>5, <1>7 DEF Surjection
  <2>3. ExistsBijection(L, R)
    BY <2>1, <2>2 DEF ExistsBijection, Bijection
  <2> QED BY <1>2, <2>3, FS_Bijection
<1>9. Cardinality(L) \in DOMAIN a /\ a[Cardinality(L)] = i
  BY <1>1, RankIsPlace
<1>10. Cardinality(R) \in DOMAIN b /\ b[Cardinality(R)] = f[i]
  <2>1. f[i] \in T
    OBVIOUS
  <2> QED BY <1>1, <2>1, RankIsPlace
<1> QED BY <1>8, <1>9, <1>10

Carried(a, b, Q, x, y, w, i) ==
    \E m \in DOMAIN a, q \in Q, o \in Nat :
       /\ m \in DOMAIN b /\ o <= w[q]
       /\ a[m] = i /\ i = y[q] + o /\ b[m] = x[q] + o

\* Runs of the same lengths in the same order.
LEMMA RunsCarry ==
    ASSUME NEW Q, NEW x \in [Q -> Nat], NEW y \in [Q -> Nat], NEW w \in [Q -> Nat],
           Q \subseteq Nat,
           \A q, r \in Q : q < r => x[q] + w[q] < x[r] /\ y[q] + w[q] < y[r],
           NEW S \in SUBSET Nat, IsFiniteSet(S), NEW T \in SUBSET Nat, IsFiniteSet(T),
           \A i \in Nat : i \in S <=> \E q \in Q : y[q] <= i /\ i <= y[q] + w[q],
           \A i \in Nat : i \in T <=> \E q \in Q : x[q] <= i /\ i <= x[q] + w[q],
           NEW i \in S
    PROVE  Carried(Ascending(S), Ascending(T), Q, x, y, w, i)
<1>0. PICK a, b : a = Ascending(S) /\ b = Ascending(T)
  OBVIOUS
<1>1. PICK run : run = [j \in S |-> CHOOSE q \in Q : y[q] <= j /\ j <= y[q] + w[q]]
  OBVIOUS
<1>2. ASSUME NEW j \in S
      PROVE  run[j] \in Q /\ y[run[j]] <= j /\ j <= y[run[j]] + w[run[j]]
  <2>1. \E q \in Q : y[q] <= j /\ j <= y[q] + w[q]
    BY <1>2
  <2>2. run[j] = CHOOSE q \in Q : y[q] <= j /\ j <= y[q] + w[q]
    BY <1>1, <1>2
  <2> QED BY <2>1, <2>2
<1>3. PICK f : f = [j \in S |-> x[run[j]] + (j - y[run[j]])]
  OBVIOUS
<1>4. ASSUME NEW j \in S
      PROVE  \E o \in Nat : /\ o <= w[run[j]] /\ j = y[run[j]] + o
                            /\ f[j] = x[run[j]] + o /\ f[j] \in T
  <2>1. PICK o : o = j - y[run[j]]
    OBVIOUS
  <2>2. /\ y[run[j]] \in Nat /\ w[run[j]] \in Nat /\ x[run[j]] \in Nat /\ j \in Nat
    BY <1>2
  <2>3. o \in Nat /\ o <= w[run[j]] /\ j = y[run[j]] + o
    BY <1>2, <2>1, <2>2
  <2>4. f[j] = x[run[j]] + o
    BY <1>3, <2>1
  <2>5. f[j] \in Nat /\ x[run[j]] <= f[j] /\ f[j] <= x[run[j]] + w[run[j]]
    BY <2>2, <2>3, <2>4
  <2>6. f[j] \in T
    BY <1>2, <2>5
  <2> QED BY <2>3, <2>4, <2>6
<1>5. f \in [S -> T]
  BY <1>3, <1>4
<1>6. ASSUME NEW j \in S, NEW k \in S, j < k
      PROVE  f[j] < f[k]
  <2>1. PICK q, r : q = run[j] /\ r = run[k]
    OBVIOUS
  <2>2. q \in Q /\ r \in Q /\ q \in Nat /\ r \in Nat /\ j \in Nat /\ k \in Nat
    BY <1>2, <2>1
  <2>3. /\ x[q] \in Nat /\ y[q] \in Nat /\ w[q] \in Nat
        /\ x[r] \in Nat /\ y[r] \in Nat /\ w[r] \in Nat
    BY <2>2
  <2>4. PICK o \in Nat : o <= w[q] /\ j = y[q] + o /\ f[j] = x[q] + o
    BY <1>4, <2>1
  <2>5. PICK u \in Nat : u <= w[r] /\ k = y[r] + u /\ f[k] = x[r] + u
    BY <1>4, <2>1
  <2>6. CASE q = r
    BY <1>6, <2>3, <2>4, <2>5, <2>6
  <2>7. CASE q < r
    <3>1. x[q] + w[q] < x[r]
      BY <2>2, <2>7
    <3> QED BY <2>3, <2>4, <2>5, <3>1
  <2>8. CASE r < q
    <3>1. y[r] + w[r] < y[q]
      BY <2>2, <2>8
    <3> QED BY <1>6, <2>3, <2>4, <2>5, <3>1
  <2> QED BY <2>2, <2>6, <2>7, <2>8
<1>7. ASSUME NEW t \in T
      PROVE  \E j \in S : f[j] = t
  <2>1. PICK q \in Q : x[q] <= t /\ t <= x[q] + w[q]
    OBVIOUS
  <2>2. t \in Nat /\ x[q] \in Nat /\ y[q] \in Nat /\ w[q] \in Nat
    OBVIOUS
  <2>3. PICK j : j = y[q] + (t - x[q])
    OBVIOUS
  <2>4. j \in Nat /\ y[q] <= j /\ j <= y[q] + w[q]
    BY <2>1, <2>2, <2>3
  <2>5. j \in S
    BY <2>4
  <2>6. PICK r : r = run[j]
    OBVIOUS
  <2>7. r \in Q /\ y[r] <= j /\ j <= y[r] + w[r] /\ f[j] = x[r] + (j - y[r])
    BY <1>2, <1>3, <2>5, <2>6
  <2>8. r = q
    <3>1. r < q => y[r] + w[r] < y[q]
      BY <2>7
    <3>2. q < r => y[q] + w[q] < y[r]
      BY <2>7
    <3>3. r \in Nat /\ q \in Nat /\ y[r] \in Nat /\ w[r] \in Nat
      BY <2>7
    <3> QED BY <2>2, <2>4, <2>7, <3>1, <3>2, <3>3
  <2>9. f[j] = t
    BY <2>2, <2>3, <2>7, <2>8
  <2> QED BY <2>5, <2>9
<1>8. PICK m \in DOMAIN a : a[m] = i /\ m \in DOMAIN b /\ b[m] = f[i]
  BY <1>0, <1>5, <1>6, <1>7, RankCarries
<1>9. PICK o \in Nat : o <= w[run[i]] /\ i = y[run[i]] + o /\ f[i] = x[run[i]] + o
  BY <1>4
<1>10. run[i] \in Q
  BY <1>2
<1>11. Carried(a, b, Q, x, y, w, i)
  BY <1>8, <1>9, <1>10 DEF Carried
<1> QED BY <1>0, <1>11

\* A token is spelled as the plain forms of its characters, one after the other.
LEMMA SpelledOut ==
    ASSUME NEW doc, NEW tokens, NEW T, NEW first, NEW last,
           TokensAre(doc, tokens, T, first, last),
           NEW spelled, spelled = Spelled(doc, tokens)
    PROVE  /\ DOMAIN spelled = 1..T
           /\ \A k \in 1..T : /\ DOMAIN spelled[k] = 1..(last[k] - first[k] + 1)
                              /\ \A o \in 0..(last[k] - first[k]) :
                                    spelled[k][o + 1] = Plain(doc[first[k] + o])
<1>1. DOMAIN spelled = 1..T
  BY DEF Spelled, TokensAre
<1>2. ASSUME NEW k \in 1..T
      PROVE  /\ DOMAIN spelled[k] = 1..(last[k] - first[k] + 1)
             /\ \A o \in 0..(last[k] - first[k]) :
                   spelled[k][o + 1] = Plain(doc[first[k] + o])
  <2>1. PICK p, q : p = first[k] /\ q = last[k]
    OBVIOUS
  <2>2. p \in Nat /\ q \in Nat /\ p <= q /\ tokens[k] = p..q /\ k \in DOMAIN tokens
    BY <2>1 DEF TokensAre
  <2>3. PICK kept : kept = Ascending(p..q)
    OBVIOUS
  <2>4. DOMAIN kept = 1..(q - p + 1) /\ \A o \in 0..(q - p) : kept[o + 1] = p + o
    BY <2>2, <2>3, IntervalAscends
  <2>5. PICK chars : chars = Pick(doc, tokens[k])
    OBVIOUS
  <2>6. chars = [n \in DOMAIN kept |-> doc[kept[n]]]
    BY <2>2, <2>3, <2>5 DEF Pick
  <2>7. spelled[k] = [n \in DOMAIN chars |-> Plain(chars[n])]
    BY <2>2, <2>5 DEF Spelled
  <2>8. DOMAIN spelled[k] = 1..(q - p + 1)
    BY <2>4, <2>6, <2>7
  <2>9. ASSUME NEW o \in 0..(q - p)
        PROVE  spelled[k][o + 1] = Plain(doc[p + o])
    <3>1. o + 1 \in 1..(q - p + 1)
      BY <2>2
    <3>2. kept[o + 1] = p + o
      BY <2>4
    <3>3. chars[o + 1] = doc[p + o]
      BY <2>4, <2>6, <3>1, <3>2
    <3>4. o + 1 \in DOMAIN chars
      BY <2>4, <2>6, <3>1
    <3> QED BY <2>7, <3>3, <3>4
  <2> QED BY <2>1, <2>8, <2>9
<1> QED BY <1>1, <1>2

Parts(tokens, W) == UNION {tokens[k] : k \in W}

KeptAre(T, first, last, kept, S) ==
    /\ \E Q \in Nat : DOMAIN kept = 1..Q
    /\ \A q \in DOMAIN kept : kept[q] \in 1..T
    /\ \A q, r \in DOMAIN kept : q < r => last[kept[q]] < first[kept[r]]
    /\ \A i \in Nat : i \in S <=> \E q \in DOMAIN kept :
                                     first[kept[q]] <= i /\ i <= last[kept[q]]
    /\ S \in SUBSET Nat /\ IsFiniteSet(S)

\* The characters that stay are those of the tokens that stay.
LEMMA TokensKept ==
    ASSUME NEW doc, Len(doc) \in Nat, NEW tokens, NEW T, NEW first, NEW last,
           TokensAre(doc, tokens, T, first, last), NEW W, W \subseteq 1..T
    PROVE  KeptAre(T, first, last, Ascending(1..T \ W), (1..Len(doc)) \ Parts(tokens, W))
<1>0. PICK kept, S : /\ kept = Ascending(1..T \ W)
                     /\ S = (1..Len(doc)) \ UNION {tokens[k] : k \in W}
  OBVIOUS
<1>1. PICK A : A = 1..T \ W
  OBVIOUS
<1>2. /\ T \in Nat
      /\ \A k \in 1..T : /\ first[k] \in Nat /\ last[k] \in Nat
                         /\ 1 <= first[k] /\ last[k] <= Len(doc)
                         /\ tokens[k] = first[k]..last[k]
      /\ \A k, l \in 1..T : k < l => last[k] < first[l]
      /\ \A i \in 1..Len(doc) : \E k \in 1..T : i \in tokens[k]
  BY DEF TokensAre
<1>3. A \in SUBSET Nat /\ IsFiniteSet(A)
  <2>1. IsFiniteSet(1..T)
    <3>1. T \in Int
      BY <1>2
    <3> QED BY <3>1, FS_Interval
  <2>2. A \in SUBSET (1..T)
    BY <1>1
  <2>3. IsFiniteSet(A)
    BY <2>1, <2>2, FS_Subset
  <2>4. A \subseteq Nat
    BY <1>2, <2>2
  <2> QED BY <2>3, <2>4
<1>4. /\ Cardinality(A) \in Nat /\ DOMAIN kept = 1..Cardinality(A)
      /\ \A q \in DOMAIN kept : kept[q] \in A
      /\ \A q, r \in DOMAIN kept : q < r => kept[q] < kept[r]
      /\ \A k \in A : \E q \in DOMAIN kept : kept[q] = k
  <2>1. kept = Ascending(A)
    BY <1>0, <1>1
  <2> QED BY <1>3, <2>1, AscendingOrders
<1>5. \A q \in DOMAIN kept : kept[q] \in 1..T /\ kept[q] \notin W
  BY <1>1, <1>4
<1>6. ASSUME NEW q \in DOMAIN kept, NEW r \in DOMAIN kept, q < r
      PROVE  last[kept[q]] < first[kept[r]]
  <2>1. kept[q] < kept[r]
    BY <1>4, <1>6
  <2> QED BY <1>2, <1>5, <2>1
<1>7. ASSUME NEW i \in S
      PROVE  \E q \in DOMAIN kept : first[kept[q]] <= i /\ i <= last[kept[q]]
  <2>1. i \in 1..Len(doc) /\ i \in Nat
    BY <1>0
  <2>2. PICK k \in 1..T : i \in tokens[k]
    BY <1>2, <2>1
  <2>3. k \in A
    BY <1>0, <1>1, <2>2
  <2>4. PICK q \in DOMAIN kept : kept[q] = k
    BY <1>4, <2>3
  <2>5. first[k] <= i /\ i <= last[k]
    <3>1. i \in first[k]..last[k] /\ first[k] \in Nat /\ last[k] \in Nat
      BY <1>2, <2>2
    <3> QED BY <3>1
  <2> QED BY <2>4, <2>5
<1>8. ASSUME NEW i \in Nat, NEW q \in DOMAIN kept,
             first[kept[q]] <= i, i <= last[kept[q]]
      PROVE  i \in S
  <2>1. PICK k : k = kept[q]
    OBVIOUS
  <2>2. /\ k \in 1..T /\ k \notin W /\ first[k] <= i /\ i <= last[k] /\ k \in Nat
        /\ first[k] \in Nat /\ last[k] \in Nat /\ 1 <= first[k] /\ last[k] <= Len(doc)
    <3>1. k \in 1..T /\ k \notin W
      BY <1>5, <2>1
    <3>2. k \in Nat
      BY <1>2, <3>1
    <3> QED BY <1>2, <1>8, <2>1, <3>1, <3>2
  <2>3. i \in 1..Len(doc)
    BY <2>2
  <2>4. ASSUME NEW l \in W, i \in tokens[l]
        PROVE  FALSE
    <3>1. l \in 1..T /\ l # k /\ l \in Nat
      BY <1>2, <2>2
    <3>2. first[l] \in Nat /\ last[l] \in Nat /\ first[l] <= i /\ i <= last[l]
      <4>1. i \in first[l]..last[l] /\ first[l] \in Nat /\ last[l] \in Nat
        BY <1>2, <2>4, <3>1
      <4> QED BY <4>1
    <3>3. l < k => last[l] < first[k]
      BY <1>2, <2>2, <3>1
    <3>4. k < l => last[k] < first[l]
      BY <1>2, <2>2, <3>1
    <3> QED BY <2>2, <3>1, <3>2, <3>3, <3>4
  <2> QED BY <1>0, <2>3, <2>4
<1>9. S \in SUBSET Nat /\ IsFiniteSet(S)
  <2>1. IsFiniteSet(1..Len(doc))
    BY FS_Interval
  <2>2. S \in SUBSET (1..Len(doc))
    BY <1>0
  <2>3. IsFiniteSet(S)
    BY <2>1, <2>2, FS_Subset
  <2>4. S \subseteq Nat
    BY <2>2
  <2> QED BY <2>3, <2>4
<1>10. KeptAre(T, first, last, kept, S)
  BY <1>4, <1>5, <1>6, <1>7, <1>8, <1>9 DEF KeptAre
<1> QED BY <1>0, <1>10 DEF Parts

\* The diff takes what is not added for something that looks the same in a word diff.
LEMMA WayKeeps ==
    ASSUME NEW old, NEW new, NEW way \in Ways(old, new)
    PROVE  LET this == Spelled(old, Tokens(old))
               other == Spelled(new, Tokens(new))
           IN
           /\ way[1] \subseteq DOMAIN this /\ way[2] \subseteq DOMAIN other
           /\ Pick(this, DOMAIN this \ way[1]) = Pick(other, DOMAIN other \ way[2])
<1> DEFINE this == Spelled(old, Tokens(old))
           other == Spelled(new, Tokens(new))
           Going(n) ==
        {w \in kSubset(n, DOMAIN this) \X kSubset(n + Len(other) - Len(this), DOMAIN other) :
            Pick(this, DOMAIN this \ w[1]) = Pick(other, DOMAIN other \ w[2])}
           Possible(n) == n + Len(other) >= Len(this) /\ Going(n) # {}
<1>1. Ways(old, new) =
        Going(CHOOSE n \in 0..Len(this) : Possible(n) /\ \A m \in 0..(n - 1) : ~Possible(m))
  BY DEF Ways
<1>2. PICK n : way \in Going(n)
  <2> HIDE DEF Going, Possible
  <2> QED BY <1>1
<1>3. way[1] \in SUBSET DOMAIN this /\ way[2] \in SUBSET DOMAIN other
  BY <1>2 DEF kSubset
<1> QED BY <1>2, <1>3

Compared(old, new, before, after, i) ==
    \E m \in DOMAIN after : /\ after[m] = i /\ before[m] \in 1..Len(old)
                            /\ Plain(old[before[m]]) = Plain(new[i])

LEMMA PlainKept ==
    ASSUME NEW old \in Seq(Character), NEW new \in Seq(Character), NEW way \in Ways(old, new),
           NEW i \in DOMAIN new, i \notin Parts(Tokens(new), way[2])
    PROVE  Compared(old, new, Ascending(DOMAIN old \ Parts(Tokens(old), way[1])),
                    Ascending(DOMAIN new \ Parts(Tokens(new), way[2])), i)
<1>0. PICK before, after : /\ before = Ascending(DOMAIN old \ Parts(Tokens(old), way[1]))
                           /\ after = Ascending(DOMAIN new \ Parts(Tokens(new), way[2]))
  OBVIOUS
<1>1. /\ Len(old) \in Nat /\ DOMAIN old = 1..Len(old)
      /\ Len(new) \in Nat /\ DOMAIN new = 1..Len(new)
  BY LenProperties
<1>2. PICK tokens1, tokens2 : tokens1 = Tokens(old) /\ tokens2 = Tokens(new)
  OBVIOUS
<1>3. PICK T1, first1, last1 : TokensAre(old, tokens1, T1, first1, last1)
  BY <1>2, TokensOrdered
<1>4. PICK T2, first2, last2 : TokensAre(new, tokens2, T2, first2, last2)
  BY <1>2, TokensOrdered
<1>5. PICK this, other : this = Spelled(old, tokens1) /\ other = Spelled(new, tokens2)
  OBVIOUS
<1>6. /\ DOMAIN this = 1..T1
      /\ \A k \in 1..T1 : /\ DOMAIN this[k] = 1..(last1[k] - first1[k] + 1)
                          /\ \A o \in 0..(last1[k] - first1[k]) :
                                this[k][o + 1] = Plain(old[first1[k] + o])
  BY <1>3, <1>5, SpelledOut
<1>7. /\ DOMAIN other = 1..T2
      /\ \A k \in 1..T2 : /\ DOMAIN other[k] = 1..(last2[k] - first2[k] + 1)
                          /\ \A o \in 0..(last2[k] - first2[k]) :
                                other[k][o + 1] = Plain(new[first2[k] + o])
  BY <1>4, <1>5, SpelledOut
<1>8. /\ way[1] \subseteq 1..T1 /\ way[2] \subseteq 1..T2
      /\ Pick(this, 1..T1 \ way[1]) = Pick(other, 1..T2 \ way[2])
  <2>0. LET s == Spelled(old, Tokens(old))
            t == Spelled(new, Tokens(new))
        IN  /\ way[1] \subseteq DOMAIN s /\ way[2] \subseteq DOMAIN t
            /\ Pick(s, DOMAIN s \ way[1]) = Pick(t, DOMAIN t \ way[2])
    BY WayKeeps
  <2>1. /\ way[1] \subseteq DOMAIN this /\ way[2] \subseteq DOMAIN other
        /\ Pick(this, DOMAIN this \ way[1]) = Pick(other, DOMAIN other \ way[2])
    BY <1>2, <1>5, <2>0
  <2> QED BY <1>6, <1>7, <2>1
<1>9. PICK kept1, kept2 : /\ kept1 = Ascending(1..T1 \ way[1])
                          /\ kept2 = Ascending(1..T2 \ way[2])
  OBVIOUS
<1>10. PICK S1, S2 : /\ S1 = (1..Len(old)) \ UNION {tokens1[k] : k \in way[1]}
                     /\ S2 = (1..Len(new)) \ UNION {tokens2[k] : k \in way[2]}
  OBVIOUS
<1>11. /\ \E Q \in Nat : DOMAIN kept1 = 1..Q
       /\ \A q \in DOMAIN kept1 : kept1[q] \in 1..T1
       /\ \A q, r \in DOMAIN kept1 : q < r => last1[kept1[q]] < first1[kept1[r]]
       /\ \A j \in Nat : j \in S1 <=> \E q \in DOMAIN kept1 :
                                         first1[kept1[q]] <= j /\ j <= last1[kept1[q]]
       /\ S1 \in SUBSET Nat /\ IsFiniteSet(S1)
  <2>1. PICK W : W = way[1]
    OBVIOUS
  <2>2. W \subseteq 1..T1 /\ Len(old) \in Nat
    BY <1>1, <1>8, <2>1
  <2>3. KeptAre(T1, first1, last1, Ascending(1..T1 \ W),
                (1..Len(old)) \ Parts(tokens1, W))
    BY <1>3, <2>2, TokensKept
  <2>4. KeptAre(T1, first1, last1, kept1, S1)
    BY <1>9, <1>10, <2>1, <2>3 DEF Parts
  <2> QED BY <2>4 DEF KeptAre
<1>12. /\ \A q \in DOMAIN kept2 : kept2[q] \in 1..T2
       /\ \A q, r \in DOMAIN kept2 : q < r => last2[kept2[q]] < first2[kept2[r]]
       /\ \A j \in Nat : j \in S2 <=> \E q \in DOMAIN kept2 :
                                         first2[kept2[q]] <= j /\ j <= last2[kept2[q]]
       /\ S2 \in SUBSET Nat /\ IsFiniteSet(S2)
  <2>1. PICK W : W = way[2]
    OBVIOUS
  <2>2. W \subseteq 1..T2 /\ Len(new) \in Nat
    BY <1>1, <1>8, <2>1
  <2>3. KeptAre(T2, first2, last2, Ascending(1..T2 \ W),
                (1..Len(new)) \ Parts(tokens2, W))
    BY <1>4, <2>2, TokensKept
  <2>4. KeptAre(T2, first2, last2, kept2, S2)
    BY <1>9, <1>10, <2>1, <2>3 DEF Parts
  <2> QED BY <2>4 DEF KeptAre
<1>13. /\ DOMAIN kept1 = DOMAIN kept2
       /\ \A q \in DOMAIN kept1 : this[kept1[q]] = other[kept2[q]]
  <2>1. PICK picked1, picked2 : /\ picked1 = [q \in DOMAIN kept1 |-> this[kept1[q]]]
                                /\ picked2 = [q \in DOMAIN kept2 |-> other[kept2[q]]]
    OBVIOUS
  <2>2. picked1 = picked2
    BY <1>8, <1>9, <2>1 DEF Pick
  <2>3. DOMAIN kept1 = DOMAIN kept2
    BY <2>1, <2>2
  <2>4. ASSUME NEW q \in DOMAIN kept1
        PROVE  this[kept1[q]] = other[kept2[q]]
    <3>1. picked1[q] = this[kept1[q]] /\ picked2[q] = other[kept2[q]]
      BY <2>1, <2>3
    <3> QED BY <2>2, <3>1
  <2> QED BY <2>3, <2>4
<1>14. PICK Q : Q = DOMAIN kept1
  OBVIOUS
<1>15. Q \subseteq Nat
  BY <1>11, <1>14
<1>16. ASSUME NEW q \in Q
       PROVE  /\ kept1[q] \in 1..T1 /\ kept2[q] \in 1..T2
              /\ first1[kept1[q]] \in Nat /\ last1[kept1[q]] \in Nat
              /\ first2[kept2[q]] \in Nat /\ last2[kept2[q]] \in Nat
              /\ 1 <= first1[kept1[q]] /\ last1[kept1[q]] <= Len(old)
              /\ first1[kept1[q]] <= last1[kept1[q]] /\ first2[kept2[q]] <= last2[kept2[q]]
  BY <1>3, <1>4, <1>11, <1>12, <1>13, <1>14 DEF TokensAre
<1>17. ASSUME NEW q \in Q
       PROVE  last1[kept1[q]] - first1[kept1[q]] = last2[kept2[q]] - first2[kept2[q]]
  <2>1. PICK n1, n2 : /\ n1 = last1[kept1[q]] - first1[kept1[q]] + 1
                      /\ n2 = last2[kept2[q]] - first2[kept2[q]] + 1
    OBVIOUS
  <2>2. n1 \in Nat /\ n2 \in Nat /\ n1 >= 1 /\ n2 >= 1
    <3>1. PICK f1, l1, f2, l2 : /\ f1 = first1[kept1[q]] /\ l1 = last1[kept1[q]]
                                /\ f2 = first2[kept2[q]] /\ l2 = last2[kept2[q]]
      OBVIOUS
    <3>2. f1 \in Nat /\ l1 \in Nat /\ f2 \in Nat /\ l2 \in Nat /\ f1 <= l1 /\ f2 <= l2
      BY <1>16, <3>1
    <3>3. n1 = l1 - f1 + 1 /\ n2 = l2 - f2 + 1
      BY <2>1, <3>1
    <3> QED BY <3>2, <3>3
  <2>3. DOMAIN this[kept1[q]] = 1..n1 /\ DOMAIN other[kept2[q]] = 1..n2
    BY <1>6, <1>7, <1>16, <2>1
  <2>4. 1..n1 = 1..n2
    BY <1>13, <1>14, <2>3
  <2>5. n1 \in 1..n2 /\ n2 \in 1..n1
    <3>1. n1 \in 1..n1 /\ n2 \in 1..n2
      BY <2>2
    <3> QED BY <2>4, <3>1
  <2>6. n1 = n2
    BY <2>2, <2>5
  <2> QED BY <1>16, <2>1, <2>6
<1>18. PICK x, y, w : /\ x = [q \in Q |-> first1[kept1[q]]]
                      /\ y = [q \in Q |-> first2[kept2[q]]]
                      /\ w = [q \in Q |-> last1[kept1[q]] - first1[kept1[q]]]
  OBVIOUS
<1>19. x \in [Q -> Nat] /\ y \in [Q -> Nat] /\ w \in [Q -> Nat]
  BY <1>16, <1>18
<1>20. ASSUME NEW q \in Q
       PROVE  x[q] + w[q] = last1[kept1[q]] /\ y[q] + w[q] = last2[kept2[q]]
  BY <1>16, <1>17, <1>18
<1>21. \A q, r \in Q : q < r => x[q] + w[q] < x[r] /\ y[q] + w[q] < y[r]
  BY <1>11, <1>12, <1>13, <1>14, <1>18, <1>20
<1>22. \A j \in Nat : j \in S1 <=> \E q \in Q : x[q] <= j /\ j <= x[q] + w[q]
  <2>1. \A j \in Nat : j \in S1 <=> \E q \in Q :
                             first1[kept1[q]] <= j /\ j <= last1[kept1[q]]
    BY <1>11, <1>14
  <2>2. \A q \in Q : x[q] = first1[kept1[q]] /\ x[q] + w[q] = last1[kept1[q]]
    BY <1>18, <1>20
  <2> QED BY <2>1, <2>2
<1>23. \A j \in Nat : j \in S2 <=> \E q \in Q : y[q] <= j /\ j <= y[q] + w[q]
  BY <1>12, <1>13, <1>14, <1>18, <1>20
<1>24. before = Ascending(S1) /\ after = Ascending(S2) /\ i \in S2
  <2>1. /\ S1 = DOMAIN old \ Parts(Tokens(old), way[1])
        /\ S2 = DOMAIN new \ Parts(Tokens(new), way[2])
    BY <1>1, <1>2, <1>10 DEF Parts
  <2> QED BY <1>0, <2>1
<1>25. PICK m \in DOMAIN after, q \in Q, o \in Nat :
          /\ m \in DOMAIN before /\ o <= w[q]
          /\ after[m] = i /\ i = y[q] + o /\ before[m] = x[q] + o
  <2>1. S1 \in SUBSET Nat /\ IsFiniteSet(S1) /\ S2 \in SUBSET Nat /\ IsFiniteSet(S2)
    BY <1>11, <1>12
  <2>2. i \in S2
    BY <1>24
  <2>3. Carried(Ascending(S2), Ascending(S1), Q, x, y, w, i)
    BY <1>15, <1>19, <1>21, <1>22, <1>23, <2>1, <2>2, RunsCarry
  <2> QED BY <1>24, <2>3 DEF Carried
<1>26. before[m] \in 1..Len(old)
  <2>1. x[q] \in Nat /\ w[q] \in Nat /\ 1 <= x[q] /\ x[q] + w[q] <= Len(old)
    BY <1>16, <1>18, <1>19, <1>20
  <2> QED BY <1>1, <1>25, <2>1
<1>27. Plain(old[before[m]]) = Plain(new[i])
  <2>1. o \in 0..(last1[kept1[q]] - first1[kept1[q]])
    BY <1>16, <1>18, <1>25
  <2>2. o \in 0..(last2[kept2[q]] - first2[kept2[q]])
    BY <1>17, <2>1
  <2>3. this[kept1[q]][o + 1] = Plain(old[first1[kept1[q]] + o])
    BY <1>6, <1>16, <2>1
  <2>4. other[kept2[q]][o + 1] = Plain(new[first2[kept2[q]] + o])
    BY <1>7, <1>16, <2>2
  <2>5. this[kept1[q]] = other[kept2[q]]
    BY <1>13, <1>14
  <2>6. before[m] = first1[kept1[q]] + o /\ i = first2[kept2[q]] + o
    BY <1>18, <1>25
  <2> QED BY <2>3, <2>4, <2>5, <2>6
<1>28. Compared(old, new, before, after, i)
  BY <1>25, <1>26, <1>27 DEF Compared
<1> QED BY <1>0, <1>28

\* getDiff marks whatever the old contents do not have, but for the ends of lines: a
\* word is not spelled like any other, and an embed is compared with the one it is
\* taken for.
LEMMA AddedHasNew ==
    ASSUME NEW old \in Seq(Character), NEW new \in Seq(Character), NEW way \in Ways(old, new),
           NEW updated, NEW i \in 1..Len(new), new[i] \notin Chars(old),
           new[i].kind \notin LineEnds,
           \A j \in 1..Len(old) : old[j].from = new[i].from => old[j] = new[i]
    PROVE  i \in Added(old, new, updated, way)
<1>1. DOMAIN new = 1..Len(new)
  BY LenProperties
<1>2. PICK before, after :
         /\ before = Ascending(DOMAIN old \ Parts(Tokens(old), way[1]))
         /\ after = Ascending(DOMAIN new \ Parts(Tokens(new), way[2]))
  OBVIOUS
<1>3. Added(old, new, updated, way) =
         Parts(Tokens(new), way[2])
         \cup {after[n] : n \in {m \in DOMAIN after :
                  \/ Plain(new[after[m]]) = <<"null">> /\ old[before[m]] # new[after[m]]
                  \/ updated /\ IsPane(new, after[m])}}
  BY <1>2 DEF Added, Parts
<1>4. CASE i \in Parts(Tokens(new), way[2])
  BY <1>3, <1>4
<1>5. CASE i \notin Parts(Tokens(new), way[2])
  <2>1. Compared(old, new, before, after, i)
    BY <1>1, <1>2, <1>5, PlainKept
  <2>2. PICK m \in DOMAIN after : /\ after[m] = i /\ before[m] \in 1..Len(old)
                                  /\ Plain(old[before[m]]) = Plain(new[i])
    BY <2>1 DEF Compared
  <2>3. PICK c, d : c = old[before[m]] /\ d = new[i]
    OBVIOUS
  <2>4. c # d
    BY <2>2, <2>3 DEF Chars
  <2>5. Plain(c) = Plain(d) /\ d.kind \notin LineEnds
    BY <2>2, <2>3
  <2>6. CASE d.kind = "word"
    <3>1. Plain(d) = <<"word", d.from>>
      BY <2>5, <2>6 DEF Plain
    <3>2. c.kind \in LineEnds => Plain(c) = <<"newline">>
      <4>1. SUFFICES ASSUME c.kind \in LineEnds PROVE Plain(c) = <<"newline">>
        OBVIOUS
      <4>2. c.kind # "word"
        BY <4>1 DEF LineEnds
      <4> QED BY <4>1, <4>2 DEF Plain
    <3>3. c.kind \notin LineEnds /\ c.kind # "word" => Plain(c) = <<"null">>
      BY DEF Plain
    <3>4. c.kind \notin LineEnds /\ c.kind = "word"
      <4>1. Plain(c) = <<"word", d.from>>
        BY <2>5, <3>1
      <4>2. <<"word", d.from>> # <<"newline">> /\ <<"word", d.from>> # <<"null">>
        OBVIOUS
      <4> QED BY <3>2, <3>3, <4>1, <4>2
    <3>5. Plain(c) = <<"word", c.from>>
      BY <3>4 DEF Plain
    <3>6. c.from = d.from
      <4>1. <<"word", c.from>> = <<"word", d.from>>
        BY <2>5, <3>1, <3>5
      <4> QED BY <4>1
    <3> QED BY <2>2, <2>3, <2>4, <3>6
  <2>7. CASE d.kind # "word"
    <3>1. Plain(d) = <<"null">>
      BY <2>5, <2>7 DEF Plain
    <3>2. Plain(new[after[m]]) = <<"null">> /\ old[before[m]] # new[after[m]]
      BY <2>2, <2>3, <2>4, <3>1
    <3> QED BY <1>3, <2>2, <3>2
  <2> QED BY <2>6, <2>7
<1> QED BY <1>4, <1>5

\* Characters of one document that come from the same place are the same.
LEMMA SameOrigin ==
    ASSUME NEW doc, NEW ops, LogFits(doc, ops), NEW m \in 0..Len(ops), NEW n \in 0..Len(ops),
           NEW x \in Chars(Contents(doc, ops, m)), NEW y \in Chars(Contents(doc, ops, n)),
           x.from = y.from
    PROVE  x = y
<1>1. /\ doc \in Seq(Character) /\ Len(ops) \in Nat /\ Len(doc) \in Nat
      /\ \A i \in 1..Len(doc) : doc[i].from = <<"base", i>>
      /\ \A k \in 1..Len(ops) : Inserting(ops[k]) => ops[k].char.from = <<"revision", k>>
  BY LenProperties DEF LogFits
<1> DEFINE Base(z) == \E i \in 1..Len(doc) : z = doc[i] /\ z.from = <<"base", i>>
           Later(z) == \E k \in 1..Len(ops) : z = ops[k].char /\ z.from = <<"revision", k>>
<1>2. ASSUME NEW k \in 0..Len(ops), NEW z \in Chars(Contents(doc, ops, k))
      PROVE  Base(z) \/ Later(z)
  <2>1. CASE z \in Chars(Contents(doc, ops, 0))
    <3>1. z \in Chars(doc)
      BY <2>1, ContentsStart
    <3>2. PICK i \in 1..Len(doc) : z = doc[i]
      BY <3>1 DEF Chars
    <3> QED BY <1>1, <3>2
  <2>2. CASE z \notin Chars(Contents(doc, ops, 0))
    <3>1. k \in Nat /\ 0 <= k /\ k <= Len(ops) /\ 0 \in Nat
      BY <1>1
    <3>2. PICK l \in (0 + 1)..k : Inserting(ops[l]) /\ z = ops[l].char
      BY <2>2, <3>1, NewIsInserted
    <3>3. l \in 1..Len(ops)
      BY <1>1, <3>1
    <3> QED BY <1>1, <3>2, <3>3
  <2> QED BY <2>1, <2>2
<1>3. Base(x) \/ Later(x)
  BY <1>2
<1>4. Base(y) \/ Later(y)
  BY <1>2
<1>5. ASSUME NEW i, NEW k
      PROVE  /\ <<"base", i>> = <<"base", k>> => i = k
             /\ <<"revision", i>> = <<"revision", k>> => i = k
             /\ <<"base", i>> # <<"revision", k>>
  OBVIOUS
<1> QED BY <1>3, <1>4, <1>5

-----------------------------------------------------------------------------
(***************************************************************************)
(* The mail about updates shows what is new.                               *)
(***************************************************************************)
IsNews(old, new, i) ==
    /\ new[i] \notin Chars(old) /\ ~ InHeader(new, i)
    /\ new[i].kind \notin LineEnds \cup {"broken"}

\* Whether a character is in one of the slices, with its author when that counts.
InSlices(slices, x, counts) ==
    \E n \in DOMAIN slices : /\ x \in slices[n].chars
                             /\ counts => x.by \in slices[n].authors

Named(x) == job.at \in {"members", "render"} \/ x.by \in job.members

UpdateShows ==
    (job.kind = "update" /\ job.at \in AfterSlices) =>
        \A i \in 1..Len(Contents(base, log, job.read)) :
           IsNews(Contents(base, log, job.revision), Contents(base, log, job.read), i) =>
               InSlices(job.slices, Contents(base, log, job.read)[i],
                        Named(Contents(base, log, job.read)[i]))

\* The steps of an update from its slices on.
LEMMA SlicesMove ==
    ASSUME MailTyped, job.kind = "update", Compose
    PROVE  \/ job'.at \notin AfterSlices
           \/ FindSlices
           \/ /\ job.at = "members" /\ job'.at = "render"
              /\ job'.slices = job.slices /\ job'.read = job.read
           \/ /\ job.at = "render" /\ job'.at = "authors"
              /\ job'.slices = [n \in DOMAIN job.slices |-> Converted(job.slices[n])]
              /\ job'.read = job.read /\ job'.members = job.members
           \/ /\ job.at \in {"authors", "send"} /\ job'.at \in {"send", "sent"}
              /\ job'.slices = job.slices
              /\ job'.read = job.read /\ job'.members = job.members
<1>0. /\ DOMAIN job = Fields /\ job.at \in Phases("update")
  BY DEF MailTyped, JobOK
<1>1. CASE FindDocument
  <2>1. job.at = "find" /\ Goto("markUpdates")
    BY <1>1 DEF FindDocument, At
  <2> QED BY <1>0, <2>1, GoneTo DEF AfterSlices
<1>2. CASE MarkUpdates
  BY <1>0, <1>2 DEF MarkUpdates, At, Set, AfterSlices, Fields
<1>4. CASE FindMembers
  BY <1>0, <1>4 DEF FindMembers, At, Set, Goto, Nothing, Throw, AfterSlices, Fields
<1>5. CASE Render
  <2>1. job.at = "render"
    BY <1>5 DEF Render, At
  <2>2. CASE Throw
    <3>1. job'.at = "failed"
      BY <1>0, <2>2, GoneTo DEF Throw
    <3> QED BY <3>1 DEF AfterSlices
  <2>3. PICK converted :
           converted = [n \in DOMAIN job.slices |-> Converted(job.slices[n])]
    OBVIOUS
  <2>4. CASE Set([at |-> "authors", slices |-> converted])
    BY <1>0, <2>1, <2>3, <2>4 DEF Set, Fields
  <2> QED BY <1>5, <2>2, <2>3, <2>4 DEF Render
<1>6. CASE FindRecipients
  BY <1>0, <1>6 DEF FindRecipients, At, Set, Goto, Nothing, AfterSlices, Fields
<1>7. CASE Send
  <2>1. job.at = "send" /\ Goto("sent")
    BY <1>7 DEF Send, At
  <2>2. job'.at = "sent" /\ Same({"at"})
    BY <1>0, <2>1, GoneTo
  <2> QED BY <2>1, <2>2 DEF Same, Fields
<1>8. ~ (FindMention \/ FindPaneMention \/ FindSurrounding \/ FindCell \/ FindMentioned
         \/ FindProfile \/ FindRecipientsOfMention)
  BY <1>0 DEF FindMention, FindPaneMention, FindSurrounding, FindCell, FindMentioned,
              FindProfile, FindRecipientsOfMention, At, Phases
<1> QED BY <1>1, <1>2, <1>4, <1>5, <1>6, <1>7, <1>8 DEF Compose

LEMMA FindSlicesShows ==
    ASSUME MailTyped, job.kind = "update", FindSlices, job'.at \in AfterSlices
    PROVE  UpdateShows'
<1>0. /\ DOMAIN job = Fields /\ LogFits(base, log) /\ job.revision \in 0..Len(log)
      /\ Len(log) \in Nat
  BY LenProperties DEF MailTyped, JobOK, LogFits
<1>1. PICK old, new : /\ old = Contents(base, log, job.revision)
                      /\ new = Contents(base, log, Len(log))
  OBVIOUS
<1>2. Len(log) \in 0..Len(log)
  BY <1>0
<1>3. old \in Seq(Character) /\ new \in Seq(Character)
  BY <1>0, <1>1, <1>2, ContentsTyped
<1>4. PICK way, slices :
         /\ way \in Ways(old, new)
         /\ slices = SlicesOf(new, Added(old, new, job.updated, way))
         /\ IF slices = << >> THEN Nothing
            ELSE Set([at |-> "members", read |-> Len(log), slices |-> slices])
  BY <1>1 DEF FindSlices, ContentsAt
<1>5. base' = base /\ log' = log
  BY DEF FindSlices, editVars
<1>6. CASE slices = << >>
  <2>1. Goto("nothing")
    BY <1>4, <1>6 DEF Nothing
  <2> QED BY <1>0, <2>1, GoneTo DEF AfterSlices
<1>7. CASE slices # << >>
  <2>1. Set([at |-> "members", read |-> Len(log), slices |-> slices])
    BY <1>4, <1>7
  <2>2. /\ job'.read = Len(log) /\ job'.slices = slices /\ job'.revision = job.revision
    BY <1>0, <2>1 DEF Set, Fields
  <2>3. PICK added : added = Added(old, new, job.updated, way)
    OBVIOUS
  <2>4. ASSUME NEW i \in 1..Len(new), IsNews(old, new, i)
        PROVE  InSlices(slices, new[i], TRUE)
    <3>1. new[i] \notin Chars(old) /\ new[i].kind \notin LineEnds /\ ~ InHeader(new, i)
      BY <2>4 DEF IsNews
    <3>2. ASSUME NEW j \in 1..Len(old), old[j].from = new[i].from
          PROVE  old[j] = new[i]
      <4>1. PICK x, y : x = old[j] /\ y = new[i]
        OBVIOUS
      <4>2. x \in Chars(old) /\ y \in Chars(new)
        BY <4>1 DEF Chars
      <4>3. x \in Chars(Contents(base, log, job.revision))
            /\ y \in Chars(Contents(base, log, Len(log)))
        BY <1>1, <4>2
      <4>4. x.from = y.from
        BY <3>2, <4>1
      <4> QED BY <1>0, <1>2, <4>1, <4>3, <4>4, SameOrigin
    <3>3. i \in Added(old, new, job.updated, way)
      BY <1>3, <1>4, <3>1, <3>2, AddedHasNew
    <3>4. \E n \in DOMAIN slices : new[i] \in slices[n].chars /\ new[i].by \in slices[n].authors
      <4>1. i \in added /\ slices = SlicesOf(new, added)
        BY <1>4, <2>3, <3>3
      <4> QED BY <1>3, <3>1, <4>1, SlicesShow
    <3> QED BY <3>4 DEF InSlices
  <2>5. ASSUME NEW i \in 1..Len(new), IsNews(old, new, i), NEW counts
        PROVE  InSlices(slices, new[i], counts)
    BY <2>4, <2>5 DEF InSlices
  <2>6. /\ Contents(base', log', job'.read) = new
        /\ Contents(base', log', job'.revision) = old
    BY <1>1, <1>5, <2>2
  <2> QED BY <2>2, <2>5, <2>6 DEF UpdateShows
<1> QED BY <1>6, <1>7

LEMMA UpdateShowsKept ==
    ASSUME MailTyped, UpdateRead, UpdateShows, [Next]_vars
    PROVE  UpdateShows'
<1>0. /\ Len(log) \in Nat /\ job.revision \in 0..Len(log) /\ DOMAIN job = Fields
  BY LenProperties DEF MailTyped, LogFits, JobOK
<1>1. CASE UNCHANGED mailVars
  <2>1. job' = job /\ base' = base /\ log' = log
    BY <1>1 DEF mailVars
  <2> QED BY <2>1 DEF UpdateShows, Named
<1>2. CASE Edit
  <2>1. /\ job' = job /\ base' = base
        /\ \A n \in 0..Len(log) : Contents(base, log', n) = Contents(base, log, n)
    BY <1>2, EditMoves
  <2>2. SUFFICES ASSUME job.kind = "update", job.at \in AfterSlices
                 PROVE  UpdateShows'
    BY <2>1 DEF UpdateShows
  <2>3. job.read \in 0..Len(log)
    BY <1>0, <2>2 DEF UpdateRead
  <2>4. /\ Contents(base', log', job'.read) = Contents(base, log, job.read)
        /\ Contents(base', log', job'.revision) = Contents(base, log, job.revision)
    BY <1>0, <2>1, <2>3
  <2> QED BY <2>1, <2>2, <2>4 DEF UpdateShows, Named
<1>3. CASE Compose
  <2>1. /\ log' = log /\ base' = base /\ job'.kind = job.kind /\ job'.revision = job.revision
    BY <1>3, ComposeMoves DEF MailTyped, editVars, Same, Fields
  <2>2. SUFFICES ASSUME job.kind = "update", job'.at \in AfterSlices
                 PROVE  UpdateShows'
    BY <2>1 DEF UpdateShows
  <2>3. CASE FindSlices
    BY <2>2, <2>3, FindSlicesShows
  <2>4. SUFFICES ASSUME /\ ~ FindSlices
                        /\ job.at \in AfterSlices /\ job'.read = job.read,
                        NEW x, InSlices(job.slices, x, Named(x)), x.kind # "broken"
                 PROVE  InSlices(job'.slices, x, Named(x)')
    <3>1. ASSUME ~ FindSlices
          PROVE  job.at \in AfterSlices /\ job'.read = job.read
      BY <1>3, <2>2, <3>1, SlicesMove DEF AfterSlices
    <3>2. PICK old, new : /\ old = Contents(base, log, job.revision)
                          /\ new = Contents(base, log, job.read)
      OBVIOUS
    <3>3. ASSUME ~ FindSlices, NEW i \in 1..Len(new), IsNews(old, new, i)
          PROVE  InSlices(job'.slices, new[i], Named(new[i])')
      <4>1. InSlices(job.slices, new[i], Named(new[i]))
        BY <2>2, <3>1, <3>2, <3>3 DEF UpdateShows
      <4>2. new[i].kind # "broken"
        BY <3>3 DEF IsNews
      <4> QED BY <2>4, <3>1, <3>3, <4>1, <4>2
    <3>4. ~ FindSlices => /\ Contents(base', log', job'.read) = new
                          /\ Contents(base', log', job'.revision) = old
      BY <2>1, <3>1, <3>2
    <3> QED BY <2>3, <3>3, <3>4 DEF UpdateShows, Named
  <2>5. PICK n \in DOMAIN job.slices : /\ x \in job.slices[n].chars
                                       /\ Named(x) => x.by \in job.slices[n].authors
    BY <2>4 DEF InSlices
  <2>6. CASE /\ job.at = "members" /\ job'.at = "render"
             /\ job'.slices = job.slices /\ job'.read = job.read
    BY <2>5, <2>6 DEF InSlices, Named
  <2>7. CASE /\ job.at = "render" /\ job'.at = "authors"
             /\ job'.slices = [k \in DOMAIN job.slices |-> Converted(job.slices[k])]
             /\ job'.read = job.read /\ job'.members = job.members
    <3>1. /\ n \in DOMAIN job'.slices
          /\ job'.slices[n].chars = Drawn(job.slices[n].chars)
          /\ job'.slices[n].authors = job.slices[n].authors \cap job.members
      BY <2>5, <2>7 DEF Converted
    <3>2. x \in job'.slices[n].chars
      BY <2>4, <2>5, <3>1 DEF Drawn
    <3>3. Named(x)' => x.by \in job'.slices[n].authors
      BY <2>5, <2>7, <3>1 DEF Named
    <3> QED BY <3>1, <3>2, <3>3 DEF InSlices
  <2>8. CASE /\ job.at \in {"authors", "send"} /\ job'.at \in {"send", "sent"}
             /\ job'.slices = job.slices
             /\ job'.read = job.read /\ job'.members = job.members
    BY <2>5, <2>8 DEF InSlices, Named
  <2> QED BY <1>3, <2>2, <2>4, <2>6, <2>7, <2>8, SlicesMove
<1> QED BY <1>1, <1>2, <1>3 DEF Next, MailNext, vars, mailVars

UpdateInv == RecipientsInv /\ UpdateShows

LEMMA UpdateInitially == Init => UpdateInv
<1> SUFFICES ASSUME Init PROVE UpdateInv
  OBVIOUS
<1>1. PICK s \in MailScenarios : job.at = s.at
  BY DEF Init, MailInit
<1>2. job.at \notin AfterSlices
  BY <1>1, MailScenariosAssumption DEF AfterSlices
<1> QED BY <1>2, RecipientsInitially DEF UpdateInv, UpdateShows

LEMMA UpdateInvKept == UpdateInv /\ [Next]_vars => UpdateInv'
<1> SUFFICES ASSUME UpdateInv, [Next]_vars PROVE UpdateInv'
  OBVIOUS
<1>1. RecipientsInv'
  BY RecipientsKept DEF UpdateInv
<1>2. UpdateShows'
  BY UpdateShowsKept DEF UpdateInv, RecipientsInv
<1> QED BY <1>1, <1>2 DEF UpdateInv

\* The slices of an update have all that is new in the contents they were made of, from
\* the diff until the mail is sent, whatever is committed meanwhile.
THEOREM UpdateInvariant == Spec => []UpdateInv
<1> QED BY UpdateInitially, UpdateInvKept, PTL DEF Spec

LEMMA NewsAreShown == UpdateInv => UpdatesShown
<1> SUFFICES ASSUME UpdateInv, job.kind = "update", mail # NoMail,
                    NEW i \in News(ContentsAt(job.read)),
                    ~ InHeader(ContentsAt(job.read), i),
                    ContentsAt(job.read)[i].kind \notin LineEnds \cup {"broken"}
             PROVE  \E n \in DOMAIN mail.slices :
                       /\ ContentsAt(job.read)[i] \in mail.slices[n].chars
                       /\ ContentsAt(job.read)[i].by \in job.members =>
                             ContentsAt(job.read)[i].by \in mail.slices[n].authors
  BY DEF UpdatesShown
<1>1. /\ job.at = "sent" /\ mail.slices = job.slices
      /\ LogFits(base, log) /\ job.revision \in 0..Len(log) /\ Len(log) \in Nat
  BY LenProperties DEF UpdateInv, RecipientsInv, MailSent, MailTyped, JobOK, LogFits
<1>2. job.read \in 0..Len(log)
  BY <1>1 DEF UpdateInv, RecipientsInv, UpdateRead, AfterSlices
<1>3. PICK old, new : /\ old = Contents(base, log, job.revision)
                      /\ new = Contents(base, log, job.read)
  OBVIOUS
<1>4. old \in Seq(Character) /\ new \in Seq(Character)
  BY <1>1, <1>2, <1>3, ContentsTyped
<1>5. DOMAIN old = 1..Len(old) /\ DOMAIN new = 1..Len(new)
  BY <1>4, LenProperties
<1>6. i \in 1..Len(new) /\ new[i] \notin {old[j] : j \in DOMAIN old}
  BY <1>3, <1>5 DEF News, ContentsAt
<1>7. IsNews(old, new, i)
  <2>1. new[i] \notin Chars(old)
    BY <1>5, <1>6 DEF Chars
  <2> QED BY <1>3, <2>1 DEF IsNews, ContentsAt
<1>8. InSlices(job.slices, new[i], Named(new[i]))
  BY <1>1, <1>3, <1>6, <1>7 DEF UpdateInv, UpdateShows, AfterSlices
<1> QED BY <1>1, <1>3, <1>8 DEF InSlices, Named, ContentsAt

\* The mail about updates shows whatever was inserted since its revision, but for the
\* header, newlines and what cannot be drawn, with the name of who inserted it if that
\* is a member: no shortest diff that getDiff may have found leaves it out, and neither
\* do the pieces, slices and lines that are made of it.
THEOREM UpdatesAreShown == Spec => []UpdatesShown
<1> QED BY UpdateInvariant, NewsAreShown, PTL
=============================================================================
