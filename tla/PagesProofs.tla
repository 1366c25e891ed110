---------------------------- MODULE PagesProofs ----------------------------
(***************************************************************************)
(* Theorems about Pages, for histories and documents of any length: what   *)
(* the sessions of a history say, and how they change while time passes.   *)
(***************************************************************************)
EXTENDS Pages, SequenceTheorems, WellFoundedInduction, TLAPS

-----------------------------------------------------------------------------
(***************************************************************************)
(* Induction.                                                              *)
(***************************************************************************)
Below == {p \in Nat \X Nat : p[1] < p[2]}

LEMMA BelowWellFounded == IsWellFoundedOn(Below, Nat)
<1>1. OpToRel(<, Nat) = Below
  BY DEF OpToRel, Below
<1> QED BY <1>1, NatLessThanWellFounded

LEMMA Smallest ==
    ASSUME NEW T, T \subseteq Nat, T # {}
    PROVE  \E x \in T : \A y \in T : x <= y
<1>1. PICK x \in T : \A y \in T : ~ (<<y, x>> \in Below)
  BY BelowWellFounded, WFMin
<1>2. ASSUME NEW y \in T
      PROVE  x <= y
  <2>1. x \in Nat /\ y \in Nat
    OBVIOUS
  <2>2. y < x => <<y, x>> \in Below
    BY <2>1 DEF Below
  <2> QED BY <1>1, <2>1, <2>2
<1> QED BY <1>2

LEMMA SetInduction ==
    ASSUME NEW T, 0 \in T, \A n \in Nat : n \in T => n + 1 \in T
    PROVE  Nat \subseteq T
<1> SUFFICES ASSUME Nat \ T # {} PROVE FALSE
  OBVIOUS
<1>1. PICK x \in Nat \ T : \A y \in Nat \ T : x <= y
  <2>1. PICK S : S = Nat \ T
    OBVIOUS
  <2>2. S \subseteq Nat /\ S # {}
    BY <2>1
  <2>3. \E x \in S : \A y \in S : x <= y
    BY <2>2, Smallest
  <2> QED BY <2>1, <2>3
<1>2. x # 0 /\ x \in Nat
  OBVIOUS
<1>3. x - 1 \in Nat /\ x - 1 < x
  BY <1>2
<1>4. x - 1 \in T
  BY <1>1, <1>3
<1>5. x - 1 + 1 = x
  BY <1>2
<1> QED BY <1>3, <1>4, <1>5

-----------------------------------------------------------------------------
(***************************************************************************)
(* The groups that the reduce has after n revisions.                       *)
(***************************************************************************)
Revision == [createdAt : Nat, user : Author, revert : BOOLEAN]
SessionRow == [revision : Nat, users : SUBSET Author, createdAt : Nat, revert : BOOLEAN]

HistoryOK ==
    /\ history \in Seq(Revision) /\ now \in 0..MaxTime /\ asked \in 0..now
    /\ DOMAIN metrics \subseteq Ages
    /\ \A age \in DOMAIN metrics : metrics[age] \in Nat

After(before, n, flag) ==
    LET k == Len(before)
    IN  IF n > 1 /\ Joins(before[k], n, flag)
        THEN [before EXCEPT ![k] = [Session(n) EXCEPT !.users = @ \cup before[k].users]]
        ELSE Append(before, Session(n))

Unfolds(f, m, flag) ==
    f = [n \in 0..m |-> IF n = 0 THEN << >> ELSE After(f[n - 1], n, flag)]

LEMMA GroupsExist ==
    ASSUME NEW flag
    PROVE  \A m \in Nat : \E f : Unfolds(f, m, flag)
<1> DEFINE T == {m \in Nat : \E f : Unfolds(f, m, flag)}
<1>1. 0 \in T
  <2>1. PICK f : f = [n \in 0..0 |-> << >>]
    OBVIOUS
  <2>2. Unfolds(f, 0, flag)
    BY <2>1 DEF Unfolds
  <2> QED BY <2>2
<1>2. ASSUME NEW m \in Nat, m \in T
      PROVE  m + 1 \in T
  <2>1. PICK f : Unfolds(f, m, flag)
    BY <1>2
  <2>2. PICK h : h = [n \in 0..(m + 1) |-> IF n = m + 1 THEN After(f[m], m + 1, flag) ELSE f[n]]
    OBVIOUS
  <2>3. ASSUME NEW n \in 0..(m + 1)
        PROVE  h[n] = IF n = 0 THEN << >> ELSE After(h[n - 1], n, flag)
    <3>1. CASE n = 0
      <4>1. 0 \in 0..m /\ 0 # m + 1
        OBVIOUS
      <4> QED BY <2>1, <2>2, <3>1, <4>1 DEF Unfolds
    <3>2. CASE n \in 1..m
      <4>1. /\ n \in 0..m /\ n # m + 1 /\ n # 0
            /\ n - 1 \in 0..(m + 1) /\ n - 1 # m + 1
        BY <3>2
      <4>2. h[n] = f[n] /\ h[n - 1] = f[n - 1]
        BY <2>2, <4>1
      <4>3. f[n] = After(f[n - 1], n, flag)
        BY <2>1, <4>1 DEF Unfolds
      <4> QED BY <4>1, <4>2, <4>3
    <3>3. CASE n = m + 1
      <4>1. n # 0 /\ n - 1 = m /\ m \in 0..(m + 1) /\ m # m + 1
        BY <3>3
      <4>2. h[n] = After(f[m], m + 1, flag) /\ h[m] = f[m]
        BY <2>2, <3>3, <4>1
      <4> QED BY <3>3, <4>1, <4>2
    <3> QED BY <3>1, <3>2, <3>3
  <2>4. Unfolds(h, m + 1, flag)
    BY <2>2, <2>3 DEF Unfolds
  <2> QED BY <2>4
<1>3. Nat \subseteq T
  <2> HIDE DEF T
  <2> QED BY <1>1, <1>2, SetInduction
<1> QED BY <1>3

LEMMA GroupedUnfolds ==
    ASSUME HistoryOK, NEW flag
    PROVE  \E f : /\ f[0] = << >>
                  /\ \A n \in Nat : n + 1 <= Len(history) => f[n + 1] = After(f[n], n + 1, flag)
                  /\ Grouped(flag) = f[Len(history)]
<1>1. Len(history) \in Nat
  BY LenProperties DEF HistoryOK
<1>2. PICK f : f = CHOOSE g : Unfolds(g, Len(history), flag)
  OBVIOUS
<1>3. Unfolds(f, Len(history), flag)
  <2>1. \E g : Unfolds(g, Len(history), flag)
    BY <1>1, GroupsExist
  <2> QED BY <1>2, <2>1
<1>4. Grouped(flag) = f[Len(history)]
  BY <1>2 DEF Grouped, Unfolds, After
<1>5. f[0] = << >>
  <2>1. 0 \in 0..Len(history)
    BY <1>1
  <2> QED BY <1>3, <2>1 DEF Unfolds
<1>6. ASSUME NEW n \in Nat, n + 1 <= Len(history)
      PROVE  f[n + 1] = After(f[n], n + 1, flag)
  <2>1. n + 1 \in 0..Len(history) /\ n + 1 # 0 /\ n + 1 - 1 = n
    BY <1>1, <1>6
  <2> QED BY <1>3, <2>1 DEF Unfolds
<1> QED BY <1>4, <1>5, <1>6

-----------------------------------------------------------------------------
(***************************************************************************)
(* What is so of the sessions s of the first m revisions of the history h, *)
(* grouped at some time: in order they end where they say, have the users  *)
(* of the revisions since the last one, and are as long as pauses allow.   *)
(***************************************************************************)
AgeAt(t, time) ==
    CASE Between(t, time - Day, time) -> "pastDay"
      [] Between(t, time - Week, time - Day) -> "pastWeek"
      [] Between(t, LastMonth[time], time - Week) -> "pastMonth"
      [] OTHER -> "greater"

Follows(h, n, time, flag) ==
    /\ ~h[n - 1].revert /\ ~h[n].revert
    /\ h[n - 1].createdAt <= h[n].createdAt
    /\ h[n].createdAt <= h[n - 1].createdAt + flag[AgeAt(h[n].createdAt, time)]

First(s, k) == IF k = 1 THEN 1 ELSE s[k - 1].revision + 1

Tells(h, s, k, m, time, flag) ==
    /\ First(s, k) \in 1..m
    /\ s[k].revision \in First(s, k)..m
    /\ s[k].createdAt = h[s[k].revision].createdAt
    /\ s[k].revert = h[s[k].revision].revert
    /\ s[k].users = {h[n].user : n \in First(s, k)..s[k].revision}
    /\ \A n \in First(s, k)..s[k].revision : n # s[k].revision => Follows(h, n + 1, time, flag)

Ends(s, m) ==
    /\ s \in Seq(SessionRow)
    /\ m = 0 => s = << >>
    /\ m > 0 => Len(s) > 0 /\ s[Len(s)].revision = m

Fits(h, s, m, time, flag) ==
    /\ Ends(s, m)
    /\ \A k \in 1..Len(s) : Tells(h, s, k, m, time, flag)
    /\ \A k \in 1..Len(s) : k < Len(s) => ~ Follows(h, s[k].revision + 1, time, flag)

LEMMA HistoryTyped ==
    ASSUME NEW h \in Seq(Revision), NEW n \in 1..Len(h)
    PROVE  h[n].createdAt \in Nat /\ h[n].user \in Author /\ h[n].revert \in BOOLEAN
<1>1. h[n] \in Revision
  BY LenProperties, ElementOfSeq
<1> QED BY <1>1 DEF Revision

LEMMA SessionTyped ==
    ASSUME HistoryOK, NEW n \in 1..Len(history)
    PROVE  /\ Session(n) \in SessionRow
           /\ Session(n).revision = n
           /\ Session(n).users = {history[n].user}
           /\ Session(n).createdAt = history[n].createdAt
           /\ Session(n).revert = history[n].revert
<1>1. n \in Nat
  BY LenProperties DEF HistoryOK
<1>2. history[n].createdAt \in Nat /\ history[n].user \in Author /\ history[n].revert \in BOOLEAN
  BY HistoryTyped DEF HistoryOK
<1> QED BY <1>1, <1>2 DEF Session, SessionRow

\* A session keeps telling what it told when later ones change.
LEMMA TellsStays ==
    ASSUME NEW h, NEW s, NEW e, NEW m \in Nat, NEW k \in Nat, NEW time, NEW flag,
           e[k] = s[k], k # 1 => e[k - 1] = s[k - 1],
           Tells(h, s, k, m, time, flag)
    PROVE  Tells(h, e, k, m + 1, time, flag)
<1>1. First(e, k) = First(s, k)
  BY DEF First
<1>2. First(s, k) \in 1..m /\ s[k].revision \in First(s, k)..m
  BY DEF Tells
<1>3. First(s, k) \in 1..(m + 1) /\ s[k].revision \in First(s, k)..(m + 1)
  BY <1>2
<1> QED BY <1>1, <1>3 DEF Tells

LEMMA JoinsIsFollows ==
    ASSUME HistoryOK, NEW n \in 1..Len(history), n > 1, NEW row, NEW flag,
           row.revert = history[n - 1].revert, row.createdAt = history[n - 1].createdAt
    PROVE  Joins(row, n, flag) <=> Follows(history, n, now, flag)
<1>1. Age(history[n].createdAt) = AgeAt(history[n].createdAt, now)
  BY DEF Age, AgeAt
<1> QED BY <1>1 DEF Joins, Follows

LEMMA NothingFits ==
    ASSUME NEW h, NEW time, NEW flag
    PROVE  Fits(h, << >>, 0, time, flag)
<1>1. PICK s : s = << >>
  OBVIOUS
<1>2. s \in Seq(SessionRow) /\ Len(s) = 0
  BY <1>1, EmptySeq
<1>3. 1..Len(s) = {}
  BY <1>2
<1>4. Ends(s, 0)
  BY <1>1, <1>2 DEF Ends
<1>5. Fits(h, s, 0, time, flag)
  BY <1>3, <1>4 DEF Fits
<1> QED BY <1>1, <1>5

\* A revision that begins a session.
LEMMA BeginFits ==
    ASSUME HistoryOK, NEW flag, NEW s, NEW m \in Nat, m + 1 <= Len(history),
           Fits(history, s, m, now, flag), m > 0 => ~ Follows(history, m + 1, now, flag)
    PROVE  Fits(history, Append(s, Session(m + 1)), m + 1, now, flag)
<1>1. PICK e : e = Append(s, Session(m + 1))
  OBVIOUS
<1>2. m + 1 \in 1..Len(history)
  BY LenProperties DEF HistoryOK
<1>3. /\ s \in Seq(SessionRow) /\ Len(s) \in Nat
      /\ m = 0 => Len(s) = 0
      /\ m > 0 => Len(s) > 0 /\ s[Len(s)].revision = m
  BY LenProperties, EmptySeq DEF Fits, Ends
<1>4. /\ e \in Seq(SessionRow)
      /\ Len(e) = Len(s) + 1
      /\ \A k \in 1..Len(s) : e[k] = s[k]
      /\ e[Len(s) + 1] = Session(m + 1)
  BY <1>1, <1>2, <1>3, SessionTyped, AppendProperties
<1>5. Ends(e, m + 1)
  BY <1>2, <1>3, <1>4, SessionTyped DEF Ends
<1>6. ASSUME NEW k \in 1..Len(e)
      PROVE  Tells(history, e, k, m + 1, now, flag)
  <2>1. CASE k <= Len(s)
    <3>1. k \in 1..Len(s) /\ (k # 1 => k - 1 \in 1..Len(s))
      BY <1>3, <1>4, <2>1
    <3>2. Tells(history, s, k, m, now, flag)
      BY <3>1 DEF Fits
    <3>3. e[k] = s[k] /\ (k # 1 => e[k - 1] = s[k - 1])
      BY <1>4, <3>1
    <3>4. k \in Nat
      OBVIOUS
    <3> QED BY <3>2, <3>3, <3>4, TellsStays
  <2>2. CASE k = Len(s) + 1
    <3>1. First(e, k) = m + 1
      <4>1. CASE m = 0
        BY <1>3, <2>2, <4>1 DEF First
      <4>2. CASE m > 0
        <5>1. k # 1 /\ k - 1 = Len(s) /\ Len(s) \in 1..Len(s)
          BY <1>3, <2>2, <4>2
        <5>2. e[k - 1] = s[Len(s)]
          BY <1>4, <5>1
        <5> QED BY <1>3, <4>2, <5>1, <5>2 DEF First
      <4> QED BY <4>1, <4>2
    <3>2. e[k] = Session(m + 1)
      BY <1>4, <2>2
    <3>3. (m + 1)..(m + 1) = {m + 1}
      OBVIOUS
    <3>4. e[k].users = {history[n].user : n \in {m + 1}}
      BY <1>2, <3>2, SessionTyped
    <3>5. m + 1 \in 1..(m + 1) /\ m + 1 \in (m + 1)..(m + 1)
      OBVIOUS
    <3> QED BY <1>2, <3>1, <3>2, <3>3, <3>4, <3>5, SessionTyped DEF Tells
  <2> QED BY <1>3, <1>4, <2>1, <2>2
<1>7. ASSUME NEW k \in 1..Len(e), k < Len(e)
      PROVE  ~ Follows(history, e[k].revision + 1, now, flag)
  <2>1. k \in 1..Len(s) /\ e[k] = s[k]
    BY <1>3, <1>4, <1>7
  <2>2. CASE k < Len(s)
    BY <2>1, <2>2 DEF Fits
  <2>3. CASE k = Len(s)
    BY <1>3, <2>1, <2>3
  <2> QED BY <1>3, <2>1, <2>2, <2>3
<1>8. Fits(history, e, m + 1, now, flag)
  BY <1>5, <1>6, <1>7 DEF Fits
<1> QED BY <1>1, <1>8

\* A revision that extends the last session.
LEMMA ExtendFits ==
    ASSUME HistoryOK, NEW flag, NEW s, NEW m \in Nat, m > 0, m + 1 <= Len(history),
           Fits(history, s, m, now, flag), Follows(history, m + 1, now, flag)
    PROVE  Fits(history,
                [s EXCEPT ![Len(s)] =
                    [Session(m + 1) EXCEPT !.users = @ \cup s[Len(s)].users]],
                m + 1, now, flag)
<1>1. PICK row : row = [Session(m + 1) EXCEPT !.users = @ \cup s[Len(s)].users]
  OBVIOUS
<1>2. PICK e : e = [s EXCEPT ![Len(s)] = row]
  OBVIOUS
<1>3. m + 1 \in 1..Len(history)
  BY LenProperties DEF HistoryOK
<1>4. /\ s \in Seq(SessionRow) /\ Len(s) \in Nat
      /\ Len(s) > 0 /\ s[Len(s)].revision = m
  BY LenProperties DEF Fits, Ends
<1>5. Len(s) \in 1..Len(s) /\ s[Len(s)] \in SessionRow
  BY <1>4, ElementOfSeq
<1>6. /\ row.revision = m + 1
      /\ row.createdAt = history[m + 1].createdAt
      /\ row.revert = history[m + 1].revert
      /\ row.users = {history[m + 1].user} \cup s[Len(s)].users
      /\ row \in SessionRow
  <2>1. PICK S : S = Session(m + 1)
    OBVIOUS
  <2>2. S \in SessionRow /\ s[Len(s)].users \subseteq Author
    BY <1>3, <1>5, <2>1, SessionTyped DEF SessionRow
  <2>3. row = [S EXCEPT !.users = S.users \cup s[Len(s)].users]
    BY <1>1, <2>1
  <2>4. /\ row.revision = S.revision /\ row.createdAt = S.createdAt /\ row.revert = S.revert
        /\ row.users = S.users \cup s[Len(s)].users /\ row \in SessionRow
    BY <2>2, <2>3 DEF SessionRow
  <2> QED BY <1>3, <2>1, <2>4, SessionTyped
<1>7. /\ e \in Seq(SessionRow)
      /\ Len(e) = Len(s)
      /\ \A k \in 1..Len(s) : k # Len(s) => e[k] = s[k]
      /\ e[Len(s)] = row
  BY <1>2, <1>4, <1>5, <1>6, ExceptSeq
<1>8. Ends(e, m + 1)
  BY <1>4, <1>6, <1>7 DEF Ends
<1>9. Tells(history, s, Len(s), m, now, flag)
  BY <1>5 DEF Fits
<1>10. ASSUME NEW k \in 1..Len(e)
       PROVE  Tells(history, e, k, m + 1, now, flag)
  <2>0. k \in Nat /\ (k # 1 => e[k - 1] = s[k - 1])
    <3>1. k # 1 => k - 1 \in 1..Len(s) /\ k - 1 # Len(s)
      BY <1>4, <1>7
    <3> QED BY <1>7, <3>1
  <2>1. CASE k # Len(s)
    <3>1. Tells(history, s, k, m, now, flag) /\ e[k] = s[k]
      BY <1>7, <2>1 DEF Fits
    <3> QED BY <2>0, <3>1, TellsStays
  <2>2. CASE k = Len(s)
    <3>1. First(e, k) = First(s, k)
      BY <2>0 DEF First
    <3>2. PICK a : a = First(s, k)
      OBVIOUS
    <3>3. /\ a \in 1..m
          /\ s[k].users = {history[n].user : n \in a..m}
          /\ \A n \in a..m : n # m => Follows(history, n + 1, now, flag)
      BY <1>4, <1>9, <2>2, <3>2 DEF Tells
    <3>4. a \in 1..(m + 1) /\ m + 1 \in a..(m + 1)
      BY <3>3
    <3>5. a..(m + 1) = (a..m) \cup {m + 1}
      BY <3>3
    <3>6. row.users = {history[n].user : n \in a..(m + 1)}
      BY <1>6, <2>2, <3>3, <3>5
    <3>7. ASSUME NEW n \in a..(m + 1), n # m + 1
          PROVE  Follows(history, n + 1, now, flag)
      BY <3>3, <3>7
    <3> QED BY <1>6, <1>7, <2>2, <3>1, <3>2, <3>4, <3>6, <3>7 DEF Tells
  <2> QED BY <2>1, <2>2
<1>11. ASSUME NEW k \in 1..Len(e), k < Len(e)
       PROVE  ~ Follows(history, e[k].revision + 1, now, flag)
  BY <1>4, <1>7, <1>11 DEF Fits
<1>12. Fits(history, e, m + 1, now, flag)
  BY <1>8, <1>10, <1>11 DEF Fits
<1> QED BY <1>1, <1>2, <1>12

LEMMA AfterFits ==
    ASSUME HistoryOK, NEW flag, NEW s, NEW m \in Nat, m + 1 <= Len(history),
           Fits(history, s, m, now, flag)
    PROVE  Fits(history, After(s, m + 1, flag), m + 1, now, flag)
<1>1. m + 1 > 1 <=> m > 0
  OBVIOUS
<1>2. CASE m = 0
  BY <1>1, <1>2, BeginFits DEF After
<1>3. CASE m > 0
  <2>1. m + 1 \in 1..Len(history) /\ m + 1 > 1 /\ m + 1 - 1 = m
    BY <1>3, LenProperties DEF HistoryOK
  <2>2. Len(s) > 0 /\ Len(s) \in Nat /\ s[Len(s)].revision = m
    BY <1>3, LenProperties DEF Fits, Ends
  <2>3. Tells(history, s, Len(s), m, now, flag)
    BY <2>2 DEF Fits
  <2>4. s[Len(s)].revert = history[m].revert /\ s[Len(s)].createdAt = history[m].createdAt
    BY <2>2, <2>3 DEF Tells
  <2>5. Joins(s[Len(s)], m + 1, flag) <=> Follows(history, m + 1, now, flag)
    <3>1. PICK n : n = m + 1
      OBVIOUS
    <3>2. n \in 1..Len(history) /\ n > 1 /\ n - 1 = m
      BY <2>1, <3>1
    <3>3. Joins(s[Len(s)], n, flag) <=> Follows(history, n, now, flag)
      BY <2>4, <3>2, JoinsIsFollows
    <3> QED BY <3>1, <3>3
  <2>6. CASE Follows(history, m + 1, now, flag)
    BY <1>3, <2>1, <2>5, <2>6, ExtendFits DEF After
  <2>7. CASE ~ Follows(history, m + 1, now, flag)
    BY <1>3, <2>1, <2>5, <2>7, BeginFits DEF After
  <2> QED BY <2>6, <2>7
<1> QED BY <1>2, <1>3

\* What is answered tells the whole history.
LEMMA GroupedFits ==
    ASSUME HistoryOK, NEW flag
    PROVE  Fits(history, Grouped(flag), Len(history), now, flag)
<1>1. PICK f : /\ f[0] = << >>
               /\ \A n \in Nat : n + 1 <= Len(history) => f[n + 1] = After(f[n], n + 1, flag)
               /\ Grouped(flag) = f[Len(history)]
  BY GroupedUnfolds
<1> DEFINE T == {n \in Nat : n <= Len(history) => Fits(history, f[n], n, now, flag)}
<1>2. 0 \in T
  <2>1. Fits(history, << >>, 0, now, flag)
    BY NothingFits
  <2> QED BY <1>1, <2>1
<1>3. ASSUME NEW n \in Nat, n \in T
      PROVE  n + 1 \in T
  <2>1. Len(history) \in Nat
    BY LenProperties DEF HistoryOK
  <2>2. SUFFICES ASSUME n + 1 <= Len(history)
                 PROVE  Fits(history, f[n + 1], n + 1, now, flag)
    OBVIOUS
  <2>3. Fits(history, f[n], n, now, flag)
    BY <1>3, <2>1, <2>2
  <2>4. f[n + 1] = After(f[n], n + 1, flag)
    BY <1>1, <2>2
  <2> QED BY <2>2, <2>3, <2>4, AfterFits
<1>4. Nat \subseteq T
  <2> HIDE DEF T
  <2> QED BY <1>2, <1>3, SetInduction
<1>5. Len(history) \in Nat
  BY LenProperties DEF HistoryOK
<1> QED BY <1>1, <1>4, <1>5

-----------------------------------------------------------------------------
(***************************************************************************)
(* The invariant: the last answer tells the revisions there were then, as  *)
(* they were grouped at that time.                                         *)
(***************************************************************************)
Kept == \E m \in 0..Len(history) : Fits(history, sessions, m, asked, metrics)

HistoryInv == HistoryOK /\ Kept

\* Sessions only depend on the revisions they tell.
LEMMA FitsStays ==
    ASSUME NEW h \in Seq(Revision), NEW r \in Revision, NEW s, NEW m \in 0..Len(h), NEW time, NEW flag,
           Fits(h, s, m, time, flag)
    PROVE  Fits(Append(h, r), s, m, time, flag)
<1>1. PICK g : g = Append(h, r)
  OBVIOUS
<1>2. m \in Nat /\ Len(s) \in Nat /\ (\A n \in 1..m : g[n] = h[n])
  BY <1>1, AppendProperties, LenProperties DEF Fits, Ends
<1>3. \A n \in 1..m : n > 1 => (Follows(g, n, time, flag) <=> Follows(h, n, time, flag))
  <2>1. ASSUME NEW n \in 1..m, n > 1
        PROVE  g[n] = h[n] /\ g[n - 1] = h[n - 1]
    <3>1. n - 1 \in 1..m
      BY <1>2, <2>1
    <3> QED BY <1>2, <3>1
  <2> QED BY <2>1 DEF Follows
<1>4. ASSUME NEW k \in 1..Len(s)
      PROVE  Tells(g, s, k, m, time, flag)
  <2>1. Tells(h, s, k, m, time, flag)
    BY <1>4 DEF Fits
  <2>2. PICK a, b : a = First(s, k) /\ b = s[k].revision
    OBVIOUS
  <2>3. a \in 1..m /\ b \in a..m
    BY <2>1, <2>2 DEF Tells
  <2>4. \A n \in a..b : g[n] = h[n]
    BY <1>2, <2>3
  <2>5. {g[n].user : n \in a..b} = {h[n].user : n \in a..b}
    BY <2>4
  <2>6. ASSUME NEW n \in a..b, n # b
        PROVE  Follows(g, n + 1, time, flag)
    <3>1. n + 1 \in 1..m /\ n + 1 > 1
      BY <2>3, <2>6
    <3>2. Follows(h, n + 1, time, flag)
      BY <2>1, <2>2, <2>6 DEF Tells
    <3> QED BY <1>3, <3>1, <3>2
  <2>7. b \in a..b
    BY <2>3
  <2>8. g[b] = h[b]
    BY <2>4, <2>7
  <2> QED BY <2>1, <2>2, <2>3, <2>5, <2>6, <2>8 DEF Tells
<1>5. ASSUME NEW k \in 1..Len(s), k < Len(s)
      PROVE  ~ Follows(g, s[k].revision + 1, time, flag)
  <2>1. k + 1 \in 1..Len(s) /\ k + 1 # 1 /\ k + 1 - 1 = k
    BY <1>2, <1>5
  <2>2. PICK i : i = k + 1
    OBVIOUS
  <2>3. Tells(h, s, k, m, time, flag) /\ Tells(h, s, i, m, time, flag)
    BY <2>1, <2>2 DEF Fits
  <2>4. First(s, i) = s[k].revision + 1
    BY <2>1, <2>2 DEF First
  <2>5. s[k].revision + 1 \in 1..m
    BY <2>3, <2>4 DEF Tells
  <2>6. s[k].revision + 1 > 1
    <3>1. s[k].revision \in First(s, k)..m /\ First(s, k) \in 1..m
      BY <2>3 DEF Tells
    <3> QED BY <1>2, <3>1
  <2>7. ~ Follows(h, s[k].revision + 1, time, flag)
    BY <1>5 DEF Fits
  <2> QED BY <1>3, <2>5, <2>6, <2>7
<1>6. Fits(g, s, m, time, flag)
  BY <1>4, <1>5 DEF Fits
<1> QED BY <1>1, <1>6

LEMMA NoPauses == DOMAIN << >> = {}
<1>1. \A s : s = << >> => DOMAIN s = 1..0
  BY EmptySeq
<1> QED BY <1>1

LEMMA HistoryInitially == Init => HistoryInv
<1> SUFFICES ASSUME Init PROVE HistoryInv
  OBVIOUS
<1>1. history = << >> /\ now = 0 /\ sessions = << >> /\ asked = 0 /\ metrics = << >>
  BY DEF Init, HistoryInit, NotReady
<1>2. HistoryOK
  <2>1. DOMAIN metrics = {}
    BY <1>1, NoPauses
  <2>2. 0 \in 0..MaxTime /\ 0 \in 0..0
    BY AgesAssumption DEF AgesAssumption
  <2> QED BY <1>1, <2>1, <2>2, EmptySeq DEF HistoryOK
<1>3. Kept
  <2>1. Fits(history, << >>, 0, asked, metrics)
    BY NothingFits
  <2>2. 0 \in 0..Len(history)
    BY <1>1, EmptySeq
  <2> QED BY <1>1, <2>1, <2>2 DEF Kept
<1> QED BY <1>2, <1>3 DEF HistoryInv

LEMMA HistoryKept == HistoryInv /\ [Next]_vars => HistoryInv'
<1> SUFFICES ASSUME HistoryInv, [Next]_vars PROVE HistoryInv'
  OBVIOUS
<1>1. PICK m \in 0..Len(history) : Fits(history, sessions, m, asked, metrics)
  BY DEF HistoryInv, Kept
<1>2. /\ history \in Seq(Revision) /\ Len(history) \in Nat
      /\ now \in 0..MaxTime /\ asked \in 0..now /\ MaxTime \in Nat
  BY LenProperties, AgesAssumption DEF AgesAssumption, HistoryInv, HistoryOK
<1>3. CASE UNCHANGED historyVars
  BY <1>3 DEF HistoryInv, HistoryOK, Kept, historyVars
<1>4. CASE Revise
  <2>1. PICK user \in Author, revert \in BOOLEAN, t \in now..(now + Skew) :
           history' = Append(history, [createdAt |-> t, user |-> user, revert |-> revert])
    BY <1>4 DEF Revise
  <2>2. PICK r : r = [createdAt |-> t, user |-> user, revert |-> revert]
    OBVIOUS
  <2>3. t \in Nat
    BY <1>2, AgesAssumption DEF AgesAssumption
  <2>4. r \in Revision
    BY <2>2, <2>3 DEF Revision
  <2>5. /\ history' = Append(history, r) /\ history' \in Seq(Revision)
        /\ Len(history') = Len(history) + 1
    BY <1>2, <2>1, <2>2, <2>4, AppendProperties
  <2>6. now' = now /\ sessions' = sessions /\ asked' = asked /\ metrics' = metrics
    BY <1>4 DEF Revise
  <2>7. Fits(history', sessions', m, asked', metrics')
    BY <1>1, <1>2, <2>4, <2>5, <2>6, FitsStays
  <2>8. m \in 0..Len(history')
    BY <1>2, <2>5
  <2> QED BY <1>2, <2>5, <2>6, <2>7, <2>8 DEF HistoryInv, HistoryOK, Kept
<1>5. CASE Tick
  <2>1. now < MaxTime /\ now' = now + 1 /\ UNCHANGED <<history, sessions, asked, metrics>>
    BY <1>5 DEF Tick
  <2>2. now' \in 0..MaxTime /\ asked' \in 0..now'
    BY <1>2, <2>1
  <2> QED BY <1>1, <2>1, <2>2 DEF HistoryInv, HistoryOK, Kept
<1>6. ASSUME NEW flag \in Flags \cup {NotReady},
             sessions' = Grouped(flag), asked' = now, metrics' = flag,
             UNCHANGED <<history, now>>
      PROVE  HistoryInv'
  <2>1. Fits(history', sessions', Len(history'), asked', metrics')
    BY <1>6, GroupedFits DEF HistoryInv
  <2>2. Len(history') \in 0..Len(history') /\ asked' \in 0..now'
    BY <1>2, <1>6
  <2>3. DOMAIN flag \subseteq Ages /\ \A age \in DOMAIN flag : flag[age] \in Nat
    <3>1. CASE flag \in Flags
      BY <3>1, FlagsAssumption DEF FlagsAssumption
    <3>2. CASE flag = NotReady
      BY <3>2, NoPauses DEF NotReady
    <3> QED BY <3>1, <3>2
  <2> QED BY <1>2, <1>6, <2>1, <2>2, <2>3 DEF HistoryInv, HistoryOK, Kept
<1>7. CASE GetDocumentRevisions
  BY <1>3, <1>6, <1>7 DEF GetDocumentRevisions
<1> QED BY <1>3, <1>4, <1>5, <1>7 DEF Next, HistoryNext, vars, historyVars

\* Whatever people ask and when, the last history that they were told is that of
\* the revisions there were then.
THEOREM HistoryInvariant == Spec => []HistoryInv
<1> QED BY HistoryInitially, HistoryKept, PTL DEF Spec

-----------------------------------------------------------------------------
LEMMA KeptCovers == HistoryInv => SessionsCover
<1> SUFFICES ASSUME HistoryInv, NEW k \in DOMAIN sessions
             PROVE  /\ Members(k) # {}
                    /\ sessions[k].users = {history[n].user : n \in Members(k)}
                    /\ \A n \in Members(k) : history[n].revert => Members(k) = {n}
  BY DEF SessionsCover
<1>1. PICK m \in 0..Len(history) : Fits(history, sessions, m, asked, metrics)
  BY DEF HistoryInv, Kept
<1>2. DOMAIN sessions = 1..Len(sessions)
  BY <1>1, LenProperties DEF Fits, Ends
<1>3. Tells(history, sessions, k, m, asked, metrics)
  BY <1>1, <1>2 DEF Fits
<1>4. PICK a, b : a = First(sessions, k) /\ b = sessions[k].revision
  OBVIOUS
<1>5. Members(k) = a..b
  BY <1>4 DEF Members, First
<1>6. a \in 1..m /\ b \in a..m
  BY <1>3, <1>4 DEF Tells
<1>7. ASSUME NEW n \in a..b, history[n].revert
      PROVE  a..b = {n}
  <2>1. n # b => ~ history[n].revert
    <3>1. SUFFICES ASSUME n # b PROVE ~ history[n].revert
      OBVIOUS
    <3>2. Follows(history, n + 1, asked, metrics)
      BY <1>3, <1>4, <3>1 DEF Tells
    <3>3. n + 1 - 1 = n
      BY <1>6
    <3> QED BY <3>2, <3>3 DEF Follows
  <2>2. n # a => ~ history[n].revert
    <3>1. SUFFICES ASSUME n # a PROVE ~ history[n].revert
      OBVIOUS
    <3>2. PICK i : i = n - 1
      OBVIOUS
    <3>3. i \in a..b /\ i # b /\ i + 1 = n
      BY <1>6, <3>1, <3>2
    <3>4. Follows(history, n, asked, metrics)
      BY <1>3, <1>4, <3>3 DEF Tells
    <3> QED BY <3>4 DEF Follows
  <2>3. n = a /\ n = b
    BY <1>7, <2>1, <2>2
  <2> QED BY <1>6, <2>3
<1>8. a..b # {}
  BY <1>6
<1>9. sessions[k].users = {history[n].user : n \in a..b}
  BY <1>3, <1>4 DEF Tells
<1> QED BY <1>5, <1>7, <1>8, <1>9

\* The sessions that GetDocumentRevisions answers tell the history, whatever its
\* length: no revision is missing or told twice, the users of a session are the
\* authors of its revisions, and a revert is a session of its own.
THEOREM SessionsTellHistory == Spec => []SessionsCover
<1> QED BY HistoryInvariant, KeptCovers, PTL

-----------------------------------------------------------------------------
\* The older a revision, the longer the pause before it may be.
LEMMA PauseGrows ==
    ASSUME NEW flag, InOrder(flag), \A age \in DOMAIN flag : flag[age] \in Nat,
           NEW b \in 0..MaxTime, NEW a \in 0..b, NEW t \in Nat, t <= a,
           ~ Between(t, LastMonth[b], LastMonth[a])
    PROVE  /\ flag[AgeAt(t, a)] \in Nat /\ flag[AgeAt(t, b)] \in Nat
           /\ flag[AgeAt(t, a)] <= flag[AgeAt(t, b)]
<1>1. Day \in Nat /\ Week \in Nat /\ MaxTime \in Nat /\ Day <= Week
  BY AgesAssumption DEF AgesAssumption
<1>2. a \in 0..MaxTime /\ a \in Int /\ b \in Int /\ a <= b
  BY <1>1
<1>3. /\ LastMonth[a] \in Int /\ LastMonth[b] \in Int
      /\ LastMonth[a] <= a - Week /\ LastMonth[b] <= b - Week
  BY <1>2, AgesAssumption DEF AgesAssumption
<1>4. /\ flag["pastDay"] \in Nat /\ flag["pastWeek"] \in Nat
      /\ flag["pastMonth"] \in Nat /\ flag["greater"] \in Nat
      /\ flag["pastDay"] <= flag["pastWeek"] /\ flag["pastWeek"] <= flag["pastMonth"]
      /\ flag["pastMonth"] <= flag["greater"]
  BY DEF InOrder, Ages
<1>5. ASSUME NEW c \in Int, t <= c, LastMonth[c] \in Int, LastMonth[c] <= c - Week
      PROVE  AgeAt(t, c) = IF c - Day < t THEN "pastDay"
                           ELSE IF c - Week < t THEN "pastWeek"
                           ELSE IF LastMonth[c] < t THEN "pastMonth"
                           ELSE "greater"
  <2>1. Between(t, c - Day, c) <=> c - Day < t
    BY <1>1, <1>5 DEF Between
  <2>2. Between(t, c - Week, c - Day) <=> c - Week < t /\ ~ (c - Day < t)
    BY <1>1, <1>5 DEF Between
  <2>3. Between(t, LastMonth[c], c - Week) <=> LastMonth[c] < t /\ ~ (c - Week < t)
    BY <1>1, <1>5 DEF Between
  <2>4. c - Day < t => c - Week < t
    BY <1>1, <1>5
  <2> QED BY <2>1, <2>2, <2>3, <2>4 DEF AgeAt
<1>6. t <= b
  BY <1>2
<1>7. (b - Day < t => a - Day < t) /\ (b - Week < t => a - Week < t)
  BY <1>1, <1>2
<1>8. LastMonth[b] < t => LastMonth[a] < t
  BY <1>3 DEF Between
<1> QED BY <1>2, <1>3, <1>4, <1>5, <1>6, <1>7, <1>8

LEMMA MergesKept == HistoryInv /\ [Next]_vars =>
    [\A k \in DOMAIN sessions, n \in DOMAIN history :
        (/\ {n, n + 1} \subseteq Members(k)
         /\ metrics' = metrics /\ InOrder(metrics)
         /\ history[n + 1].createdAt <= asked
         /\ ~ Between(history[n + 1].createdAt, LastMonth[asked'], LastMonth[asked])) =>
            \A j \in DOMAIN sessions' : sessions'[j].revision # n]_historyVars
<1> SUFFICES ASSUME HistoryInv, [Next]_vars, ~ UNCHANGED historyVars,
                    NEW k \in DOMAIN sessions, NEW n \in DOMAIN history,
                    {n, n + 1} \subseteq Members(k),
                    metrics' = metrics, InOrder(metrics),
                    history[n + 1].createdAt <= asked,
                    ~ Between(history[n + 1].createdAt, LastMonth[asked'], LastMonth[asked]),
                    NEW j \in DOMAIN sessions', sessions'[j].revision = n
             PROVE  FALSE
  OBVIOUS
<1>1. PICK m \in 0..Len(history) : Fits(history, sessions, m, asked, metrics)
  BY DEF HistoryInv, Kept
<1>2. /\ history \in Seq(Revision) /\ Len(history) \in Nat
      /\ now \in 0..MaxTime /\ asked \in 0..now /\ MaxTime \in Nat
      /\ \A age \in DOMAIN metrics : metrics[age] \in Nat
  BY LenProperties, AgesAssumption DEF AgesAssumption, HistoryInv, HistoryOK
<1>3. DOMAIN sessions = 1..Len(sessions) /\ Len(sessions) \in Nat
  BY <1>1, LenProperties DEF Fits, Ends
<1>4. Tells(history, sessions, k, m, asked, metrics)
  BY <1>1, <1>3 DEF Fits
<1>5. PICK a, b : a = First(sessions, k) /\ b = sessions[k].revision
  OBVIOUS
<1>6. Members(k) = a..b
  BY <1>5 DEF Members, First
<1>7. a \in 1..m /\ b \in a..m
  BY <1>4, <1>5 DEF Tells
<1>8. n \in a..b /\ n # b /\ n < m /\ n + 1 \in 1..Len(history)
  <2>1. n \in a..b /\ n + 1 \in a..b
    BY <1>6
  <2> QED BY <1>2, <1>7, <2>1
<1>9. Follows(history, n + 1, asked, metrics)
  BY <1>4, <1>5, <1>8 DEF Tells
<1>10. CASE Revise \/ Tick
  <2>1. sessions' = sessions
    BY <1>10 DEF Revise, Tick
  <2>2. j \in 1..Len(sessions) /\ sessions[j].revision = n
    BY <1>3, <2>1
  <2>3. CASE j < Len(sessions)
    BY <1>1, <1>9, <2>2, <2>3 DEF Fits
  <2>4. CASE j = Len(sessions)
    <3>1. m > 0 /\ Ends(sessions, m)
      BY <1>1, <1>7 DEF Fits
    <3>2. sessions[j].revision = m
      BY <2>4, <3>1 DEF Ends
    <3> QED BY <1>8, <2>2, <3>2
  <2> QED BY <1>3, <2>2, <2>3, <2>4
<1>11. CASE GetDocumentRevisions
  <2>1. PICK flag : sessions' = Grouped(flag) /\ asked' = now /\ metrics' = flag
    BY <1>11 DEF GetDocumentRevisions
  <2>2. PICK g : g = Grouped(flag)
    OBVIOUS
  <2>3. Fits(history, g, Len(history), now, metrics)
    BY <2>1, <2>2, GroupedFits DEF HistoryInv
  <2>4. DOMAIN g = 1..Len(g) /\ Len(g) \in Nat
    BY <2>3, LenProperties DEF Fits, Ends
  <2>5. j \in 1..Len(g) /\ g[j].revision = n
    BY <2>1, <2>2, <2>4
  <2>6. CASE j = Len(g)
    <3>1. Len(history) > 0 /\ Ends(g, Len(history))
      BY <1>2, <1>8, <2>3 DEF Fits
    <3>2. g[j].revision = Len(history)
      BY <2>6, <3>1 DEF Ends
    <3> QED BY <1>2, <1>8, <2>5, <3>2
  <2>7. CASE j < Len(g)
    <3>1. ~ Follows(history, n + 1, now, metrics)
      BY <2>3, <2>5, <2>7 DEF Fits
    <3>2. n \in 1..Len(history) /\ n + 1 - 1 = n
      BY <1>2, <1>8
    <3>3. history[n + 1].createdAt \in Nat /\ history[n].createdAt \in Nat
      BY <1>2, <1>8, <3>2, HistoryTyped
    <3>4. PICK t, u : t = history[n + 1].createdAt /\ u = history[n].createdAt
      OBVIOUS
    <3>5. /\ metrics[AgeAt(t, asked)] \in Nat /\ metrics[AgeAt(t, now)] \in Nat
          /\ metrics[AgeAt(t, asked)] <= metrics[AgeAt(t, now)]
      <4>1. t \in Nat /\ t <= asked /\ ~ Between(t, LastMonth[now], LastMonth[asked])
        BY <2>1, <3>3, <3>4
      <4> QED BY <1>2, <4>1, PauseGrows
    <3>6. t <= u + metrics[AgeAt(t, asked)]
      BY <1>9, <3>2, <3>4 DEF Follows
    <3>7. t <= u + metrics[AgeAt(t, now)]
      BY <3>3, <3>4, <3>5, <3>6
    <3> QED BY <1>9, <3>1, <3>2, <3>4, <3>7 DEF Follows
  <2> QED BY <2>4, <2>5, <2>6, <2>7
<1> QED BY <1>10, <1>11 DEF Next, HistoryNext, vars, historyVars

\* Between two answers of GetDocumentRevisions by the same pauses, longer ones for
\* older revisions, no session is split, however old its revisions get, except before
\* a revision that seemed to be still to come when it was joined, and one that was
\* older than a month then and is not now, by the calendar.
THEOREM SessionsMerge == Spec => SessionsOnlyMerge
<1> QED BY HistoryInvariant, MergesKept, PTL DEF Spec, SessionsOnlyMerge
=============================================================================
