---------------------------- MODULE AgentTurnProofs ----------------------------
(***************************************************************************)
(* Theorems about AgentTurn, for any budgets and number of steps: its      *)
(* types, and that the file restores to the context in memory.             *)
(*                                                                         *)
(* What a file restores to is a recursive function of its lines.  A fact   *)
(* about every file is proved by its least counterexample: Induction, and  *)
(* SeqInduction for sequences.  The jobs of the two tasks are plans, each  *)
(* message followed by its write (JobOK, GrowOK), so the file with the     *)
(* writes that are due, Whole, restores to the context (Consistent).       *)
(***************************************************************************)
EXTENDS AgentTurn, SequenceTheorems, FiniteSetTheorems, NaturalsInduction, WellFoundedInduction, TLAPS

-----------------------------------------------------------------------------
(* Induction on the numbers, for a set: a number outside it would have a   *)
(* least one, and that one a predecessor.                                  *)

LEMMA Induction ==
  ASSUME NEW S, 0 \in S, \A n \in Nat : n \in S => n + 1 \in S PROVE Nat \subseteq S
<1> DEFINE Out == {n \in Nat : n \notin S}
<1> DEFINE R == OpToRel(<, Nat)
<1>1. SUFFICES ASSUME Out # {} PROVE FALSE
  OBVIOUS
<1>2. IsWellFoundedOn(R, Nat)
  BY NatLessThanWellFounded
<1>3. Out \subseteq Nat
  OBVIOUS
<1> HIDE DEF Out, R
<1>4. PICK x \in Out : \A y \in Out : ~ (<<y, x>> \in R)
  BY <1>1, <1>2, <1>3, WFMin
<1>5. x # 0 /\ x \in Nat
  BY DEF Out
<1>6. x - 1 \in Out
  BY <1>5 DEF Out
<1>7. <<x - 1, x>> \in R
  BY <1>5, <1>6 DEF R, OpToRel
<1> QED
  BY <1>4, <1>6, <1>7

-----------------------------------------------------------------------------
(* What a file restores to, line by line.                                  *)

\* g is the function Restored reads the lines with.
Reads(g, f) == g = [n \in 0 .. Len(f) |-> IF n = 0 THEN Empty ELSE Apply(g[n - 1], f[n])]

LEMMA ReadsTo ==
  ASSUME NEW f, Len(f) \in Nat
  PROVE  \E g : Reads(g, f)
<1> DEFINE upto(k, g) == g = [n \in 0 .. k |-> IF n = 0 THEN Empty ELSE Apply(g[n - 1], f[n])]
<1> DEFINE S == {k \in Nat : \E g : upto(k, g)}
<1>1. 0 \in S
  <2>1. upto(0, [n \in 0 .. 0 |-> Empty])
    OBVIOUS
  <2> QED
    BY <2>1
<1>2. ASSUME NEW k \in Nat, k \in S PROVE k + 1 \in S
  <2>1. PICK g : upto(k, g)
    BY <1>2
  <2> DEFINE h == [n \in 0 .. k + 1 |-> IF n <= k THEN g[n] ELSE Apply(g[k], f[n])]
  <2>2. ASSUME NEW n \in 0 .. k + 1 PROVE h[n] = IF n = 0 THEN Empty ELSE Apply(h[n - 1], f[n])
    <3>1. CASE n = 0
      BY <2>1, <3>1
    <3>2. CASE n # 0 /\ n <= k
      <4>1. g[n] = Apply(g[n - 1], f[n])
        BY <2>1, <3>2
      <4>2. h[n] = g[n] /\ h[n - 1] = g[n - 1]
        BY <3>2
      <4> HIDE DEF h
      <4> QED
        BY <3>2, <4>1, <4>2
    <3>3. CASE n = k + 1
      <4>1. h[n] = Apply(g[k], f[n]) /\ h[n - 1] = g[k]
        BY <3>3
      <4> HIDE DEF h
      <4> QED
        BY <3>3, <4>1
    <3> QED
      BY <3>1, <3>2, <3>3
  <2>3. h = [n \in 0 .. k + 1 |-> h[n]]
    OBVIOUS
  <2> HIDE DEF h
  <2>4. upto(k + 1, h)
    BY <2>2, <2>3
  <2> QED
    BY <2>4
<1> HIDE DEF S
<1>3. Nat \subseteq S
  BY <1>1, <1>2, Induction
<1> QED
  BY <1>3 DEF S, Reads

\* Two files that begin alike are read alike.
LEMMA ReadsAlike ==
  ASSUME NEW f, NEW e, NEW g, NEW h, Reads(g, f), Reads(h, e), Len(f) \in Nat, Len(e) \in Nat,
         NEW k \in Nat, k <= Len(f), k <= Len(e), \A i \in 1 .. k : f[i] = e[i]
  PROVE  g[k] = h[k]
<1> DEFINE S == {n \in Nat : n <= k => g[n] = h[n]}
<1>1. 0 \in S
  BY DEF Reads
<1>2. ASSUME NEW n \in Nat, n \in S PROVE n + 1 \in S
  <2> SUFFICES ASSUME n + 1 <= k PROVE g[n + 1] = h[n + 1]
    OBVIOUS
  <2>1. g[n] = h[n]
    BY <1>2
  <2>2. n + 1 \in 0 .. Len(f) /\ n + 1 \in 0 .. Len(e) /\ n + 1 # 0 /\ (n + 1) - 1 = n /\ n + 1 \in 1 .. k
    OBVIOUS
  <2>3. g[n + 1] = Apply(g[n], f[n + 1])
    BY <2>2 DEF Reads
  <2>4. h[n + 1] = Apply(h[n], e[n + 1])
    BY <2>2 DEF Reads
  <2> QED
    BY <2>1, <2>2, <2>3, <2>4
<1> HIDE DEF S
<1>3. Nat \subseteq S
  BY <1>1, <1>2, Induction
<1> QED
  BY <1>3 DEF S

\* Restored is the last value of any function that reads the lines.
LEMMA RestoredReads ==
  ASSUME NEW f, Len(f) \in Nat, NEW g, Reads(g, f)
  PROVE  Restored(f) = g[Len(f)]
<1> DEFINE read == CHOOSE r : Reads(r, f)
<1>1. Reads(read, f)
  BY ReadsTo
<1>2. Restored(f) = read[Len(f)]
  BY DEF Restored, Reads
<1> HIDE DEF read
<1> QED
  BY <1>1, <1>2, ReadsAlike

LEMMA SeqInduction ==
  ASSUME NEW T, NEW S, <<>> \in S, \A s \in Seq(T), x \in T : s \in S => Append(s, x) \in S
  PROVE  Seq(T) \subseteq S
<1> DEFINE N == {n \in Nat : \A s \in Seq(T) : Len(s) = n => s \in S}
<1>1. 0 \in N
  OBVIOUS
<1>2. ASSUME NEW n \in Nat, n \in N PROVE n + 1 \in N
  <2> SUFFICES ASSUME NEW s \in Seq(T), Len(s) = n + 1 PROVE s \in S
    OBVIOUS
  <2>1. SubSeq(s, 1, n) \in Seq(T) /\ Len(SubSeq(s, 1, n)) = n /\ s[n + 1] \in T
    OBVIOUS
  <2>2. s = Append(SubSeq(s, 1, n), s[n + 1])
    OBVIOUS
  <2> QED
    BY <1>2, <2>1, <2>2
<1> HIDE DEF N
<1>3. Nat \subseteq N
  BY <1>1, <1>2, Induction
<1> QED
  BY <1>3 DEF N

LEMMA RestoredEmpty == Restored(<<>>) = Empty
<1>1. PICK g : Reads(g, <<>>)
  BY ReadsTo
<1> QED
  BY <1>1, RestoredReads DEF Reads

LEMMA RestoredAppend ==
  ASSUME NEW T, NEW f \in Seq(T), NEW l \in T
  PROVE  Restored(Append(f, l)) = Apply(Restored(f), l)
<1> DEFINE e == Append(f, l)
<1>0. Len(e) = Len(f) + 1 /\ Len(f) \in Nat /\ e[Len(f) + 1] = l /\ \A i \in 1 .. Len(f) : f[i] = e[i]
  OBVIOUS
<1> HIDE DEF e
<1>1. PICK g : Reads(g, f)
  BY <1>0, ReadsTo
<1>2. PICK h : Reads(h, e)
  BY <1>0, ReadsTo
<1>3. g[Len(f)] = h[Len(f)]
  BY <1>0, <1>1, <1>2, ReadsAlike
<1>4. h[Len(e)] = Apply(h[Len(f)], e[Len(e)])
  BY <1>0, <1>2 DEF Reads
<1>5. Restored(f) = g[Len(f)] /\ Restored(e) = h[Len(e)]
  BY <1>0, <1>1, <1>2, RestoredReads
<1> QED
  BY <1>0, <1>3, <1>4, <1>5 DEF e

Contexts == [hist : Seq(Messages), next : Nat, pend : Nat]

LEMMA SameContext ==
  ASSUME NEW c \in Contexts, NEW d \in Contexts, c.hist = d.hist, c.next = d.next, c.pend = d.pend
  PROVE  c = d
BY DEF Contexts

LEMMA EmptyContext == Empty \in Contexts /\ Empty.hist = <<>> /\ Empty.next = 0 /\ Empty.pend = 0
<1>1. <<>> \in Seq(Messages)
  BY EmptySeq
<1> QED
  BY <1>1 DEF Empty, Contexts

LEMMA SaidIs ==
  ASSUME NEW c \in Contexts, NEW ms \in Seq(Messages)
  PROVE  /\ Said(c, ms) \in Contexts /\ Said(c, ms).hist = c.hist \o ms
         /\ Said(c, ms).next = c.next /\ Said(c, ms).pend = c.pend + Len(ms)
<1>1. c.hist \o ms \in Seq(Messages) /\ c.pend + Len(ms) \in Nat
  BY DEF Contexts
<1> QED
  BY <1>1 DEF Contexts, Said

LEMMA ApplyMark ==
  ASSUME NEW c \in Contexts, NEW id \in Nat
  PROVE  Apply(c, Line(id)) \in Contexts /\ Apply(c, Line(id)) = [c EXCEPT !.next = id + 1]
BY DEF Contexts, Apply, Line

LEMMA ApplyUsage ==
  ASSUME NEW c \in Contexts
  PROVE  Apply(c, Usage) \in Contexts /\ Apply(c, Usage) = [c EXCEPT !.pend = 0]
BY DEF Contexts, Apply, Usage

LEMMA ApplyMessage ==
  ASSUME NEW c \in Contexts, NEW m \in Messages
  PROVE  /\ Apply(c, m) \in Contexts /\ Apply(c, m).hist = Append(c.hist, m)
         /\ Apply(c, m).next = c.next /\ Apply(c, m).pend = c.pend + 1
<1>1. Append(c.hist, m) \in Seq(Messages) /\ c.pend + 1 \in Nat
  BY DEF Contexts
<1>2. m[1] # "usage" /\ m[1] # "checkpoint"
  BY DEF Messages, Kinds
<1> QED
  BY <1>1, <1>2 DEF Contexts, Apply

\* A line is a message, a checkpoint or a token count.
LEMMA LineKinds ==
  ASSUME NEW l \in Lines
  PROVE  l \in Messages \/ (l[1] = "checkpoint" /\ l[2] \in Nat /\ l = Line(l[2])) \/ l[1] = "usage"
BY DEF Lines, Messages, Line

LEMMA ApplyType ==
  ASSUME NEW c \in Contexts, NEW l \in Lines PROVE Apply(c, l) \in Contexts
<1>1. CASE l[1] = "usage"
  BY <1>1 DEF Apply, Contexts
<1> QED
  BY <1>1, LineKinds, ApplyMark, ApplyMessage

LEMMA RestoredType == ASSUME NEW f \in Seq(Lines) PROVE Restored(f) \in Contexts
<1> DEFINE S == {s \in Seq(Lines) : Restored(s) \in Contexts}
<1>1. <<>> \in S
  BY RestoredEmpty, EmptyContext, EmptySeq
<1>2. ASSUME NEW s \in Seq(Lines), NEW x \in Lines, s \in S PROVE Append(s, x) \in S
  BY <1>2, RestoredAppend, ApplyType
<1> HIDE DEF S
<1>3. Seq(Lines) \subseteq S
  BY <1>1, <1>2, SeqInduction
<1> QED
  BY <1>3 DEF S

LEMMA MessagesAreLines == Messages \subseteq Lines /\ Seq(Messages) \subseteq Seq(Lines)
<1>1. Messages \subseteq Lines
  BY DEF Messages, Lines
<1>2. ASSUME NEW s \in Seq(Messages) PROVE s \in Seq(Lines)
  BY <1>1
<1> QED
  BY <1>1, <1>2

LEMMA SaidNothing == ASSUME NEW c \in Contexts PROVE Said(c, <<>>) = c
<1>1. <<>> \in Seq(Messages) /\ c.hist \in Seq(Messages) /\ c.pend \in Nat
  BY EmptySeq DEF Contexts
<1>2. c.hist \o <<>> = c.hist /\ c.pend + Len(<<>>) = c.pend
  BY <1>1
<1> QED
  BY <1>1, <1>2, SaidIs, SameContext

LEMMA SaidOneMore ==
  ASSUME NEW c \in Contexts, NEW s \in Seq(Messages), NEW x \in Messages
  PROVE  Apply(Said(c, s), x) = Said(c, Append(s, x))
<1>1. Append(s, x) \in Seq(Messages) /\ Len(Append(s, x)) = Len(s) + 1 /\ Len(s) \in Nat
  OBVIOUS
<1>2. c.hist \in Seq(Messages) /\ c.pend \in Nat
  BY DEF Contexts
<1>3. Append(c.hist \o s, x) = c.hist \o Append(s, x)
  <2>1. \A h \in Seq(Messages) : Append(h \o s, x) = h \o Append(s, x)
    OBVIOUS
  <2> QED
    BY <1>2, <2>1
<1>4. (c.pend + Len(s)) + 1 = c.pend + Len(Append(s, x))
  BY <1>1, <1>2
<1>5. /\ Said(c, s) \in Contexts /\ Said(c, s).hist = c.hist \o s
      /\ Said(c, s).next = c.next /\ Said(c, s).pend = c.pend + Len(s)
  BY SaidIs
<1>6. /\ Said(c, Append(s, x)) \in Contexts /\ Said(c, Append(s, x)).hist = c.hist \o Append(s, x)
      /\ Said(c, Append(s, x)).next = c.next /\ Said(c, Append(s, x)).pend = c.pend + Len(Append(s, x))
  BY <1>1, SaidIs
<1>7. /\ Apply(Said(c, s), x) \in Contexts /\ Apply(Said(c, s), x).hist = Append(c.hist \o s, x)
      /\ Apply(Said(c, s), x).next = c.next /\ Apply(Said(c, s), x).pend = (c.pend + Len(s)) + 1
  BY <1>5, ApplyMessage
<1> QED
  BY <1>3, <1>4, <1>6, <1>7, SameContext

\* Appended messages are read back as messages said.
LEMMA RestoredSaid ==
  ASSUME NEW f \in Seq(Lines), NEW ms \in Seq(Messages)
  PROVE  Restored(f \o ms) = Said(Restored(f), ms)
<1> DEFINE S == {s \in Seq(Messages) : Restored(f \o s) = Said(Restored(f), s)}
<1>1. <<>> \in S
  <2>1. f \o <<>> = f /\ <<>> \in Seq(Messages)
    OBVIOUS
  <2> QED
    BY <2>1, RestoredType, SaidNothing
<1>2. ASSUME NEW s \in Seq(Messages), NEW x \in Messages, s \in S PROVE Append(s, x) \in S
  <2>1. f \o Append(s, x) = Append(f \o s, x) /\ f \o s \in Seq(Lines) /\ x \in Lines
    BY MessagesAreLines
  <2>2. Restored(Append(f \o s, x)) = Apply(Said(Restored(f), s), x)
    BY <1>2, <2>1, RestoredAppend
  <2>3. Restored(f \o Append(s, x)) = Said(Restored(f), Append(s, x))
    BY <2>1, <2>2, RestoredType, SaidOneMore
  <2> QED
    BY <2>3
<1> HIDE DEF S
<1>3. Seq(Messages) \subseteq S
  BY <1>1, <1>2, SeqInduction
<1> QED
  BY <1>3 DEF S

-----------------------------------------------------------------------------
(* The checkpoints of a file, and the lines a revert keeps.                *)

MarkAt(f, id, i) == i \in 1 .. Len(f) /\ f[i] = Line(id)

LEMMA MarksAre ==
  ASSUME NEW f \in Seq(Lines)
  PROVE  Marks(f) \subseteq Nat /\ \A id : id \in Marks(f) <=> \E i : MarkAt(f, id, i)
<1>1. \A i \in 1 .. Len(f) : f[i] \in Lines
  OBVIOUS
<1>2. ASSUME NEW id \in Marks(f) PROVE id \in Nat /\ \E i : MarkAt(f, id, i)
  <2>1. PICK i \in 1 .. Len(f) : f[i][1] = "checkpoint" /\ f[i][2] = id
    BY <1>2 DEF Marks, ToSet
  <2>2. f[i] \in Lines /\ f[i] \notin Messages
    BY <1>1, <2>1 DEF Messages, Kinds
  <2>3. id \in Nat /\ f[i] = Line(id)
    BY <2>1, <2>2, LineKinds
  <2> QED
    BY <2>3 DEF MarkAt
<1>3. ASSUME NEW id, NEW i, MarkAt(f, id, i) PROVE id \in Marks(f)
  <2>1. f[i] \in ToSet(f) /\ f[i] = Line(id)
    BY <1>3 DEF MarkAt, ToSet
  <2>2. f[i][1] = "checkpoint" /\ f[i][2] = id
    BY <2>1 DEF Line
  <2> QED
    BY <2>1, <2>2 DEF Marks
<1> QED
  BY <1>2, <1>3

\* A nonempty set of numbers has a least one.
LEMMA LeastNumber ==
  ASSUME NEW S, S \subseteq Nat, S # {}
  PROVE  Min(S) \in S /\ \A y \in S : Min(S) <= y
<1> DEFINE R == OpToRel(<, Nat)
<1>1. IsWellFoundedOn(R, Nat)
  BY NatLessThanWellFounded
<1> HIDE DEF R
<1>2. PICK x \in S : \A y \in S : ~ (<<y, x>> \in R)
  BY <1>1, WFMin
<1>3. ASSUME NEW y \in S PROVE x <= y
  <2>1. ~ (y < x)
    BY <1>2 DEF R, OpToRel
  <2> QED
    BY <2>1
<1>4. \E z \in S : \A y \in S : z <= y
  BY <1>3
<1> QED
  BY <1>4 DEF Min

\* A revert to a checkpoint without a line keeps all, otherwise what is before the line.
LEMMA KeptAll ==
  ASSUME NEW f \in Seq(Lines), NEW id, id \notin Marks(f) PROVE Kept(f, id) = f
<1>1. Places(f, LAMBDA l : l = Line(id)) = {}
  BY MarksAre DEF Places, MarkAt
<1> QED
  BY <1>1 DEF Kept

LEMMA KeptBefore ==
  ASSUME NEW f \in Seq(Lines), NEW id, NEW p, MarkAt(f, id, p), \A i \in 1 .. p - 1 : ~MarkAt(f, id, i)
  PROVE  Kept(f, id) = SubSeq(f, 1, p - 1)
<1> DEFINE S == {i \in DOMAIN f : f[i] = Line(id)}
<1>1. p \in S /\ S \subseteq Nat /\ \A y \in S : p <= y
  BY DEF MarkAt
<1>2. Kept(f, id) = IF S = {} THEN f ELSE SubSeq(f, 1, Min(S) - 1)
  BY DEF Kept, Places
<1> HIDE DEF S
<1>3. Min(S) \in S /\ Min(S) <= p
  BY <1>1, LeastNumber
<1>4. Min(S) = p
  <2>1. \A q \in Nat : q <= p /\ p <= q => q = p
    BY <1>1
  <2> QED
    BY <1>1, <1>3, <2>1
<1> QED
  BY <1>1, <1>2, <1>4

LEMMA FirstMark ==
  ASSUME NEW f \in Seq(Lines), NEW id \in Marks(f)
  PROVE  \E p : MarkAt(f, id, p) /\ \A i \in 1 .. p - 1 : ~MarkAt(f, id, i)
<1> DEFINE S == {i \in 1 .. Len(f) : MarkAt(f, id, i)}
<1>1. S # {} /\ S \subseteq Nat
  BY MarksAre DEF MarkAt
<1>2. PICK p \in S : \A y \in S : p <= y
  BY <1>1, LeastNumber
<1>3. ASSUME NEW i \in 1 .. p - 1, MarkAt(f, id, i) PROVE FALSE
  BY <1>2, <1>3 DEF MarkAt
<1> QED
  BY <1>2, <1>3

\* The kept lines are the file, or its beginning.
LEMMA KeptIs ==
  ASSUME NEW f \in Seq(Lines), NEW id
  PROVE  \/ id \notin Marks(f) /\ Kept(f, id) = f
         \/ \E p \in 1 .. Len(f) : /\ MarkAt(f, id, p) /\ \A i \in 1 .. p - 1 : ~MarkAt(f, id, i)
                                   /\ Kept(f, id) = SubSeq(f, 1, p - 1)
BY KeptAll, KeptBefore, FirstMark DEF MarkAt

LEMMA KeptType == ASSUME NEW f \in Seq(Lines), NEW id PROVE Kept(f, id) \in Seq(Lines)
<1>1. \A p \in 1 .. Len(f) : SubSeq(f, 1, p - 1) \in Seq(Lines)
  OBVIOUS
<1> QED
  BY <1>1, KeptIs

LEMMA MarksAppended ==
  ASSUME NEW f \in Seq(Lines), NEW ms \in Seq(Lines)
  PROVE  Marks(f \o ms) = Marks(f) \cup Marks(ms)
<1>1. f \o ms \in Seq(Lines) /\ Len(f \o ms) = Len(f) + Len(ms)
  OBVIOUS
<1>2. \A i \in 1 .. Len(f) : i \in 1 .. Len(f) + Len(ms) /\ (f \o ms)[i] = f[i]
  OBVIOUS
<1>3. \A i \in 1 .. Len(ms) : Len(f) + i \in 1 .. Len(f) + Len(ms) /\ (f \o ms)[Len(f) + i] = ms[i]
  OBVIOUS
<1>4. \A i \in 1 .. Len(f) + Len(ms) : i \in 1 .. Len(f) \/ (i - Len(f) \in 1 .. Len(ms) /\ (f \o ms)[i] = ms[i - Len(f)])
  OBVIOUS
<1>5. ASSUME NEW id PROVE (\E i : MarkAt(f \o ms, id, i)) <=> (\E i : MarkAt(f, id, i)) \/ (\E i : MarkAt(ms, id, i))
  <2> DEFINE e == f \o ms
  <2>0. Len(f) \in Nat /\ Len(ms) \in Nat
    OBVIOUS
  <2>1. ASSUME NEW i, MarkAt(f, id, i) PROVE MarkAt(e, id, i)
    BY <1>1, <1>2, <2>1 DEF MarkAt
  <2>2. ASSUME NEW i, MarkAt(ms, id, i) PROVE MarkAt(e, id, Len(f) + i)
    BY <1>1, <1>3, <2>2 DEF MarkAt
  <2>3. ASSUME NEW i, MarkAt(e, id, i) PROVE MarkAt(f, id, i) \/ MarkAt(ms, id, i - Len(f))
    <3>1. i \in 1 .. Len(f) + Len(ms) /\ e[i] = Line(id)
      BY <1>1, <2>3 DEF MarkAt
    <3>2. CASE i \in 1 .. Len(f)
      BY <1>2, <3>1, <3>2 DEF MarkAt
    <3>3. CASE i - Len(f) \in 1 .. Len(ms) /\ e[i] = ms[i - Len(f)]
      BY <3>1, <3>3 DEF MarkAt
    <3> HIDE DEF e
    <3> QED
      BY <1>4, <3>1, <3>2, <3>3 DEF e
  <2> HIDE DEF e
  <2> QED
    BY <2>1, <2>2, <2>3 DEF e
<1> QED
  BY <1>1, <1>5, MarksAre

LEMMA MarksOfMessages == ASSUME NEW ms \in Seq(Messages) PROVE Marks(ms) = {}
<1>1. \A i \in 1 .. Len(ms) : ms[i] \in Messages
  OBVIOUS
<1>2. \A id : Line(id) \notin Messages
  BY DEF Messages, Kinds, Line
<1>3. \A id, i : ~MarkAt(ms, id, i)
  BY <1>1, <1>2 DEF MarkAt
<1>4. ms \in Seq(Lines)
  BY MessagesAreLines
<1> QED
  BY <1>3, <1>4, MarksAre

LEMMA MarksOfUsage == Marks(<<Usage>>) = {} /\ <<Usage>> \in Seq(Lines)
<1>1. Usage \in Lines /\ <<Usage>> \in Seq(Lines)
  <2>1. Usage \in Lines
    BY DEF Usage, Lines
  <2> QED
    BY <2>1
<1>2. \A id : Usage # Line(id)
  BY DEF Usage, Line
<1>3. \A id, i : ~MarkAt(<<Usage>>, id, i)
  BY <1>2 DEF MarkAt
<1> QED
  BY <1>1, <1>3, MarksAre

LEMMA MarksOfLine == ASSUME NEW id \in Nat PROVE Marks(<<Line(id)>>) = {id} /\ <<Line(id)>> \in Seq(Lines)
<1>1. Line(id) \in Lines
  BY DEF Line, Lines
<1>2. <<Line(id)>> \in Seq(Lines)
  BY <1>1
<1>3. \A k : Line(k) = Line(id) <=> k = id
  BY DEF Line
<1>4. \A k, i : MarkAt(<<Line(id)>>, k, i) <=> i = 1 /\ k = id
  BY <1>3 DEF MarkAt
<1> QED
  BY <1>2, <1>4, MarksAre

\* Appending does not change what is before a checkpoint of the file.
LEMMA KeptAppended ==
  ASSUME NEW f \in Seq(Lines), NEW ms \in Seq(Lines), NEW id \in Marks(f)
  PROVE  Kept(f \o ms, id) = Kept(f, id)
<1>1. PICK p : MarkAt(f, id, p) /\ \A i \in 1 .. p - 1 : ~MarkAt(f, id, i)
  BY FirstMark
<1>2. p \in 1 .. Len(f) /\ f \o ms \in Seq(Lines) /\ Len(f) \in Nat
  BY <1>1 DEF MarkAt
<1>3. \A i \in 1 .. Len(f) : i \in 1 .. Len(f \o ms) /\ (f \o ms)[i] = f[i]
  OBVIOUS
<1>4. MarkAt(f \o ms, id, p) /\ \A i \in 1 .. p - 1 : ~MarkAt(f \o ms, id, i)
  BY <1>1, <1>2, <1>3 DEF MarkAt
<1>5. SubSeq(f \o ms, 1, p - 1) = SubSeq(f, 1, p - 1)
  BY <1>2
<1> QED
  BY <1>1, <1>2, <1>4, <1>5, KeptBefore

LEMMA KeptOfNew ==
  ASSUME NEW f \in Seq(Lines), NEW id \in Nat, id \notin Marks(f)
  PROVE  Kept(f \o <<Line(id)>>, id) = f
<1>0. f \o <<Line(id)>> \in Seq(Lines) /\ Len(f) \in Nat
  <2>1. <<Line(id)>> \in Seq(Lines)
    BY MarksOfLine
  <2> QED
    BY <2>1
<1>1. MarkAt(f \o <<Line(id)>>, id, Len(f) + 1)
  BY <1>0 DEF MarkAt
<1>2. \A i \in 1 .. Len(f) : ~MarkAt(f \o <<Line(id)>>, id, i)
  BY MarksAre DEF MarkAt
<1>3. SubSeq(f \o <<Line(id)>>, 1, Len(f)) = f
  OBVIOUS
<1>4. (Len(f) + 1) - 1 = Len(f)
  BY <1>0
<1> HIDE DEF Line
<1> QED
  BY <1>0, <1>1, <1>2, <1>3, <1>4, KeptBefore

\* The checkpoints a revert keeps stand for what they stood for.
LEMMA KeptTwice ==
  ASSUME NEW f \in Seq(Lines), NEW a, NEW id \in Marks(Kept(f, a))
  PROVE  id \in Marks(f) /\ Kept(Kept(f, a), id) = Kept(f, id)
<1>1. CASE Kept(f, a) = f
  BY <1>1
<1>2. CASE Kept(f, a) # f
  <2>1. PICK p \in 1 .. Len(f) : Kept(f, a) = SubSeq(f, 1, p - 1)
    BY <1>2, KeptIs
  <2> DEFINE e == SubSeq(f, 1, p - 1)
  <2>2. e \in Seq(Lines) /\ Len(e) = p - 1 /\ \A i \in 1 .. p - 1 : e[i] = f[i] /\ i \in 1 .. Len(f)
    OBVIOUS
  <2> HIDE DEF e
  <2>3. PICK q : MarkAt(e, id, q) /\ \A i \in 1 .. q - 1 : ~MarkAt(e, id, i)
    BY <2>1, <2>2, FirstMark DEF e
  <2>4. q \in 1 .. p - 1
    BY <2>2, <2>3 DEF MarkAt
  <2>5. MarkAt(f, id, q) /\ \A i \in 1 .. q - 1 : ~MarkAt(f, id, i)
    BY <2>2, <2>3, <2>4 DEF MarkAt
  <2>6. SubSeq(e, 1, q - 1) = SubSeq(f, 1, q - 1)
    BY <2>4 DEF e
  <2>7. id \in Marks(f)
    BY <2>5, MarksAre
  <2> QED
    BY <2>1, <2>2, <2>3, <2>5, <2>6, <2>7, KeptBefore DEF e
<1> QED
  BY <1>1, <1>2

-----------------------------------------------------------------------------
(* What a compaction preserves.                                            *)

\* A nonempty set of numbers with a bound has a greatest one.
LEMMA GreatestNumber ==
  ASSUME NEW b \in Nat, NEW S, S \subseteq 0 .. b, S # {}
  PROVE  Max(S) \in S /\ \A y \in S : Max(S) >= y
<1> DEFINE D == {b - x : x \in S}
<1>1. D \subseteq Nat /\ D # {}
  <2>1. \A x \in S : b - x \in Nat
    OBVIOUS
  <2>2. PICK x : x \in S
    OBVIOUS
  <2> QED
    BY <2>1, <2>2
<1>2. PICK d \in D : \A e \in D : d <= e
  BY <1>1, LeastNumber
<1>3. PICK x \in S : d = b - x
  BY <1>2
<1>4. ASSUME NEW y \in S PROVE x >= y
  <2>1. d <= b - y
    BY <1>2
  <2>2. x \in Int /\ y \in Int
    BY <1>3
  <2> QED
    BY <1>3, <2>1, <2>2
<1>5. \E z \in S : \A y \in S : z >= y
  BY <1>4
<1> QED
  BY <1>5 DEF Max

LEMMA BoundedIsFinite ==
  ASSUME NEW b \in Nat, NEW S, S \subseteq 0 .. b
  PROVE  IsFiniteSet(S) /\ Cardinality(S) \in Nat
<1>1. IsFiniteSet(0 .. b)
  BY FS_Interval
<1>2. IsFiniteSet(S)
  BY <1>1, FS_Subset
<1> QED
  BY <1>2, FS_CardinalityType

From(S, i) == {j \in S : j >= i}

\* In a set of at least n numbers one is the n-th from above, n being 1 or 2.
LEMMA FromAbove ==
  ASSUME NEW b \in Nat, NEW S, S \subseteq 0 .. b, NEW n \in 1 .. 2, n <= Cardinality(S)
  PROVE  \E i \in S : Cardinality(From(S, i)) = n
<1>1. IsFiniteSet(S) /\ Cardinality(S) \in Nat
  BY BoundedIsFinite
<1>2. S # {}
  BY FS_EmptySet
<1> DEFINE x == Max(S)
<1>3. x \in S /\ \A y \in S : x >= y
  BY <1>2, GreatestNumber
<1> HIDE DEF x
<1>4. From(S, x) = {x}
  <2>1. ASSUME NEW j \in S, j >= x PROVE j = x
    <3>1. j <= x /\ j \in Int /\ x \in Int
      BY <1>3
    <3> QED
      BY <2>1, <3>1
  <2>2. x >= x
    BY <1>3
  <2> QED
    BY <1>3, <2>1, <2>2 DEF From
<1>5. CASE n = 1
  <2>1. Cardinality({x}) = 1
    BY FS_Singleton
  <2> QED
    BY <1>3, <1>4, <1>5, <2>1
<1>6. CASE n = 2
  <2> DEFINE R == S \ {x}
  <2>1. Cardinality(R) = Cardinality(S) - 1
    BY <1>1, <1>3, FS_RemoveElement
  <2>2. R # {}
    BY <1>1, <1>6, <2>1, FS_EmptySet
  <2> DEFINE y == Max(R)
  <2>3. R \subseteq 0 .. b
    OBVIOUS
  <2> HIDE DEF R
  <2>4. y \in R /\ \A z \in R : y >= z
    BY <2>2, <2>3, GreatestNumber
  <2> HIDE DEF y
  <2>5. y \in S /\ y # x /\ \A z \in S : z = x \/ y >= z
    BY <2>4 DEF R
  <2>6. From(S, y) = {x, y}
    <3>1. ASSUME NEW j \in S, j >= y PROVE j \in {x, y}
      <4>1. j = x \/ (j <= y /\ j \in Int /\ y \in Int)
        BY <2>5
      <4> QED
        BY <3>1, <4>1
    <3>2. x >= y /\ y >= y
      BY <1>3, <2>5
    <3> QED
      BY <1>3, <2>5, <3>1, <3>2 DEF From
  <2>7. Cardinality({x, y}) = 2
    <3>1. IsFiniteSet({y}) /\ Cardinality({y}) = 1 /\ x \notin {y} /\ {x, y} = {y} \cup {x}
      BY <2>5, FS_Singleton
    <3> QED
      BY <3>1, FS_AddElement
  <2> QED
    BY <1>6, <2>5, <2>6, <2>7
<1> QED
  BY <1>5, <1>6

\* What is preserved is the history from a message of the user or the model on.
LEMMA PreservedIs ==
  ASSUME NEW hist \in Seq(Messages), NEW n \in Nat, n # 0,
         n <= Min({2, Cardinality(Places(hist, LAMBDA m : m[1] # "result"))})
  PROVE  \E k \in 1 .. Len(hist) : hist[k][1] # "result" /\ Preserved(hist, n) = SubSeq(hist, k, Len(hist))
<1> DEFINE said == {i \in DOMAIN hist : hist[i][1] # "result"}
<1>1. said = Places(hist, LAMBDA m : m[1] # "result") /\ said \subseteq 0 .. Len(hist) /\ Len(hist) \in Nat
  BY DEF Places
<1> HIDE DEF said
<1>2. IsFiniteSet(said) /\ Cardinality(said) \in Nat
  BY <1>1, BoundedIsFinite
<1>3. n \in 1 .. 2 /\ n <= Cardinality(said)
  <2>1. {2, Cardinality(said)} \subseteq Nat /\ {2, Cardinality(said)} # {}
    BY <1>2
  <2>2. Min({2, Cardinality(said)}) \in Nat /\ Min({2, Cardinality(said)}) <= 2
        /\ Min({2, Cardinality(said)}) <= Cardinality(said)
    BY <2>1, LeastNumber
  <2>3. n <= Min({2, Cardinality(said)})
    BY <1>1
  <2> QED
    BY <1>2, <2>2, <2>3
<1> DEFINE S == {i \in said : Cardinality(From(said, i)) = n}
<1>4. S # {} /\ S \subseteq 0 .. Len(hist) /\ S \subseteq said
  <2>1. \E i \in said : Cardinality(From(said, i)) = n
    BY <1>1, <1>3, FromAbove
  <2> QED
    BY <1>1, <2>1
<1>6. Preserved(hist, n) = SubSeq(hist, Max(S), Len(hist))
  BY <1>1 DEF Preserved, From
<1> HIDE DEF S
<1>5. Max(S) \in said
  BY <1>1, <1>4, GreatestNumber
<1>7. Max(S) \in DOMAIN hist /\ hist[Max(S)][1] # "result"
  BY <1>5 DEF said
<1> QED
  BY <1>6, <1>7

-----------------------------------------------------------------------------
(* What the instructions are, and what they do.                            *)

Instrs == {do \in [op : Ops, ms : Seq(Lines)] : do.op = "say" => do.ms \in Seq(Messages)}
Put(ms) == [op |-> "put", ms |-> ms]

LEMMA EffectIs ==
  ASSUME NEW do
  PROVE  /\ do.op = "say" => Effect(do).ctx = Said(ctx, do.ms) /\ Effect(do).file = file /\ Effect(do).more = <<>>
         /\ do.op = "put" => Effect(do).ctx = ctx /\ Effect(do).file = file \o do.ms /\ Effect(do).more = <<>>
         /\ do.op = "count" => Effect(do).ctx = [ctx EXCEPT !.pend = 0] /\ Effect(do).file = file /\ Effect(do).more = <<>>
         /\ do.op = "mark" => /\ Effect(do).ctx = [ctx EXCEPT !.next = @ + 1] /\ Effect(do).file = file
                              /\ Effect(do).more = <<Put(<<Line(ctx.next)>>)>> \o Say(<<<<"mark", ctx.next>>>>)
         /\ do.op = "clear" => /\ Effect(do).ctx = ctx /\ Effect(do).file = <<>>
                               /\ Effect(do).more = <<[op |-> "wipe", ms |-> <<>>]>>
         /\ do.op = "wipe" => Effect(do).ctx = Empty /\ Effect(do).file = file /\ Effect(do).more = <<>>
         /\ do.op = "revert" => /\ Effect(do).ctx = ctx /\ Effect(do).file = <<>>
                                /\ Effect(do).more = <<[op |-> "load", ms |-> Kept(file, do.ms[1][2])]>>
         /\ do.op = "load" => Effect(do).ctx = Restored(do.ms) /\ Effect(do).file = do.ms /\ Effect(do).more = <<>>
BY DEF Effect, Wiped, Put

\* A failing or interrupted instruction wrote some of its lines, lost the file, or read part
\* of it, with fewer lines written back than read.
LEMMA CutIs ==
  ASSUME NEW do, NEW cut \in Cuts(do)
  PROVE  /\ do.op = "put" => cut.ctx = ctx /\ \E n \in 0 .. Len(do.ms) : cut.file = file \o SubSeq(do.ms, 1, n)
         /\ do.op \in {"clear", "revert"} => cut.ctx = ctx /\ cut.file \in {file, <<>>}
         /\ do.op = "load" => \/ cut.ctx = ctx /\ cut.file = file
                              \/ \E n \in 0 .. Len(do.ms), k \in 0 .. Len(do.ms) :
                                    k <= n /\ cut.ctx = Restored(SubSeq(do.ms, 1, n)) /\ cut.file = SubSeq(do.ms, 1, k)
         /\ do.op \notin {"put", "clear", "revert", "load"} => cut.ctx = ctx /\ cut.file = file
<1>1. CASE do.op = "put"
  <2>1. cut \in {[ctx |-> ctx, file |-> file \o SubSeq(do.ms, 1, n)] : n \in 0 .. Len(do.ms)}
    BY <1>1 DEF Cuts, Failures
  <2> QED
    BY <1>1, <2>1
<1>2. CASE do.op \in {"clear", "revert"}
  <2>1. cut \in {[ctx |-> ctx, file |-> file], [ctx |-> ctx, file |-> <<>>]}
    BY <1>2 DEF Cuts, Failures
  <2> QED
    BY <1>2, <2>1
<1>3. CASE do.op = "load"
  <2> DEFINE rebuilt == {[ctx |-> Restored(SubSeq(do.ms, 1, p[1])), file |-> SubSeq(do.ms, 1, p[2])] :
                            p \in {q \in (0 .. Len(do.ms)) \X (0 .. Len(do.ms)) : q[2] <= q[1]}}
  <2>1. cut \in rebuilt \cup {[ctx |-> ctx, file |-> file]}
    BY <1>3 DEF Cuts, Failures
  <2>2. CASE cut \in rebuilt
    <3>1. PICK p \in {q \in (0 .. Len(do.ms)) \X (0 .. Len(do.ms)) : q[2] <= q[1]} :
             cut = [ctx |-> Restored(SubSeq(do.ms, 1, p[1])), file |-> SubSeq(do.ms, 1, p[2])]
      BY <2>2
    <3>2. p[1] \in 0 .. Len(do.ms) /\ p[2] \in 0 .. Len(do.ms) /\ p[2] <= p[1]
      OBVIOUS
    <3> QED
      BY <1>3, <3>1, <3>2
  <2>3. CASE cut = [ctx |-> ctx, file |-> file]
    BY <1>3, <2>3
  <2> QED
    BY <2>1, <2>2, <2>3
<1>4. CASE do.op \notin {"put", "clear", "revert", "load"}
  <2>1. cut = [ctx |-> ctx, file |-> file]
    BY <1>4 DEF Cuts, Failures
  <2> QED
    BY <1>4, <2>1
<1> QED
  BY <1>1, <1>2, <1>3, <1>4

\* A write that fails leaves what an interruption could have left, and the turn goes on or ends.
LEMMA FailureIs ==
  ASSUME WriteFails \/ GrowFails
  PROVE  /\ Spend("fail") /\ torn' = TRUE
         /\ UNCHANGED <<queue, mail, known, serial, past, era, steered, heard, stray>>
         /\ \/ UNCHANGED <<pc, soul, aim>>
            \/ Ends
         /\ WriteFails => /\ job # <<>> /\ job' = <<>> /\ grow' = grow
                          /\ pc' = pc => pc = "ask" \/ pc = "idle"
                          /\ Head(job).op \in {"put", "clear", "revert", "load"}
                          /\ \E cut \in Cuts(Head(job)) : ctx' = cut.ctx /\ file' = cut.file
         /\ GrowFails => /\ grow # <<>> /\ grow' = <<>> /\ job' = job /\ ctx' = ctx
                         /\ Head(grow).op = "put" /\ \E cut \in Cuts(Head(grow)) : file' = cut.file
<1>1. CASE WriteFails
  <2>1. \E cut \in Cuts(Head(job)) : ctx' = cut.ctx /\ file' = cut.file
    <3>1. PICK cut \in Failures(Head(job)) : ctx' = cut.ctx /\ file' = cut.file
      BY <1>1 DEF WriteFails
    <3>2. cut \in Cuts(Head(job))
      BY DEF Cuts
    <3> QED
      BY <3>1, <3>2
  <2>2. UNCHANGED <<pc, soul, aim>> \/ Ends
    BY <1>1 DEF WriteFails
  <2>3. pc' = pc => pc = "ask" \/ pc = "idle"
    BY <1>1 DEF WriteFails, Ends
  <2> QED
    BY <1>1, <2>1, <2>2, <2>3 DEF WriteFails, GrowFails
<1>2. CASE GrowFails
  <2>1. \E cut \in Cuts(Head(grow)) : file' = cut.file
    <3>1. PICK cut \in Failures(Head(grow)) : file' = cut.file
      BY <1>2 DEF GrowFails
    <3>2. cut \in Cuts(Head(grow))
      BY DEF Cuts
    <3> QED
      BY <3>1, <3>2
  <2>2. UNCHANGED <<pc, soul, aim>> \/ Ends
    BY <1>2 DEF GrowFails
  <2>3. ~WriteFails
    BY <1>2 DEF WriteFails, GrowFails
  <2> QED
    BY <1>2, <2>1, <2>2, <2>3 DEF GrowFails
<1> QED
  BY <1>1, <1>2

LEMMA SayInstrs ==
  ASSUME NEW ms \in Seq(Messages)
  PROVE  /\ Say(ms) \in Seq(Instrs) /\ Len(Say(ms)) = 2
         /\ Say(ms)[1] = [op |-> "say", ms |-> ms] /\ Say(ms)[2] = Put(ms)
<1>1. [op |-> "say", ms |-> ms] \in Instrs /\ Put(ms) \in Instrs
  BY MessagesAreLines DEF Instrs, Ops, Put
<1> QED
  BY <1>1 DEF Say, Put

LEMMA OneMessage ==
  ASSUME NEW k \in Kinds, NEW n \in Nat
  PROVE  <<k, n>> \in Messages /\ <<<<k, n>>>> \in Seq(Messages)
<1>1. <<k, n>> \in Messages
  BY DEF Messages
<1> QED
  BY <1>1

LEMMA NoInstrs == <<>> \in Seq(Instrs)
BY EmptySeq

LEMMA CountInstrs ==
  /\ Count \in Seq(Instrs) /\ Len(Count) = 2
  /\ Count[1] = [op |-> "count", ms |-> <<>>] /\ Count[2] = Put(<<Usage>>)
<1>1. <<>> \in Seq(Lines) /\ <<Usage>> \in Seq(Lines)
  BY MarksOfUsage, EmptySeq
<1>2. [op |-> "count", ms |-> <<>>] \in Instrs /\ Put(<<Usage>>) \in Instrs
  BY <1>1 DEF Instrs, Ops, Put
<1> QED
  BY <1>2 DEF Count, Put

LEMMA OneInstr ==
  ASSUME NEW op \in Ops \ {"say"}, NEW ms \in Seq(Lines)
  PROVE  <<[op |-> op, ms |-> ms]>> \in Seq(Instrs)
<1>1. [op |-> op, ms |-> ms] \in Instrs
  BY DEF Instrs
<1> QED
  BY <1>1

LEMMA MoreInstrs ==
  /\ Checkpoint \in Seq(Instrs) /\ Clear \in Seq(Instrs) /\ \A id \in Nat : RevertTo(id) \in Seq(Instrs)
<1>1. <<>> \in Seq(Lines) /\ \A id \in Nat : <<Line(id)>> \in Seq(Lines)
  BY MarksOfLine, EmptySeq
<1> QED
  BY <1>1, OneInstr DEF Checkpoint, Clear, RevertTo, Ops

LEMMA Joined == ASSUME NEW X, NEW a \in Seq(X), NEW b \in Seq(X) PROVE a \o b \in Seq(X)
OBVIOUS

LEMMA HeadTail ==
  ASSUME NEW X, NEW s \in Seq(X), s # <<>>
  PROVE  /\ Head(s) \in X /\ Tail(s) \in Seq(X) /\ Head(s) = s[1]
         /\ Len(s) \in Nat \ {0} /\ Len(Tail(s)) = Len(s) - 1 /\ \A i \in 1 .. Len(s) - 1 : Tail(s)[i] = s[i + 1]
OBVIOUS

-----------------------------------------------------------------------------
(* Every variable keeps its type.                                          *)

Flags == pc \in Phases /\ hooked \in BOOLEAN /\ torn \in BOOLEAN /\ stray \in BOOLEAN
Counts ==
    /\ left \in [Events -> Nat]
    /\ step \in 0 .. MaxSteps /\ attempt \in 0 .. 2
    /\ queue \in Seq(Nat) /\ serial \in Nat
    /\ steered \subseteq Nat /\ heard \subseteq Nat
Data ==
    /\ ctx \in Contexts /\ file \in Seq(Lines) /\ job \in Seq(Instrs) /\ grow \in Seq(Instrs)
    /\ draft \in Seq(Messages)
    /\ reply \in {<<>>} \cup ({"call", "text"} \X Nat)
Mailing ==
    /\ mail \subseteq Mails /\ aim \subseteq Mails /\ known \in Nat
    /\ DOMAIN past \subseteq Nat /\ (\A id \in DOMAIN past : past[id] \in Seq(Messages))
    /\ era \in Nat
Answered == pc = "tools" => reply # <<>>
Typed == Flags /\ Counts /\ Answered /\ Data /\ Mailing

LEMMA TypedMeansTypeOK == Typed => TypeOK
<1>1. Seq(Instrs) \subseteq Jobs
  <2>1. Instrs \subseteq [op : Ops, ms : Seq(Lines)]
    BY DEF Instrs
  <2> QED
    BY <2>1, SeqMonotonic DEF Jobs
<1> QED
  BY <1>1 DEF Typed, Flags, Counts, Data, Mailing, TypeOK, Contexts

LEMMA TypedInit == Init => Typed
<1> SUFFICES ASSUME Init PROVE Typed
  OBVIOUS
<1>1. left \in [Events -> Nat]
  BY AgentTurnAssumption DEF Init
<1>2. Flags /\ Counts
  <2>1. step \in 0 .. MaxSteps /\ attempt \in 0 .. 2 /\ queue \in Seq(Nat) /\ serial \in Nat
    BY AgentTurnAssumption, EmptySeq DEF Init
  <2>2. pc \in Phases /\ hooked \in BOOLEAN /\ torn \in BOOLEAN /\ stray \in BOOLEAN
    BY DEF Init, Phases
  <2>3. steered \subseteq Nat /\ heard \subseteq Nat
    BY DEF Init
  <2> QED
    BY <1>1, <2>1, <2>2, <2>3 DEF Flags, Counts
<1>3. Data
  BY EmptySeq, EmptyContext, NoInstrs DEF Init, Data
<1>4. Mailing /\ Answered
  BY DEF Init, Mailing, Answered
<1> QED
  BY <1>2, <1>3, <1>4 DEF Typed

LEMMA SpendKeeps == ASSUME NEW e \in Events, Counts, Spend(e) PROVE left' \in [Events -> Nat]
BY DEF Counts, Spend

\* Everything an instruction can do to the context and the file is typed.
LEMMA EffectTyped ==
  ASSUME Typed, NEW do \in Instrs
  PROVE  Effect(do).ctx \in Contexts /\ Effect(do).file \in Seq(Lines) /\ Effect(do).more \in Seq(Instrs)
<1>0. ctx \in Contexts /\ ctx.next \in Nat /\ file \in Seq(Lines) /\ do.ms \in Seq(Lines) /\ do.op \in Ops
  BY DEF Typed, Data, Contexts, Instrs
<1>1. CASE do.op = "say"
  <2>1. do.ms \in Seq(Messages)
    BY <1>1 DEF Instrs
  <2> QED
    BY <1>0, <1>1, <2>1, EffectIs, SaidIs, NoInstrs
<1>2. CASE do.op = "put"
  <2>1. file \o do.ms \in Seq(Lines)
    BY <1>0, Joined
  <2> QED
    BY <1>0, <1>2, <2>1, EffectIs, NoInstrs
<1>3. CASE do.op = "count"
  <2>1. [ctx EXCEPT !.pend = 0] \in Contexts
    BY <1>0 DEF Contexts
  <2> QED
    BY <1>0, <1>3, <2>1, EffectIs, NoInstrs
<1>4. CASE do.op = "mark"
  <2>1. [ctx EXCEPT !.next = @ + 1] \in Contexts
    BY <1>0 DEF Contexts
  <2>2. <<Put(<<Line(ctx.next)>>)>> \in Seq(Instrs)
    BY <1>0, MarksOfLine, OneInstr DEF Put, Ops
  <2>3. Say(<<<<"mark", ctx.next>>>>) \in Seq(Instrs)
    BY <1>0, OneMessage, SayInstrs DEF Kinds
  <2>4. <<Put(<<Line(ctx.next)>>)>> \o Say(<<<<"mark", ctx.next>>>>) \in Seq(Instrs)
    BY <2>2, <2>3, Joined
  <2> QED
    BY <1>0, <1>4, <2>1, <2>4, EffectIs
<1>5. CASE do.op = "clear"
  <2>1. <<>> \in Seq(Lines) /\ <<[op |-> "wipe", ms |-> <<>>]>> \in Seq(Instrs)
    BY EmptySeq, OneInstr DEF Ops
  <2> QED
    BY <1>0, <1>5, <2>1, EffectIs
<1>6. CASE do.op = "wipe"
  BY <1>0, <1>6, EffectIs, EmptyContext, NoInstrs
<1>7. CASE do.op = "revert"
  <2>1. Kept(file, do.ms[1][2]) \in Seq(Lines)
    BY <1>0, KeptType
  <2>2. <<[op |-> "load", ms |-> Kept(file, do.ms[1][2])]>> \in Seq(Instrs)
    BY <2>1, OneInstr DEF Ops
  <2> QED
    BY <1>0, <1>7, <2>2, EffectIs, EmptySeq
<1>8. CASE do.op = "load"
  BY <1>0, <1>8, EffectIs, RestoredType, NoInstrs
<1> QED
  BY <1>0, <1>1, <1>2, <1>3, <1>4, <1>5, <1>6, <1>7, <1>8 DEF Ops

LEMMA CutTyped ==
  ASSUME Typed, NEW do \in Instrs, NEW cut \in Cuts(do)
  PROVE  cut.ctx \in Contexts /\ cut.file \in Seq(Lines)
<1>0. ctx \in Contexts /\ file \in Seq(Lines) /\ do.ms \in Seq(Lines) /\ do.op \in Ops
  BY DEF Typed, Data, Instrs
<1>1. \A n \in 0 .. Len(do.ms) : SubSeq(do.ms, 1, n) \in Seq(Lines)
  BY <1>0
<1>2. \A n \in 0 .. Len(do.ms) : file \o SubSeq(do.ms, 1, n) \in Seq(Lines)
  BY <1>0, <1>1, Joined
<1>3. \A n \in 0 .. Len(do.ms) : Restored(SubSeq(do.ms, 1, n)) \in Contexts
  BY <1>1, RestoredType
<1>4. <<>> \in Seq(Lines)
  BY EmptySeq
<1>5. CASE do.op = "put"
  BY <1>0, <1>2, <1>5, CutIs
<1>6. CASE do.op = "load"
  BY <1>0, <1>1, <1>3, <1>6, CutIs
<1>7. CASE do.op \notin {"put", "load"}
  BY <1>0, <1>4, <1>7, CutIs
<1> QED
  BY <1>5, <1>6, <1>7

LEMMA FlagsStep == Typed /\ [Next]_vars => Flags'
<1> SUFFICES ASSUME Flags, [Next]_vars PROVE Flags'
  BY DEF Typed
<1> USE DEF soul, seen, Phases, Flags
<1>1. CASE TurnRuns \/ GrowRuns \/ UNCHANGED vars
  BY <1>1 DEF TurnRuns, GrowRuns, vars
<1>2. CASE Prompt
  <2>1. pc' = "prompt" /\ hooked' = hooked /\ torn' \in BOOLEAN /\ stray' \in BOOLEAN
    BY <1>2 DEF Prompt
  <2> QED
    BY <2>1
<1>3. CASE OpenTurn
  <2>1. hooked' = hooked \/ hooked' = TRUE
    BY <1>3 DEF OpenTurn
  <2> QED
    BY <1>3, <2>1 DEF OpenTurn
<1>4. CASE ClearCommand \/ BeginLoop \/ CommandDone \/ CompactCommand \/ Overflow
  BY <1>4 DEF ClearCommand, BeginLoop, CommandDone, CompactCommand, Overflow, Compact
<1>5. CASE EndRun \/ Raise \/ TurnBackFails \/ ConsumeFails
  BY <1>5 DEF EndRun, Raise, TurnBackFails, ConsumeFails, Ends
<1>6. CASE Rebuild
  BY <1>6 DEF Rebuild, At
<1>7. CASE BeginStep \/ TellCheckpoints \/ Inject \/ Answer \/ SendMail \/ ToolsEnd
  BY <1>7 DEF BeginStep, TellCheckpoints, Inject, Answer, SendMail, ToolsEnd, Compact
<1>8. CASE Rejected \/ TurnBack \/ Resolve \/ Consume \/ NextStep \/ Return \/ Restart \/ Steer
  BY <1>8 DEF Rejected, TurnBack, Resolve, Consume, NextStep, Return, Restart, Steer
<1>9. CASE Cancel
  <2>1. pc' = "idle" /\ hooked' = FALSE /\ stray' = stray /\ torn' \in BOOLEAN
    BY <1>9 DEF Cancel, Ends
  <2> QED
    BY <2>1
<1>10. CASE Crash
  <2>1. pc' = "down" /\ hooked' = FALSE /\ torn' = FALSE /\ stray' \in BOOLEAN
    BY <1>10 DEF Crash
  <2> QED
    BY <2>1
<1>11. CASE WriteFails \/ GrowFails
  <2>1. pc' \in {pc, "idle"} /\ hooked' \in {hooked, FALSE} /\ stray' = stray /\ torn' = TRUE
    BY <1>11, FailureIs DEF Ends
  <2> QED
    BY <2>1
<1> QED
  BY <1>1, <1>2, <1>3, <1>4, <1>5, <1>6, <1>7, <1>8, <1>9, <1>10, <1>11 DEF Next

LEMMA CountsStep == Typed /\ [Next]_vars => Counts'
<1> SUFFICES ASSUME Counts, [Next]_vars PROVE Counts'
  BY DEF Typed
<1> USE DEF soul, seen
<1>0. {"turn", "steer", "note", "mail", "compact", "hook", "cancel", "crash", "fail"} = Events
  BY DEF Events
<1>1. CASE TurnRuns \/ GrowRuns \/ UNCHANGED vars
  BY <1>1 DEF Counts, TurnRuns, GrowRuns, vars
<1>2. CASE Prompt \/ ClearCommand \/ CommandDone
  BY <1>0, <1>2, SpendKeeps DEF Counts, Prompt, ClearCommand, CommandDone
<1>3. CASE OpenTurn
  <2>1. left' \in [Events -> Nat] /\ serial' = serial + 1 /\ UNCHANGED <<step, attempt, queue, steered, heard>>
    BY <1>0, <1>3, SpendKeeps DEF OpenTurn, Counts
  <2> QED
    BY <2>1 DEF Counts
<1>4. CASE BeginLoop
  BY <1>4, AgentTurnAssumption, EmptySeq DEF Counts, BeginLoop
<1>5. CASE EndRun \/ Raise \/ TurnBackFails
  <2>1. step' = 0 /\ attempt' = 0 /\ UNCHANGED <<left, queue, serial, steered, heard>>
    BY <1>5 DEF EndRun, Raise, TurnBackFails, Ends
  <2> QED
    BY <2>1, AgentTurnAssumption DEF Counts
<1>6. CASE CompactCommand \/ Overflow
  <2>1. left' \in [Events -> Nat] /\ UNCHANGED <<step, queue, serial, steered, heard>>
    BY <1>0, <1>6, SpendKeeps DEF CompactCommand, Overflow, Compact
  <2>2. attempt' \in 0 .. 2
    BY <1>6 DEF CompactCommand, Overflow, Counts
  <2> QED
    BY <2>1, <2>2 DEF Counts
<1>7. CASE Rebuild
  BY <1>7 DEF Counts, Rebuild
<1>8. CASE BeginStep
  <2>1. step' \in 0 .. MaxSteps /\ attempt' = 0
    BY <1>8, AgentTurnAssumption DEF Counts, BeginStep
  <2>2. left' \in [Events -> Nat]
    BY <1>0, <1>8, SpendKeeps DEF BeginStep, Compact, Counts
  <2>3. UNCHANGED <<queue, serial, steered, heard>>
    BY <1>8 DEF BeginStep
  <2> QED
    BY <2>1, <2>2, <2>3 DEF Counts
<1>9. CASE TellCheckpoints \/ Inject \/ SendMail \/ ToolsEnd
  BY <1>0, <1>9, SpendKeeps DEF Counts, TellCheckpoints, Inject, SendMail, ToolsEnd
<1>10. CASE Answer
  <2>1. serial' = serial + 1 /\ heard' = {} /\ UNCHANGED <<left, step, attempt, queue, steered>>
    BY <1>10 DEF Answer
  <2> QED
    BY <2>1 DEF Counts
<1>11. CASE Rejected \/ TurnBack \/ Resolve
  <2>1. serial' \in {serial, serial + 1} /\ UNCHANGED <<left, step, attempt, queue, steered, heard>>
    BY <1>11 DEF Rejected, TurnBack, Resolve
  <2> QED
    BY <2>1 DEF Counts
<1>12. CASE Consume \/ ConsumeFails
  <2>1. queue # <<>> /\ queue' = Tail(queue)
    BY <1>12 DEF Consume, ConsumeFails
  <2>2. queue' \in Seq(Nat) /\ Head(queue) \in Nat
    BY <2>1, HeadTail DEF Counts
  <2>3. UNCHANGED <<left, serial>> /\ step' \in {step, 0} /\ attempt' \in {attempt, 0}
    BY <1>12 DEF Consume, ConsumeFails, Ends
  <2>4. steered' \subseteq steered /\ heard' \subseteq heard \cup {Head(queue)}
    BY <1>12 DEF Consume, ConsumeFails
  <2> QED
    BY <2>2, <2>3, <2>4, AgentTurnAssumption DEF Counts
<1>13. CASE NextStep \/ Return \/ Restart
  BY <1>13 DEF Counts, NextStep, Return, Restart
<1>14. CASE Steer
  <2>1. left' \in [Events -> Nat]
    BY <1>0, <1>14, SpendKeeps DEF Steer
  <2>2. /\ queue' = Append(queue, serial) /\ serial' = serial + 1 /\ UNCHANGED <<step, attempt, heard>>
        /\ steered' \subseteq steered \cup {serial}
    BY <1>14 DEF Steer
  <2> QED
    BY <2>1, <2>2 DEF Counts
<1>15. CASE Cancel
  <2>1. left' \in [Events -> Nat]
    BY <1>0, <1>15, SpendKeeps DEF Cancel
  <2>2. step' = 0 /\ attempt' = 0 /\ UNCHANGED <<queue, serial, steered, heard>>
    BY <1>15 DEF Cancel, Ends
  <2> QED
    BY <2>1, <2>2, AgentTurnAssumption DEF Counts
<1>16. CASE Crash
  <2>1. left' \in [Events -> Nat]
    BY <1>0, <1>16, SpendKeeps DEF Crash
  <2>2. step' = 0 /\ attempt' = 0 /\ queue' = <<>> /\ steered' = {} /\ heard' = {} /\ serial' = serial
    BY <1>16 DEF Crash
  <2> QED
    BY <2>1, <2>2, EmptySeq, AgentTurnAssumption DEF Counts
<1>17. CASE WriteFails \/ GrowFails
  <2>1. left' \in [Events -> Nat]
    BY <1>0, <1>17, FailureIs, SpendKeeps
  <2>2. step' \in {step, 0} /\ attempt' \in {attempt, 0} /\ UNCHANGED <<queue, serial, steered, heard>>
    BY <1>17, FailureIs DEF Ends
  <2> QED
    BY <2>1, <2>2, AgentTurnAssumption DEF Counts
<1> QED
  BY <1>1, <1>2, <1>3, <1>4, <1>5, <1>6, <1>7, <1>8, <1>9, <1>10, <1>11, <1>12, <1>13, <1>14, <1>15, <1>16, <1>17 DEF Next

\* A compaction leaves a history of messages.
LEMMA CompactTyped == ASSUME Typed, NEW p, Compact(p) PROVE draft' \in Seq(Messages)
<1>1. ctx.hist \in Seq(Messages)
  BY DEF Typed, Data, Contexts
<1>2. <<<<"summary", 0>>>> \in Seq(Messages) /\ <<>> \in Seq(Messages)
  BY OneMessage, EmptySeq DEF Kinds
<1> DEFINE said == Places(ctx.hist, LAMBDA m : m[1] # "result")
<1>3. ASSUME NEW n \in 0 .. Min({2, Cardinality(said)}), n # 0 PROVE Preserved(ctx.hist, n) \in Seq(Messages)
  <2>1. n \in Nat /\ n <= Min({2, Cardinality(said)})
    BY <1>3
  <2>2. PICK k \in 1 .. Len(ctx.hist) : Preserved(ctx.hist, n) = SubSeq(ctx.hist, k, Len(ctx.hist))
    BY <1>1, <1>3, <2>1, PreservedIs
  <2> QED
    BY <1>1, <2>2
<1>4. \/ draft' = ctx.hist
      \/ \E n \in 0 .. Min({2, Cardinality(said)}) :
            LET tail == IF n = 0 THEN <<>> ELSE Preserved(ctx.hist, n)
            IN  draft' = IF tail = ctx.hist THEN tail ELSE <<<<"summary", 0>>>> \o tail
  BY DEF Compact
<1> HIDE DEF said
<1>5. ASSUME NEW tail \in Seq(Messages) PROVE <<<<"summary", 0>>>> \o tail \in Seq(Messages)
  BY <1>2, Joined
<1> QED
  BY <1>1, <1>2, <1>3, <1>4, <1>5

\* What a compaction and a step leave to do.
Rebuilding(tasks, last) == Clear \o Checkpoint \o Say(draft) \o tasks \o Count \o last
Growth(r) == Say(<<r>>) \o Count \o (IF r[1] = "call" THEN Say(<<<<"result", r[2]>>>>) ELSE <<>>)

LEMMA RebuildIs ==
  ASSUME Rebuild
  PROVE  \E tasks \in {<<>>, Say(<<<<"note", 0>>>>)}, last \in {<<>>, Checkpoint} : job' = Rebuilding(tasks, last)
BY DEF Rebuild, Rebuilding

LEMMA RebuildingTyped ==
  ASSUME Typed, NEW tasks \in {<<>>, Say(<<<<"note", 0>>>>)}, NEW last \in {<<>>, Checkpoint}
  PROVE  Rebuilding(tasks, last) \in Seq(Instrs)
<1>1. Say(draft) \in Seq(Instrs)
  BY SayInstrs DEF Typed, Data
<1>2. tasks \in Seq(Instrs) /\ last \in Seq(Instrs)
  BY SayInstrs, OneMessage, NoInstrs, MoreInstrs DEF Kinds
<1>3. Clear \o Checkpoint \in Seq(Instrs)
  BY MoreInstrs, Joined
<1>4. Clear \o Checkpoint \o Say(draft) \in Seq(Instrs)
  BY <1>1, <1>3, Joined
<1>5. Clear \o Checkpoint \o Say(draft) \o tasks \in Seq(Instrs)
  BY <1>2, <1>4, Joined
<1>6. Clear \o Checkpoint \o Say(draft) \o tasks \o Count \in Seq(Instrs)
  BY <1>5, CountInstrs, Joined
<1> QED
  BY <1>2, <1>6, Joined DEF Rebuilding

LEMMA GrowthTyped ==
  ASSUME NEW r \in {"call", "text"} \X Nat
  PROVE  Growth(r) \in Seq(Instrs)
<1>1. r[1] \in Kinds /\ r[2] \in Nat /\ r = <<r[1], r[2]>>
  BY DEF Kinds
<1>2. Say(<<r>>) \in Seq(Instrs) /\ Say(<<<<"result", r[2]>>>>) \in Seq(Instrs)
  BY <1>1, SayInstrs, OneMessage DEF Kinds
<1>3. Say(<<r>>) \o Count \in Seq(Instrs)
  BY <1>2, CountInstrs, Joined
<1> QED
  BY <1>2, <1>3, NoInstrs, Joined DEF Growth

\* The tools run on an answer.
LEMMA AnsweredStep == Typed /\ [Next]_vars => Answered'
<1> SUFFICES ASSUME Answered, [Next]_vars PROVE Answered'
  BY DEF Typed
<1>1. CASE pc' = "tools" /\ pc # "tools"
  <2>1. Answer
    BY <1>1 DEF Next, TurnRuns, GrowRuns, WriteFails, GrowFails, Prompt, OpenTurn, ClearCommand, BeginLoop, EndRun, CommandDone, Raise,
       CompactCommand, Rebuild, BeginStep, TellCheckpoints, Inject, Overflow, SendMail, ToolsEnd, Rejected, TurnBack,
       TurnBackFails, Resolve, Consume, ConsumeFails, NextStep, Return, Steer, Cancel, Crash, Restart, Ends, Compact, At, vars
  <2> QED
    BY <2>1 DEF Answer, Answered
<1>2. CASE pc' = "tools" /\ pc = "tools"
  <2>1. reply' = reply
    BY <1>2 DEF Next, TurnRuns, GrowRuns, WriteFails, GrowFails, Prompt, OpenTurn, ClearCommand, BeginLoop, EndRun, CommandDone, Raise,
       CompactCommand, Rebuild, BeginStep, TellCheckpoints, Inject, Answer, Overflow, SendMail, ToolsEnd, Rejected, TurnBack,
       TurnBackFails, Resolve, Consume, ConsumeFails, NextStep, Return, Steer, Cancel, Crash, Restart, Ends, Compact, At, vars,
       soul
  <2> QED
    BY <1>2, <2>1 DEF Answered
<1> QED
  BY <1>1, <1>2 DEF Answered

LEMMA DataStep == Typed /\ [Next]_vars => Data'
<1> SUFFICES ASSUME Typed, [Next]_vars PROVE Data'
  OBVIOUS
<1> USE DEF soul, context
<1>0. Data /\ serial \in Nat /\ <<>> \in Seq(Messages) /\ <<>> \in Seq(Instrs) /\ <<>> \in Seq(Lines)
  BY EmptySeq DEF Typed, Counts
<1>1. CASE TurnRuns
  <2>1. job # <<>> /\ Head(job) \in Instrs /\ Tail(job) \in Seq(Instrs)
    BY <1>0, <1>1, HeadTail DEF TurnRuns, Data
  <2>2. /\ Effect(Head(job)).ctx \in Contexts /\ Effect(Head(job)).file \in Seq(Lines)
        /\ Effect(Head(job)).more \o Tail(job) \in Seq(Instrs)
    BY <2>1, EffectTyped, Joined
  <2> QED
    BY <1>0, <1>1, <2>2 DEF TurnRuns, Data
<1>2. CASE GrowRuns
  <2>1. grow # <<>> /\ Head(grow) \in Instrs /\ Tail(grow) \in Seq(Instrs)
    BY <1>0, <1>2, HeadTail DEF GrowRuns, Data
  <2>2. Effect(Head(grow)).ctx \in Contexts /\ Effect(Head(grow)).file \in Seq(Lines)
    BY <2>1, EffectTyped
  <2> QED
    BY <1>0, <1>2, <2>1, <2>2 DEF GrowRuns, Data
<1>3. CASE OpenTurn
  <2>1. Checkpoint \o Say(<<<<"user", serial>>>>) \in Seq(Instrs)
    BY <1>0, OneMessage, SayInstrs, MoreInstrs, Joined DEF Kinds
  <2> QED
    BY <1>0, <1>3, <2>1 DEF Data, OpenTurn
<1>4. CASE ClearCommand
  BY <1>0, <1>4, MoreInstrs DEF Data, ClearCommand
<1>5. CASE EndRun \/ Raise \/ TurnBackFails \/ ConsumeFails
  BY <1>0, <1>5 DEF Data, EndRun, Raise, TurnBackFails, ConsumeFails, Ends
<1>6. CASE CompactCommand \/ Overflow
  <2>1. draft' \in Seq(Messages)
    BY <1>6, CompactTyped DEF CompactCommand, Overflow
  <2> QED
    BY <1>0, <1>6, <2>1 DEF Data, CompactCommand, Overflow
<1>7. CASE Rebuild
  <2>1. job' \in Seq(Instrs)
    BY <1>7, RebuildIs, RebuildingTyped
  <2> QED
    BY <1>0, <1>7, <2>1 DEF Data, Rebuild
<1>8. CASE BeginStep
  <2>1. draft' \in Seq(Messages)
    BY <1>0, <1>8, CompactTyped DEF BeginStep, Data
  <2>2. job' \in Seq(Instrs)
    BY <1>0, <1>8, MoreInstrs DEF BeginStep, Data
  <2> QED
    BY <1>0, <1>8, <2>1, <2>2 DEF Data, BeginStep
<1>9. CASE Inject
  <2>1. Say(<<<<"note", 0>>>>) \in Seq(Instrs)
    BY OneMessage, SayInstrs DEF Kinds
  <2> QED
    BY <1>0, <1>9, <2>1 DEF Data, Inject
<1>10. CASE Answer
  BY <1>0, <1>10, CountInstrs DEF Data, Answer
<1>11. CASE ToolsEnd
  <2>1. reply \in {"call", "text"} \X Nat
    BY <1>0, <1>11 DEF ToolsEnd, At, Typed, Answered, Data
  <2>2. grow' = Growth(reply)
    BY <1>11 DEF ToolsEnd, Growth
  <2>3. grow' \in Seq(Instrs)
    BY <2>1, <2>2, GrowthTyped
  <2> QED
    BY <1>0, <1>11, <2>3 DEF Data, ToolsEnd
<1>12. CASE TurnBack
  <2>1. Checkpoint \o Say(<<<<"mail", serial>>>>) \in Seq(Instrs)
    BY <1>0, OneMessage, SayInstrs, MoreInstrs, Joined DEF Kinds
  <2>2. PICK m \in mail : job' = RevertTo(m.to) \o Checkpoint \o Say(<<<<"mail", serial>>>>)
    BY <1>12 DEF TurnBack
  <2>3. m.to \in Nat
    BY <2>2 DEF Typed, Mailing, Mails
  <2>4. RevertTo(m.to) \o Checkpoint \in Seq(Instrs)
    BY <2>3, MoreInstrs, Joined
  <2>5. job' \in Seq(Instrs)
    BY <1>0, <2>2, <2>4, OneMessage, SayInstrs, Joined DEF Kinds
  <2> QED
    BY <1>0, <1>12, <2>5 DEF Data, TurnBack
<1>13. CASE Consume
  <2>1. Head(queue) \in Nat
    BY <1>13, HeadTail DEF Consume, Typed, Counts
  <2>2. <<<<"steer", Head(queue)>>>> \in Seq(Messages)
    BY <2>1, OneMessage DEF Kinds
  <2>3. ctx' \in Contexts
    BY <1>0, <1>13, <2>2, SaidIs DEF Consume, Data
  <2>4. <<[op |-> "put", ms |-> <<<<"steer", Head(queue)>>>>]>> \in Seq(Instrs)
    BY <2>2, MessagesAreLines, OneInstr DEF Ops
  <2> QED
    BY <1>0, <1>13, <2>3, <2>4 DEF Data, Consume
<1>14. CASE NextStep \/ Return
  BY <1>0, <1>14 DEF Data, NextStep, Return
<1>15. CASE Cancel
  <2>1. ctx' \in Contexts /\ file' \in Seq(Lines)
    BY <1>0, <1>15, HeadTail, CutTyped DEF Cancel, Data
  <2> QED
    BY <1>0, <1>15, <2>1 DEF Data, Cancel, Ends
<1>16. CASE Crash
  <2>1. file' \in Seq(Lines)
    BY <1>0, <1>16, HeadTail, CutTyped DEF Crash, Data
  <2> QED
    BY <1>0, <1>16, <2>1, EmptyContext DEF Data, Crash
<1>17. CASE Restart
  <2>1. Restored(file) \in Contexts
    BY <1>0, RestoredType DEF Data
  <2> QED
    BY <1>0, <1>17, <2>1 DEF Data, Restart
<1>18. CASE Prompt \/ BeginLoop \/ CommandDone \/ TellCheckpoints \/ SendMail \/ Rejected \/ Resolve \/ Steer \/ UNCHANGED vars
  BY <1>0, <1>18 DEF Data, Prompt, BeginLoop, CommandDone, TellCheckpoints, SendMail, Rejected, Resolve, Steer, vars
<1>19. CASE WriteFails \/ GrowFails
  <2>1. ctx' \in Contexts /\ file' \in Seq(Lines)
    <3>1. CASE WriteFails
      BY <1>0, <3>1, FailureIs, HeadTail, CutTyped DEF Data
    <3>2. CASE GrowFails
      BY <1>0, <3>2, FailureIs, HeadTail, CutTyped DEF Data
    <3> QED
      BY <1>19, <3>1, <3>2
  <2>2. job' \in {job, <<>>} /\ grow' \in {grow, <<>>} /\ draft' \in {draft, <<>>} /\ reply' \in {reply, <<>>}
    BY <1>19, FailureIs DEF Ends
  <2> QED
    BY <1>0, <2>1, <2>2 DEF Data
<1> QED
  BY <1>1, <1>2, <1>3, <1>4, <1>5, <1>6, <1>7, <1>8, <1>9, <1>10, <1>11, <1>12, <1>13, <1>14, <1>15, <1>16, <1>17, <1>18, <1>19
  DEF Next

LEMMA MailingStep == Typed /\ [Next]_vars => Mailing'
<1> SUFFICES ASSUME Typed, [Next]_vars PROVE Mailing'
  OBVIOUS
<1> USE DEF denwa, seen
<1>0. Mailing /\ ctx \in Contexts /\ file \in Seq(Lines)
  BY DEF Typed, Data
<1>1. CASE TurnRuns
  <2>1. job # <<>> /\ Head(job) \in Instrs
    BY <1>1, HeadTail DEF TurnRuns, Typed, Data
  <2>2. /\ past' = Past(Head(job)) /\ era' \in {era, era + 1} /\ aim' \in {aim, {}} /\ mail' = mail /\ known' = known
    BY <1>1 DEF TurnRuns
  <2>3. DOMAIN past' \subseteq Nat /\ \A id \in DOMAIN past' : past'[id] \in Seq(Messages)
    <3>1. ctx.next \in Nat /\ ctx.hist \in Seq(Messages)
      BY <1>0 DEF Contexts
    <3>2. CASE Head(job).op = "mark"
      BY <1>0, <2>2, <3>1, <3>2 DEF Past, Mailing
    <3>3. CASE Head(job).op = "wipe"
      <4>1. past' = <<>>
        BY <2>2, <3>3 DEF Past
      <4> QED
        BY <4>1
    <3>4. CASE Head(job).op = "load"
      BY <1>0, <2>2, <3>4 DEF Past, Mailing, Restrict
    <3>5. CASE Head(job).op \notin {"mark", "wipe", "load"}
      <4>1. past' = past
        BY <2>2, <3>5 DEF Past
      <4> QED
        BY <1>0, <4>1 DEF Mailing
    <3> QED
      BY <3>2, <3>3, <3>4, <3>5
  <2> QED
    BY <1>0, <2>2, <2>3 DEF Mailing
<1>2. CASE EndRun \/ Raise \/ ConsumeFails \/ Cancel \/ TurnBackFails
  BY <1>0, <1>2 DEF Mailing, EndRun, Raise, ConsumeFails, Cancel, TurnBackFails, Ends
<1>9. CASE WriteFails \/ GrowFails
  <2>1. aim' \in {aim, {}} /\ UNCHANGED <<mail, known, past, era>>
    BY <1>9, FailureIs DEF Ends
  <2> QED
    BY <1>0, <2>1 DEF Mailing
<1>3. CASE TellCheckpoints
  BY <1>0, <1>3 DEF Mailing, TellCheckpoints, Contexts
<1>4. CASE SendMail
  <2>1. PICK to \in 0 .. known - 1 : mail' = {[to |-> to, era |-> era, past |-> {past[i] : i \in DOMAIN past \cap {to}}]}
    BY <1>4 DEF SendMail
  <2>2. to \in Nat /\ era \in Nat
    BY <1>0 DEF Mailing
  <2>3. {past[i] : i \in DOMAIN past \cap {to}} \subseteq Seq(Messages)
    BY <1>0 DEF Mailing
  <2>4. mail' \subseteq Mails
    BY <2>1, <2>2, <2>3 DEF Mails
  <2> QED
    BY <1>0, <1>4, <2>4 DEF Mailing, SendMail
<1>5. CASE Rejected \/ TurnBack
  BY <1>0, <1>5 DEF Mailing, Rejected, TurnBack
<1>6. CASE Crash
  <2>1. past' = <<>> /\ mail' = {} /\ aim' = {} /\ known' = 0 /\ era' = 0
    BY <1>6 DEF Crash
  <2> QED
    BY <2>1 DEF Mailing
<1>7. CASE Restart
  <2>1. \A id \in Marks(file) : Restored(Kept(file, id)).hist \in Seq(Messages)
    BY <1>0, KeptType, RestoredType DEF Contexts
  <2>2. past' = [id \in Marks(file) |-> Restored(Kept(file, id)).hist] /\ Marks(file) \subseteq Nat
    BY <1>0, <1>7, MarksAre DEF Restart
  <2>3. DOMAIN past' \subseteq Nat /\ \A id \in DOMAIN past' : past'[id] \in Seq(Messages)
    BY <2>1, <2>2
  <2> QED
    BY <1>0, <1>7, <2>3 DEF Mailing, Restart
<1>8. CASE GrowRuns \/ Prompt \/ OpenTurn \/ ClearCommand \/ BeginLoop \/ CommandDone \/ CompactCommand \/ Overflow
           \/ Rebuild \/ BeginStep \/ Inject \/ Answer \/ ToolsEnd \/ Resolve \/ Consume \/ NextStep \/ Return \/ Steer
           \/ UNCHANGED vars
  <2>1. UNCHANGED <<denwa, past, era>>
    BY <1>8 DEF GrowRuns, Prompt, OpenTurn, ClearCommand, BeginLoop, CommandDone, CompactCommand, Overflow, Rebuild, BeginStep,
       Inject, Answer, ToolsEnd, Resolve, Consume, NextStep, Return, Steer, vars
  <2> QED
    BY <1>0, <2>1 DEF Mailing
<1> QED
  BY <1>1, <1>2, <1>3, <1>4, <1>5, <1>6, <1>7, <1>8, <1>9 DEF Next

LEMMA TypedStep == Typed /\ [Next]_vars => Typed'
BY FlagsStep, CountsStep, AnsweredStep, DataStep, MailingStep DEF Typed

\* Every variable keeps its type: jobs, files and histories are sequences of what they say.
THEOREM TypeCorrect == Spec => []TypeOK
BY TypedInit, TypedStep, TypedMeansTypeOK, PTL DEF Spec

-----------------------------------------------------------------------------
(* What a job is: instructions that were planned together, each "say" and  *)
(* each "count" with the write it owes, after one under way if any.        *)

Op(j)  == IF j = <<>> THEN "none" ELSE Head(j).op
Due(j) == IF Op(j) = "put" THEN Head(j).ms ELSE <<>>

Owed(do) == Put(IF do.op = "say" THEN do.ms ELSE <<Usage>>)

Planned(j) ==
    /\ j \in Seq(Instrs)
    /\ \A i \in 1 .. Len(j) :
          /\ j[i].op \in {"say", "put", "count", "mark", "clear"}
          /\ j[i].op \in {"say", "count"} => i + 1 \in 1 .. Len(j) /\ j[i + 1] = Owed(j[i])
          /\ j[i].op = "put" => i - 1 \in 1 .. Len(j) /\ j[i - 1].op \in {"say", "count"}

Started(j) == j # <<>> /\ Head(j).op \in {"put", "wipe", "load", "revert"} /\ Planned(Tail(j))

LEMMA OwedIsPut == ASSUME NEW do PROVE Owed(do).op = "put"
BY DEF Owed, Put

\* What is left of a plan after any instruction but a "say" or a "count" is a plan.
LEMMA PlannedFrom ==
  ASSUME NEW j, Planned(j), NEW k \in 0 .. Len(j), k < Len(j) => j[k + 1].op # "put",
         NEW u \in Seq(Instrs), Len(u) = Len(j) - k, \A i \in 1 .. Len(j) - k : u[i] = j[i + k]
  PROVE  Planned(u)
<1>0. Len(j) \in Nat
  BY DEF Planned
<1>1. ASSUME NEW i \in 1 .. Len(u)
      PROVE  /\ u[i].op \in {"say", "put", "count", "mark", "clear"}
             /\ u[i].op \in {"say", "count"} => i + 1 \in 1 .. Len(u) /\ u[i + 1] = Owed(u[i])
             /\ u[i].op = "put" => i - 1 \in 1 .. Len(u) /\ u[i - 1].op \in {"say", "count"}
  <2>1. i + k \in 1 .. Len(j) /\ u[i] = j[i + k] /\ i \in Nat /\ k \in Nat
    BY <1>0
  <2>2. u[i].op \in {"say", "put", "count", "mark", "clear"}
    BY <2>1 DEF Planned
  <2>3. ASSUME u[i].op \in {"say", "count"} PROVE i + 1 \in 1 .. Len(u) /\ u[i + 1] = Owed(u[i])
    <3>1. (i + k) + 1 \in 1 .. Len(j) /\ j[(i + k) + 1] = Owed(j[i + k])
      BY <2>1, <2>3 DEF Planned
    <3>2. i + 1 \in 1 .. Len(u) /\ (i + k) + 1 = (i + 1) + k
      BY <1>0, <2>1, <3>1
    <3>3. u[i + 1] = j[(i + 1) + k]
      BY <3>2
    <3> QED
      BY <2>1, <3>1, <3>2, <3>3
  <2>4. ASSUME u[i].op = "put" PROVE i - 1 \in 1 .. Len(u) /\ u[i - 1].op \in {"say", "count"}
    <3>1. j[(i + k) - 1].op \in {"say", "count"}
      BY <2>1, <2>4 DEF Planned
    <3>2. i # 1
      <4>1. i = 1 => k < Len(j) /\ u[i] = j[k + 1]
        BY <1>0, <2>1
      <4> QED
        BY <2>4, <4>1
    <3>3. i - 1 \in 1 .. Len(u) /\ (i - 1) + k = (i + k) - 1
      BY <1>0, <2>1, <3>2
    <3>4. u[i - 1] = j[(i - 1) + k]
      BY <3>3
    <3> QED
      BY <3>1, <3>3, <3>4
  <2> QED
    BY <2>2, <2>3, <2>4
<1> QED
  BY <1>1 DEF Planned

\* A plan begins with an instruction of its own, and goes on with a plan or the write owed.
LEMMA PlannedRest ==
  ASSUME NEW j, j # <<>>, Planned(j)
  PROVE  /\ Head(j).op \in {"say", "count", "mark", "clear"} /\ Head(j) \in Instrs /\ Tail(j) \in Seq(Instrs)
         /\ Head(j).op \in {"mark", "clear"} => Planned(Tail(j))
         /\ Head(j).op \in {"say", "count"} => Started(Tail(j)) /\ Head(Tail(j)) = Owed(Head(j))
<1>0. j \in Seq(Instrs)
  BY DEF Planned
<1> DEFINE t == Tail(j)
<1>1. /\ Head(j) \in Instrs /\ t \in Seq(Instrs) /\ Len(j) \in Nat \ {0} /\ Len(t) = Len(j) - 1
      /\ \A i \in 1 .. Len(j) - 1 : t[i] = j[i + 1]
      /\ Head(j) = j[1]
  BY <1>0, HeadTail
<1> HIDE DEF t
<1>2. /\ j[1].op \in {"say", "put", "count", "mark", "clear"}
      /\ j[1].op \in {"say", "count"} => 1 + 1 \in 1 .. Len(j) /\ j[1 + 1] = Owed(j[1])
      /\ j[1].op = "put" => 1 - 1 \in 1 .. Len(j)
  BY <1>1 DEF Planned
<1>3. j[1].op # "put"
  BY <1>1, <1>2
<1>4. ASSUME Head(j).op \in {"mark", "clear"} PROVE Planned(t)
  <2>1. ASSUME 1 < Len(j), j[1 + 1].op = "put" PROVE FALSE
    <3>1. 1 + 1 \in 1 .. Len(j) /\ (1 + 1) - 1 = 1
      BY <1>1, <2>1
    <3>2. j[1].op \in {"say", "count"}
      BY <2>1, <3>1 DEF Planned
    <3> QED
      BY <1>1, <1>4, <3>2
  <2>2. 1 \in 0 .. Len(j)
    BY <1>1
  <2> QED
    BY <1>1, <2>1, <2>2, PlannedFrom
<1>5. ASSUME Head(j).op \in {"say", "count"} PROVE Started(t) /\ Head(t) = Owed(Head(j))
  <2>1. 2 \in 1 .. Len(j) /\ j[2] = Owed(j[1])
    BY <1>1, <1>2, <1>5
  <2>2. t # <<>> /\ t[1] = j[2]
    BY <1>1, <2>1
  <2> DEFINE u == Tail(t)
  <2>3. /\ Head(t) = t[1] /\ u \in Seq(Instrs) /\ Len(u) = Len(t) - 1 /\ \A i \in 1 .. Len(t) - 1 : u[i] = t[i + 1]
    BY <1>1, <2>2, HeadTail
  <2>4. Head(t) = Owed(Head(j)) /\ Head(t).op = "put"
    BY <1>1, <2>1, <2>2, <2>3, OwedIsPut
  <2> HIDE DEF u
  <2>5. Len(u) = Len(j) - 2 /\ \A i \in 1 .. Len(j) - 2 : u[i] = j[i + 2]
    <3>1. \A i \in 1 .. Len(j) - 2 : i \in 1 .. Len(t) - 1 /\ i + 1 \in 1 .. Len(j) - 1 /\ (i + 1) + 1 = i + 2
      BY <1>1
    <3> QED
      BY <1>1, <2>3, <3>1
  <2>6. ASSUME 2 < Len(j), j[2 + 1].op = "put" PROVE FALSE
    <3>1. 2 + 1 \in 1 .. Len(j) /\ (2 + 1) - 1 = 2
      BY <1>1, <2>6
    <3>2. j[2].op \in {"say", "count"}
      BY <2>6, <3>1 DEF Planned
    <3> QED
      BY <2>2, <2>3, <2>4, <3>2
  <2>7. 2 \in 0 .. Len(j)
    BY <1>1, <2>1
  <2>8. Planned(u)
    BY <2>3, <2>5, <2>6, <2>7, PlannedFrom
  <2> QED
    BY <2>2, <2>4, <2>8 DEF Started, u
<1> QED
  BY <1>1, <1>2, <1>3, <1>4, <1>5 DEF t

LEMMA PlannedJoined ==
  ASSUME NEW a, NEW b, Planned(a), Planned(b)
  PROVE  Planned(a \o b)
<1> DEFINE j == a \o b
<1> DEFINE n == Len(a)
<1>1. /\ j \in Seq(Instrs) /\ n \in Nat /\ Len(b) \in Nat /\ Len(j) = n + Len(b)
      /\ \A i \in 1 .. n : i \in 1 .. Len(j) /\ j[i] = a[i]
      /\ \A i \in 1 .. Len(b) : i + n \in 1 .. Len(j) /\ j[i + n] = b[i]
      /\ \A i \in 1 .. Len(j) : i \in 1 .. n \/ i - n \in 1 .. Len(b)
  <2>1. a \in Seq(Instrs) /\ b \in Seq(Instrs)
    BY DEF Planned
  <2> QED
    BY <2>1
<1> HIDE DEF j, n
<1>2. ASSUME NEW i \in 1 .. Len(j)
      PROVE  /\ j[i].op \in {"say", "put", "count", "mark", "clear"}
             /\ j[i].op \in {"say", "count"} => i + 1 \in 1 .. Len(j) /\ j[i + 1] = Owed(j[i])
             /\ j[i].op = "put" => i - 1 \in 1 .. Len(j) /\ j[i - 1].op \in {"say", "count"}
  <2>1. CASE i \in 1 .. n
    <3>1. j[i] = a[i] /\ i \in 1 .. Len(a)
      BY <1>1, <2>1 DEF n
    <3>2. /\ a[i].op \in {"say", "put", "count", "mark", "clear"}
          /\ a[i].op \in {"say", "count"} => i + 1 \in 1 .. n /\ a[i + 1] = Owed(a[i])
          /\ a[i].op = "put" => i - 1 \in 1 .. n /\ a[i - 1].op \in {"say", "count"}
      BY <3>1 DEF Planned, n
    <3> QED
      BY <1>1, <3>1, <3>2
  <2>2. CASE i - n \in 1 .. Len(b)
    <3>1. j[(i - n) + n] = b[i - n] /\ (i - n) + n = i
      BY <1>1, <2>2
    <3>2. /\ b[i - n].op \in {"say", "put", "count", "mark", "clear"}
          /\ b[i - n].op \in {"say", "count"} => (i - n) + 1 \in 1 .. Len(b) /\ b[(i - n) + 1] = Owed(b[i - n])
          /\ b[i - n].op = "put" => (i - n) - 1 \in 1 .. Len(b) /\ b[(i - n) - 1].op \in {"say", "count"}
      BY <2>2 DEF Planned
    <3>3. ((i - n) + 1) + n = i + 1 /\ ((i - n) - 1) + n = i - 1
      BY <1>1
    <3>4. j[i].op \in {"say", "count"} => i + 1 \in 1 .. Len(j) /\ j[i + 1] = Owed(j[i])
      BY <1>1, <3>1, <3>2, <3>3
    <3>5. j[i].op = "put" => i - 1 \in 1 .. Len(j) /\ j[i - 1].op \in {"say", "count"}
      BY <1>1, <3>1, <3>2, <3>3
    <3> QED
      BY <3>1, <3>2, <3>4, <3>5
  <2> QED
    BY <1>1, <2>1, <2>2
<1> QED
  BY <1>1, <1>2 DEF Planned, j

LEMMA PlannedBlocks ==
  /\ Planned(<<>>) /\ Planned(Count) /\ Planned(Checkpoint) /\ Planned(Clear)
  /\ \A ms \in Seq(Messages) : Planned(Say(ms))
<1>1. Planned(<<>>)
  BY NoInstrs DEF Planned
<1>0. \A j : /\ j \in Seq(Instrs) /\ Len(j) = 2 /\ j[1].op \in {"say", "count"} /\ j[2] = Owed(j[1])
            => Planned(j)
  <2> SUFFICES ASSUME NEW j \in Seq(Instrs), Len(j) = 2, j[1].op \in {"say", "count"}, j[2] = Owed(j[1])
               PROVE  Planned(j)
    OBVIOUS
  <2>1. 1 .. Len(j) = {1, 2} /\ 1 + 1 = 2 /\ 2 - 1 = 1
    OBVIOUS
  <2>2. j[2].op = "put"
    BY OwedIsPut
  <2> QED
    BY <2>1, <2>2 DEF Planned
<1>2. Planned(Count)
  BY <1>0, CountInstrs DEF Owed
<1>3. Planned(Checkpoint) /\ Planned(Clear)
  <2>1. Len(Checkpoint) = 1 /\ Len(Clear) = 1 /\ Checkpoint[1].op = "mark" /\ Clear[1].op = "clear"
    BY DEF Checkpoint, Clear
  <2>2. \A i \in 1 .. 1 : i = 1
    OBVIOUS
  <2>3. Checkpoint \in Seq(Instrs) /\ Clear \in Seq(Instrs)
    BY MoreInstrs
  <2> HIDE DEF Checkpoint, Clear
  <2>4. Planned(Checkpoint)
    BY <2>1, <2>2, <2>3 DEF Planned
  <2>5. Planned(Clear)
    BY <2>1, <2>2, <2>3 DEF Planned
  <2> QED
    BY <2>4, <2>5
<1>4. ASSUME NEW ms \in Seq(Messages) PROVE Planned(Say(ms))
  <2>1. /\ Say(ms) \in Seq(Instrs) /\ Len(Say(ms)) = 2
        /\ Say(ms)[1] = [op |-> "say", ms |-> ms] /\ Say(ms)[2] = Put(ms)
    BY SayInstrs
  <2>2. Say(ms)[1].op = "say" /\ Say(ms)[1].ms = ms
    BY <2>1
  <2>3. Say(ms)[2] = Owed(Say(ms)[1])
    BY <2>1, <2>2 DEF Owed
  <2> HIDE DEF Say
  <2> QED
    BY <1>0, <2>1, <2>2, <2>3
<1> QED
  BY <1>1, <1>2, <1>3, <1>4

LEMMA StartedIs ==
  ASSUME NEW do \in Instrs, NEW a, do.op \in {"put", "wipe", "load", "revert"}, Planned(a)
  PROVE  /\ Started(<<do>> \o a) /\ Head(<<do>> \o a) = do /\ Op(<<do>> \o a) = do.op /\ <<do>> \o a # <<>>
<1>1. a \in Seq(Instrs)
  BY DEF Planned
<1>2. <<do>> \o a # <<>> /\ Head(<<do>> \o a) = do /\ Tail(<<do>> \o a) = a
  BY <1>1
<1> QED
  BY <1>2 DEF Started, Op

-----------------------------------------------------------------------------
(* The turn's job and the shielded one are under way together only in a    *)
(* torn run.                                                               *)

Quiescent ==
    /\ pc \in {"idle", "prompt", "down", "growing"} => job = <<>>
    /\ pc = "down" => grow = <<>>
    /\ ~torn /\ grow # <<>> => pc \in {"growing", "idle"}

LEMMA QuiescentStep == Quiescent /\ [Next]_vars => Quiescent'
<1> SUFFICES ASSUME Quiescent, [Next]_vars PROVE Quiescent'
  OBVIOUS
<1> USE DEF context, seen, soul, denwa, At, Grown, Quiescent
<1>1. CASE TurnRuns \/ Prompt \/ OpenTurn \/ ClearCommand
  BY <1>1 DEF TurnRuns, Prompt, OpenTurn, ClearCommand
<1>2. CASE GrowRuns
  BY <1>2 DEF GrowRuns
<1>3. CASE BeginLoop \/ EndRun \/ CommandDone \/ Raise \/ TurnBackFails \/ ConsumeFails
  BY <1>3 DEF BeginLoop, EndRun, CommandDone, Raise, TurnBackFails, ConsumeFails, Ends
<1>4. CASE CompactCommand \/ Rebuild \/ BeginStep \/ Overflow
  BY <1>4 DEF CompactCommand, Rebuild, BeginStep, Overflow, Compact
<1>5. CASE TellCheckpoints \/ Inject \/ Answer \/ SendMail \/ ToolsEnd
  BY <1>5 DEF TellCheckpoints, Inject, Answer, SendMail, ToolsEnd
<1>6. CASE Rejected \/ TurnBack \/ Resolve \/ Consume \/ NextStep \/ Return \/ Steer
  BY <1>6 DEF Rejected, TurnBack, Resolve, Consume, NextStep, Return, Steer
<1>7. CASE Cancel
  BY <1>7 DEF Cancel, Ends
<1>8. CASE Crash \/ Restart \/ UNCHANGED vars
  BY <1>8 DEF Crash, Restart, vars
<1>9. CASE WriteFails
  BY <1>9, FailureIs DEF Ends
<1>10. CASE GrowFails
  <2>1. torn' = TRUE /\ grow' = <<>> /\ job' = job
    BY <1>10, FailureIs
  <2>2. pc' = pc \/ (pc = "growing" /\ pc' = "idle")
    BY <1>10 DEF GrowFails, Ends
  <2> QED
    BY <2>1, <2>2
<1> QED
  BY <1>1, <1>2, <1>3, <1>4, <1>5, <1>6, <1>7, <1>8, <1>9, <1>10 DEF Next

LEMMA OpeningPlan == ASSUME NEW ms \in Seq(Messages) PROVE Planned(Checkpoint \o Say(ms))
<1>1. Planned(Checkpoint) /\ Planned(Say(ms))
  BY PlannedBlocks
<1> QED
  BY <1>1, PlannedJoined

\* The steps that run no instruction, cut none and fail in none begin a job, or leave it alone.
Begins ==
    /\ UNCHANGED <<ctx, file, past, era>>
    /\ torn => torn'
    /\ stray => stray'
    /\ \/ job' = job
       \/ job = <<>> /\ Planned(job')
       \/ TurnBack
    /\ grow' = grow \/ ToolsEnd

LEMMA Steps ==
  ASSUME Typed, Quiescent, [Next]_vars
  PROVE  TurnRuns \/ GrowRuns \/ WriteFails \/ GrowFails \/ Consume \/ Cancel \/ Crash \/ Restart \/ Begins
<1> USE DEF context, seen, soul, denwa, At
<1>0. serial \in Nat /\ draft \in Seq(Messages)
  BY DEF Typed, Counts, Data
<1>1. CASE Prompt \/ BeginLoop \/ CommandDone \/ EndRun \/ Raise \/ CompactCommand \/ Overflow
  BY <1>1 DEF Begins, Prompt, BeginLoop, CommandDone, EndRun, Raise, CompactCommand, Overflow
<1>2. CASE OpenTurn
  <2>1. <<<<"user", serial>>>> \in Seq(Messages)
    BY <1>0, OneMessage DEF Kinds
  <2>2. Planned(job')
    BY <1>2, <2>1, OpeningPlan DEF OpenTurn
  <2>3. job = <<>>
    BY <1>2 DEF OpenTurn, Quiescent
  <2> QED
    BY <1>2, <2>2, <2>3 DEF OpenTurn, Begins
<1>3. CASE ClearCommand
  BY <1>3, PlannedBlocks DEF ClearCommand, Begins, Quiescent
<1>4. CASE Rebuild
  <2>1. PICK tasks \in {<<>>, Say(<<<<"note", 0>>>>)}, last \in {<<>>, Checkpoint} : job' = Rebuilding(tasks, last)
    BY <1>4, RebuildIs
  <2>2. Planned(Say(draft)) /\ Planned(tasks) /\ Planned(last)
    BY <1>0, OneMessage, PlannedBlocks DEF Kinds
  <2>3. Planned(Clear \o Checkpoint \o Say(draft))
    BY <2>2, PlannedBlocks, PlannedJoined
  <2>4. Planned(Clear \o Checkpoint \o Say(draft) \o tasks \o Count)
    BY <2>2, <2>3, PlannedBlocks, PlannedJoined
  <2>5. Planned(job')
    BY <2>1, <2>2, <2>4, PlannedJoined DEF Rebuilding
  <2> QED
    BY <1>4, <2>5 DEF Rebuild, Begins
<1>5. CASE BeginStep
  BY <1>5, PlannedBlocks DEF BeginStep, Begins
<1>6. CASE Inject
  <2>1. Planned(Say(<<<<"note", 0>>>>))
    BY OneMessage, PlannedBlocks DEF Kinds
  <2> QED
    BY <1>6, <2>1 DEF Inject, Begins
<1>7. CASE Answer
  BY <1>7, PlannedBlocks DEF Answer, Begins
<1>8. CASE TurnBack
  BY <1>8 DEF TurnBack, Begins
<1>9. CASE TellCheckpoints \/ SendMail \/ ToolsEnd \/ Rejected \/ TurnBackFails \/ Resolve
  BY <1>9 DEF Begins, TellCheckpoints, SendMail, ToolsEnd, Rejected, TurnBackFails, Resolve
<1>10. CASE ConsumeFails \/ NextStep \/ Return \/ Steer \/ UNCHANGED vars
  BY <1>10 DEF Begins, ConsumeFails, NextStep, Return, Steer, vars
<1> QED
  BY <1>1, <1>2, <1>3, <1>4, <1>5, <1>6, <1>7, <1>8, <1>9, <1>10 DEF Next

-----------------------------------------------------------------------------
(* The jobs are plans, perhaps with one instruction under way.             *)

Written(ms) == ms \in Seq(Messages) \/ ms = <<Usage>>

JobOK ==
    \/ Planned(job)
    \/ /\ Started(job)
       /\ Op(job) = "put" => \/ Written(Head(job).ms)
                             \/ ctx.next > 0 /\ Head(job).ms = <<Line(ctx.next - 1)>>
       /\ Op(job) = "revert" => \E id \in Nat : Head(job).ms = <<Line(id)>>
GrowOK ==
    /\ Planned(grow) \/ Started(grow)
    /\ \A i \in DOMAIN grow : grow[i].op \in {"say", "put", "count"}
    /\ Op(grow) = "put" => Written(Head(grow).ms)
Works == Typed /\ Quiescent /\ JobOK /\ GrowOK

LEMMA PlannedOp ==
  ASSUME NEW j, Planned(j)
  PROVE  Op(j) \in {"none", "say", "count", "mark", "clear"} /\ Due(j) = <<>>
BY PlannedRest DEF Op, Due

LEMMA OwedWritten ==
  ASSUME NEW do \in Instrs
  PROVE  /\ Written(Owed(do).ms) /\ Owed(do).op = "put"
         /\ do.op = "say" => Owed(do).ms = do.ms /\ do.ms \in Seq(Messages)
         /\ do.op = "count" => Owed(do).ms = <<Usage>>
BY DEF Written, Owed, Put, Instrs

\* What an instruction of the turn does, and what is due after it.
LEMMA TurnRunsIs ==
  ASSUME Works, TurnRuns
  PROVE  /\ job # <<>> /\ Head(job) \in Instrs /\ Op(job) = Head(job).op /\ JobOK'
         /\ \/ /\ Op(job) = "say" /\ Due(job) = <<>>
               /\ Head(job).ms \in Seq(Messages) /\ ctx' = Said(ctx, Head(job).ms) /\ file' = file
               /\ Op(job') = "put" /\ Due(job') = Head(job).ms
            \/ /\ Op(job) = "count" /\ Due(job) = <<>>
               /\ ctx' = [ctx EXCEPT !.pend = 0] /\ file' = file
               /\ Op(job') = "put" /\ Due(job') = <<Usage>>
            \/ /\ Op(job) = "mark" /\ Due(job) = <<>>
               /\ ctx' = [ctx EXCEPT !.next = @ + 1] /\ file' = file
               /\ Op(job') = "put" /\ Due(job') = <<Line(ctx.next)>>
            \/ /\ Op(job) = "put" /\ ctx' = ctx /\ file' = file \o Due(job) /\ Planned(job')
            \/ /\ Op(job) = "clear" /\ Due(job) = <<>> /\ ctx' = ctx /\ file' = <<>>
               /\ Op(job') = "wipe" /\ Due(job') = <<>>
            \/ /\ Op(job) = "wipe" /\ ctx' = Empty /\ file' = file /\ Planned(job')
            \/ /\ Op(job) = "revert" /\ Due(job) = <<>> /\ ctx' = ctx /\ file' = <<>>
               /\ Op(job') = "load" /\ Due(job') = <<>>
               /\ \E id \in Nat : Head(job).ms = <<Line(id)>> /\ Head(job').ms = Kept(file, id)
            \/ /\ Op(job) = "load" /\ ctx' = Restored(Head(job).ms) /\ file' = Head(job).ms /\ Planned(job')
<1> DEFINE do == Head(job)
<1>0. /\ job # <<>> /\ do \in Instrs /\ Tail(job) \in Seq(Instrs) /\ Op(job) = do.op
      /\ ctx \in Contexts /\ ctx.next \in Nat /\ file \in Seq(Lines) /\ do.ms \in Seq(Lines)
  <2>1. job # <<>> /\ job \in Seq(Instrs)
    BY DEF TurnRuns, Works, Typed, Data
  <2>2. do \in Instrs /\ Tail(job) \in Seq(Instrs)
    BY <2>1, HeadTail
  <2> QED
    BY <2>1, <2>2 DEF Op, Works, Typed, Data, Contexts, Instrs
<1>1. ctx' = Effect(do).ctx /\ file' = Effect(do).file /\ job' = Effect(do).more \o Tail(job)
  BY DEF TurnRuns
<1>2. \A j \in Seq(Instrs) : <<>> \o j = j
  OBVIOUS
<1>3. CASE Planned(job)
  <2>1. /\ do.op \in {"say", "count", "mark", "clear"} /\ Due(job) = <<>>
        /\ do.op \in {"mark", "clear"} => Planned(Tail(job))
        /\ do.op \in {"say", "count"} => Started(Tail(job)) /\ Head(Tail(job)) = Owed(do)
    BY <1>0, <1>3, PlannedRest, PlannedOp
  <2>2. CASE do.op \in {"say", "count"}
    <3>1. job' = Tail(job)
      BY <1>0, <1>1, <1>2, <2>2, EffectIs
    <3>2. Started(job') /\ Head(job') = Owed(do) /\ job' # <<>>
      BY <2>1, <2>2, <3>1 DEF Started
    <3>3. Op(job') = "put" /\ Due(job') = Owed(do).ms
      BY <1>0, <3>2, OwedWritten DEF Op, Due
    <3>4. JobOK'
      BY <1>0, <3>2, <3>3, OwedWritten DEF JobOK
    <3> QED
      BY <1>0, <1>1, <2>1, <2>2, <3>3, <3>4, EffectIs, OwedWritten
  <2>3. CASE do.op = "mark"
    <3> DEFINE put == Put(<<Line(ctx.next)>>)
    <3> DEFINE rest == Say(<<<<"mark", ctx.next>>>>) \o Tail(job)
    <3>1. put \in Instrs /\ put.op = "put" /\ put.ms = <<Line(ctx.next)>>
      BY <1>0, MarksOfLine DEF Instrs, Ops, Put
    <3>2. Planned(rest)
      <4>1. <<<<"mark", ctx.next>>>> \in Seq(Messages)
        BY <1>0, OneMessage DEF Kinds
      <4> QED
        BY <2>1, <2>3, <4>1, PlannedBlocks, PlannedJoined
    <3>3. job' = <<put>> \o rest
      <4>1. Effect(do).more = <<put>> \o Say(<<<<"mark", ctx.next>>>>)
        BY <2>3, EffectIs
      <4>2. Say(<<<<"mark", ctx.next>>>>) \in Seq(Instrs)
        BY <1>0, OneMessage, SayInstrs DEF Kinds
      <4>3. \A a, b \in Seq(Instrs) : (<<put>> \o a) \o b = <<put>> \o (a \o b)
        BY <3>1
      <4> QED
        BY <1>0, <1>1, <4>1, <4>2, <4>3
    <3> HIDE DEF put, rest
    <3>4. Started(job') /\ Head(job') = put /\ Op(job') = "put" /\ job' # <<>>
      BY <3>1, <3>2, <3>3, StartedIs
    <3>5. Due(job') = <<Line(ctx.next)>>
      BY <3>1, <3>4 DEF Due
    <3>6. ctx' = [ctx EXCEPT !.next = @ + 1] /\ file' = file
      BY <1>1, <2>3, EffectIs
    <3>7. ctx'.next > 0 /\ ctx'.next - 1 = ctx.next
      BY <1>0, <3>6 DEF Contexts
    <3>8. JobOK'
      BY <3>1, <3>4, <3>7 DEF JobOK
    <3> QED
      BY <1>0, <2>1, <2>3, <3>4, <3>5, <3>6, <3>8
  <2>4. CASE do.op = "clear"
    <3> DEFINE wipe == [op |-> "wipe", ms |-> <<>>]
    <3>1. wipe \in Instrs /\ wipe.op = "wipe"
      BY EmptySeq DEF Instrs, Ops
    <3>2. ctx' = ctx /\ file' = <<>> /\ job' = <<wipe>> \o Tail(job)
      BY <1>1, <2>4, EffectIs
    <3> HIDE DEF wipe
    <3>3. Started(job') /\ Head(job') = wipe /\ Op(job') = "wipe" /\ job' # <<>>
      BY <2>1, <2>4, <3>1, <3>2, StartedIs
    <3>4. Due(job') = <<>> /\ JobOK'
      BY <3>1, <3>3 DEF JobOK, Due
    <3> QED
      BY <1>0, <2>1, <2>4, <3>2, <3>3, <3>4
  <2> QED
    BY <2>1, <2>2, <2>3, <2>4
<1>4. CASE /\ Started(job)
           /\ Op(job) = "revert" => \E id \in Nat : do.ms = <<Line(id)>>
  <2>1. do.op \in {"put", "wipe", "load", "revert"} /\ Planned(Tail(job))
    BY <1>4 DEF Started
  <2>2. CASE do.op \in {"put", "wipe", "load"}
    <3>1. job' = Tail(job)
      BY <1>0, <1>1, <1>2, <2>2, EffectIs
    <3>2. Planned(job') /\ JobOK'
      BY <2>1, <3>1 DEF JobOK
    <3>3. do.op = "put" => Due(job) = do.ms
      BY <1>0 DEF Due
    <3> QED
      BY <1>0, <1>1, <2>2, <3>2, <3>3, EffectIs
  <2>3. CASE do.op = "revert"
    <3>1. PICK id \in Nat : do.ms = <<Line(id)>>
      BY <1>0, <1>4, <2>3
    <3>2. do.ms[1][2] = id
      BY <3>1 DEF Line
    <3> DEFINE load == [op |-> "load", ms |-> Kept(file, id)]
    <3>3. load \in Instrs /\ load.op = "load" /\ load.ms = Kept(file, id)
      BY <1>0, KeptType DEF Instrs, Ops
    <3>4. ctx' = ctx /\ file' = <<>> /\ job' = <<load>> \o Tail(job)
      BY <1>1, <2>3, <3>2, EffectIs
    <3> HIDE DEF load
    <3>5. Started(job') /\ Head(job') = load /\ Op(job') = "load" /\ job' # <<>>
      BY <2>1, <3>3, <3>4, StartedIs
    <3>6. Due(job') = <<>> /\ JobOK'
      BY <3>3, <3>5 DEF JobOK, Due
    <3>7. Due(job) = <<>>
      BY <1>0, <2>3 DEF Due
    <3> QED
      BY <1>0, <2>3, <3>1, <3>3, <3>4, <3>5, <3>6, <3>7
  <2> QED
    BY <2>1, <2>2, <2>3
<1> QED
  BY <1>3, <1>4 DEF Works, JobOK

\* What an instruction of the shielded _grow_context does, and what is due after it.
LEMMA GrowRunsIs ==
  ASSUME Works, GrowRuns
  PROVE  /\ grow # <<>> /\ GrowOK' /\ ctx'.next = ctx.next
         /\ \/ /\ Op(grow) = "say" /\ Due(grow) = <<>>
               /\ Head(grow).ms \in Seq(Messages) /\ ctx' = Said(ctx, Head(grow).ms) /\ file' = file
               /\ Due(grow') = Head(grow).ms
            \/ /\ Op(grow) = "count" /\ Due(grow) = <<>>
               /\ ctx' = [ctx EXCEPT !.pend = 0] /\ file' = file /\ Due(grow') = <<Usage>>
            \/ /\ Op(grow) = "put" /\ Written(Due(grow))
               /\ ctx' = ctx /\ file' = file \o Due(grow) /\ Due(grow') = <<>>
<1> DEFINE do == Head(grow)
<1>0. /\ grow # <<>> /\ do \in Instrs /\ Op(grow) = do.op /\ grow' = Tail(grow) /\ ctx \in Contexts
      /\ do.op \in {"say", "put", "count"}
      /\ \A i \in DOMAIN grow' : grow'[i].op \in {"say", "put", "count"}
  <2>1. grow # <<>> /\ grow \in Seq(Instrs) /\ grow' = Tail(grow)
    BY DEF GrowRuns, Works, Typed, Data
  <2>2. /\ do \in Instrs /\ do = grow[1] /\ Tail(grow) \in Seq(Instrs) /\ Len(grow) \in Nat \ {0}
        /\ Len(Tail(grow)) = Len(grow) - 1 /\ \A i \in 1 .. Len(grow) - 1 : Tail(grow)[i] = grow[i + 1]
    BY <2>1, HeadTail
  <2>3. \A i \in 1 .. Len(grow) : grow[i].op \in {"say", "put", "count"}
    BY <2>1 DEF Works, GrowOK
  <2>4. \A i \in 1 .. Len(grow) - 1 : i + 1 \in 1 .. Len(grow)
    BY <2>2
  <2>5. DOMAIN grow' = 1 .. Len(grow) - 1 /\ 1 \in 1 .. Len(grow)
    BY <2>1, <2>2
  <2> QED
    BY <2>1, <2>2, <2>3, <2>4, <2>5 DEF Op, Works, Typed, Data
<1>1. ctx' = Effect(do).ctx /\ file' = Effect(do).file
  BY DEF GrowRuns
<1>2. CASE do.op \in {"say", "count"}
  <2>1. Planned(grow)
    BY <1>0, <1>2 DEF Works, GrowOK, Started
  <2>2. Due(grow) = <<>> /\ Started(grow') /\ Head(grow') = Owed(do) /\ grow' # <<>>
    BY <1>0, <1>2, <2>1, PlannedRest, PlannedOp DEF Started
  <2>3. Op(grow') = "put" /\ Due(grow') = Owed(do).ms
    BY <1>0, <2>2, OwedWritten DEF Op, Due
  <2>4. GrowOK'
    BY <1>0, <2>2, <2>3, OwedWritten DEF GrowOK
  <2>5. ctx'.next = ctx.next
    <3>1. CASE do.op = "say"
      <4>1. ctx' = Said(ctx, do.ms) /\ do.ms \in Seq(Messages)
        BY <1>0, <1>1, <3>1, EffectIs, OwedWritten
      <4> QED
        BY <1>0, <4>1, SaidIs
    <3>2. CASE do.op = "count"
      <4>1. ctx' = [ctx EXCEPT !.pend = 0]
        BY <1>1, <3>2, EffectIs
      <4> QED
        BY <1>0, <4>1 DEF Contexts
    <3> QED
      BY <1>2, <3>1, <3>2
  <2> QED
    BY <1>0, <1>1, <1>2, <2>2, <2>3, <2>4, <2>5, EffectIs, OwedWritten
<1>3. CASE do.op = "put"
  <2>1. Planned(grow')
    BY <1>0, <1>3, PlannedRest DEF Works, GrowOK, Started
  <2>2. Due(grow) = do.ms /\ Written(do.ms) /\ Due(grow') = <<>> /\ Op(grow') # "put"
    BY <1>0, <1>3, <2>1, PlannedOp DEF Works, GrowOK, Due
  <2>3. GrowOK'
    BY <1>0, <2>1, <2>2 DEF GrowOK
  <2>4. ctx' = ctx /\ file' = file \o do.ms
    BY <1>1, <1>3, EffectIs
  <2> QED
    BY <1>0, <1>3, <2>2, <2>3, <2>4
<1> QED
  BY <1>0, <1>2, <1>3

LEMMA GrowthPlanned ==
  ASSUME NEW r \in {"call", "text"} \X Nat
  PROVE  /\ Planned(Growth(r)) /\ \A i \in DOMAIN Growth(r) : Growth(r)[i].op \in {"say", "put", "count"}
<1>1. r[1] \in Kinds /\ r[2] \in Nat /\ r = <<r[1], r[2]>>
  BY DEF Kinds
<1>2. <<r>> \in Seq(Messages) /\ <<<<"result", r[2]>>>> \in Seq(Messages)
  BY <1>1, OneMessage DEF Kinds
<1>3. Planned(Say(<<r>>)) /\ Planned(Say(<<<<"result", r[2]>>>>)) /\ Planned(Count) /\ Planned(<<>>)
  BY <1>2, PlannedBlocks
<1>4. Planned(Say(<<r>>) \o Count)
  BY <1>3, PlannedJoined
<1>5. Planned(Growth(r))
  BY <1>3, <1>4, PlannedJoined DEF Growth
<1> DEFINE Light(j) == \A i \in DOMAIN j : j[i].op \in {"say", "put", "count"}
<1>6. ASSUME NEW a \in Seq(Instrs), NEW b \in Seq(Instrs), Light(a), Light(b) PROVE Light(a \o b)
  BY <1>6
<1>7. \A ms : Light(Say(ms))
  BY DEF Say
<1>8. Light(Count) /\ Light(<<>>)
  BY DEF Count
<1> HIDE DEF Light
<1>9. Light(Say(<<r>>) \o Count)
  BY <1>3, <1>6, <1>7, <1>8 DEF Planned
<1>10. Light(Growth(r))
  BY <1>3, <1>4, <1>6, <1>7, <1>8, <1>9 DEF Planned, Growth
<1> QED
  BY <1>5, <1>10 DEF Light

LEMMA RevertPlan ==
  ASSUME NEW id \in Nat, NEW ms \in Seq(Messages), NEW j, j = RevertTo(id) \o Checkpoint \o Say(ms)
  PROVE  Started(j) /\ Op(j) = "revert" /\ Head(j).ms = <<Line(id)>>
<1> DEFINE do == [op |-> "revert", ms |-> <<Line(id)>>]
<1>1. do \in Instrs /\ do.op = "revert" /\ do.ms = <<Line(id)>>
  BY MarksOfLine DEF Instrs, Ops
<1>2. Checkpoint \in Seq(Instrs) /\ Say(ms) \in Seq(Instrs)
  BY MoreInstrs, SayInstrs
<1> HIDE DEF do
<1>3. \A a, b \in Seq(Instrs) : (<<do>> \o a) \o b = <<do>> \o (a \o b)
  BY <1>1
<1>4. j = <<do>> \o (Checkpoint \o Say(ms))
  BY <1>2, <1>3 DEF RevertTo, do
<1> QED
  BY <1>1, <1>4, OpeningPlan, StartedIs

LEMMA TurnBackPlan ==
  ASSUME Typed, TurnBack
  PROVE  /\ job = <<>> /\ Started(job') /\ Op(job') = "revert" /\ Due(job') = <<>>
         /\ \E m \in mail : m.to \in Nat /\ Head(job').ms = <<Line(m.to)>>
<1>1. PICK m \in mail : job' = RevertTo(m.to) \o Checkpoint \o Say(<<<<"mail", serial>>>>)
  BY DEF TurnBack
<1>2. m.to \in Nat /\ <<<<"mail", serial>>>> \in Seq(Messages)
  BY <1>1, OneMessage DEF Typed, Mailing, Mails, Counts, Kinds
<1>3. Started(job') /\ Op(job') = "revert" /\ Head(job').ms = <<Line(m.to)>>
  BY <1>1, <1>2, RevertPlan
<1> QED
  BY <1>2, <1>3 DEF TurnBack, Grown, At, Due

LEMMA ConsumePlan ==
  ASSUME Typed, Consume
  PROVE  \E m \in Messages : /\ ctx' = Said(ctx, <<m>>) /\ job = <<>> /\ Started(job') /\ Op(job') = "put"
                             /\ Due(job') = <<m>> /\ Head(job').ms = <<m>> /\ m[1] = "steer"
<1> DEFINE m == <<"steer", Head(queue)>>
<1>1. Head(queue) \in Nat
  BY HeadTail DEF Consume, Typed, Counts
<1>2. m \in Messages /\ <<m>> \in Seq(Messages) /\ m[1] = "steer"
  BY <1>1, OneMessage DEF Kinds
<1> DEFINE do == [op |-> "put", ms |-> <<m>>]
<1>3. do \in Instrs /\ do.op = "put" /\ do.ms = <<m>>
  BY <1>2, MessagesAreLines DEF Instrs, Ops
<1>4. ctx' = Said(ctx, <<m>>) /\ job' = <<do>> /\ job = <<>>
  BY DEF Consume, At
<1> HIDE DEF m, do
<1>5. <<do>> # <<>> /\ Head(<<do>>) = do /\ Tail(<<do>>) = <<>>
  OBVIOUS
<1>6. Started(job') /\ Head(job') = do /\ Op(job') = "put" /\ job' # <<>>
  BY <1>3, <1>4, <1>5, PlannedBlocks DEF Started, Op
<1>7. Due(job') = <<m>>
  BY <1>3, <1>6 DEF Due
<1> QED
  BY <1>2, <1>3, <1>4, <1>6, <1>7

LEMMA WorksInit == Init => Works
<1> SUFFICES ASSUME Init PROVE Works
  OBVIOUS
<1>1. job = <<>> /\ grow = <<>> /\ pc = "idle"
  BY DEF Init
<1>2. Op(grow) = "none"
  BY <1>1 DEF Op
<1> QED
  BY <1>1, <1>2, TypedInit, PlannedBlocks DEF Works, Quiescent, JobOK, GrowOK

LEMMA WorksStep == Works /\ [Next]_vars => Works'
<1> SUFFICES ASSUME Works, [Next]_vars PROVE JobOK' /\ GrowOK'
  BY TypedStep, QuiescentStep DEF Works
<1> USE DEF context
<1>1. Typed /\ Quiescent /\ JobOK /\ GrowOK
  BY DEF Works
<1>2. Planned(<<>>) /\ Op(<<>>) = "none"
  BY PlannedBlocks DEF Op
<1>3. JobOK'
  <2>1. CASE TurnRuns
    BY <2>1, TurnRunsIs
  <2>2. CASE GrowRuns
    <3>1. job' = job /\ ctx'.next = ctx.next
      BY <2>2, GrowRunsIs DEF GrowRuns
    <3> QED
      BY <1>1, <3>1 DEF JobOK
  <2>3. CASE Consume
    <3>1. PICK m \in Messages : Started(job') /\ Op(job') = "put" /\ Head(job').ms = <<m>>
      BY <1>1, <2>3, ConsumePlan
    <3>2. <<m>> \in Seq(Messages)
      OBVIOUS
    <3> QED
      BY <3>1, <3>2 DEF JobOK, Written
  <2>4. CASE Cancel \/ Crash \/ Restart
    <3>1. job' = <<>>
      BY <1>1, <2>4 DEF Cancel, Crash, Restart, Quiescent
    <3> QED
      BY <1>2, <3>1 DEF JobOK
  <2>6. CASE WriteFails
    BY <1>2, <2>6, FailureIs DEF JobOK
  <2>7. CASE GrowFails
    BY <1>1, <2>7, FailureIs DEF JobOK
  <2>5. CASE Begins
    <3>1. CASE job' = job
      BY <1>1, <2>5, <3>1 DEF Begins, JobOK
    <3>2. CASE Planned(job')
      BY <3>2 DEF JobOK
    <3>3. CASE TurnBack
      BY <1>1, <3>3, TurnBackPlan DEF JobOK
    <3> QED
      BY <2>5, <3>1, <3>2, <3>3 DEF Begins
  <2> QED
    BY <1>1, <2>1, <2>2, <2>3, <2>4, <2>5, <2>6, <2>7, Steps
<1>4. GrowOK'
  <2>1. CASE GrowRuns
    BY <2>1, GrowRunsIs
  <2>2. CASE ToolsEnd
    <3>1. reply \in {"call", "text"} \X Nat
      BY <1>1, <2>2 DEF ToolsEnd, At, Typed, Answered, Data
    <3>2. grow' = Growth(reply)
      BY <2>2 DEF ToolsEnd, Growth
    <3>3. Planned(grow') /\ \A i \in DOMAIN grow' : grow'[i].op \in {"say", "put", "count"}
      BY <3>1, <3>2, GrowthPlanned
    <3>4. Op(grow') # "put"
      BY <3>3, PlannedOp
    <3> QED
      BY <3>3, <3>4 DEF GrowOK
  <2>3. CASE grow' = <<>>
    BY <1>2, <2>3 DEF GrowOK
  <2>4. CASE grow' = grow
    BY <1>1, <2>4 DEF GrowOK
  <2>5. TurnRuns \/ Consume \/ Cancel \/ Restart => grow' = grow
    BY DEF TurnRuns, Consume, Cancel, Restart
  <2>6. Crash \/ GrowFails => grow' = <<>>
    BY DEF Crash, GrowFails
  <2>7. WriteFails => grow' = grow
    BY DEF WriteFails
  <2> QED
    BY <1>1, <2>1, <2>2, <2>3, <2>4, <2>5, <2>6, <2>7, Steps DEF Begins
<1> QED
  BY <1>3, <1>4

-----------------------------------------------------------------------------
(* The file as it will be when the writes that are due are through, and    *)
(* what a step makes of it when no write is cut, none fails and no two     *)
(* turns meet.                                                             *)

Full(f, j, g) == f \o Due(j) \o Due(g)
Whole   == Full(file, job, grow)
Settled == Op(job) \notin {"wipe", "load"}

LEMMA Alone == ASSUME Works, ~torn, job # <<>> PROVE grow = <<>>
BY DEF Works, Quiescent

LEMMA DueLines == ASSUME NEW j \in Seq(Instrs) PROVE Due(j) \in Seq(Lines)
<1>1. j # <<>> => Head(j).ms \in Seq(Lines)
  BY HeadTail DEF Instrs
<1> QED
  BY <1>1, EmptySeq DEF Due, Op

LEMMA FullIs ==
  ASSUME NEW f \in Seq(Lines), NEW j \in Seq(Instrs), NEW g \in Seq(Instrs)
  PROVE  /\ f \in Seq(Lines) /\ Due(j) \in Seq(Lines) /\ Due(g) \in Seq(Lines)
         /\ Full(f, j, g) \in Seq(Lines)
         /\ g = <<>> => Full(f, j, g) = f \o Due(j)
         /\ j = <<>> => Full(f, j, g) = f \o Due(g)
         /\ j = <<>> /\ g = <<>> => Full(f, j, g) = f
         /\ g = <<>> /\ Due(j) = <<>> => Full(f, j, g) = f
<1>1. Due(j) \in Seq(Lines) /\ Due(g) \in Seq(Lines) /\ Due(<<>>) = <<>>
  BY DueLines DEF Due, Op
<1>2. \A a, b, c \in Seq(Lines) : a \o b \o c \in Seq(Lines) /\ a \o <<>> = a /\ a \o <<>> \o b = a \o b
  OBVIOUS
<1>3. \A a, b \in Seq(Lines) : a \o b \o <<>> = a \o b
  OBVIOUS
<1> QED
  BY <1>1, <1>2, <1>3 DEF Full

LEMMA WholeIs ==
  ASSUME Typed
  PROVE  /\ Whole \in Seq(Lines)
         /\ job = <<>> /\ grow = <<>> => Whole = file
         /\ grow = <<>> /\ Due(job) = <<>> => Whole = file
BY FullIs DEF Typed, Data, Whole

\* Only Restart leads out of "down".
LEMMA DownUntilRestart ==
  ASSUME Quiescent, [Next]_vars, pc = "down", pc' # "down" PROVE Restart
BY DEF Quiescent, Next, TurnRuns, GrowRuns, WriteFails, GrowFails, Prompt, OpenTurn, ClearCommand, BeginLoop, EndRun, CommandDone, Raise, CompactCommand,
   Rebuild, BeginStep, TellCheckpoints, Inject, Answer, Overflow, SendMail, ToolsEnd, Rejected, TurnBack, TurnBackFails,
   Resolve, Consume, ConsumeFails, NextStep, Return, Steer, Cancel, Crash, At, Grown, vars

Extends ==
    /\ Settled /\ Settled'
    /\ \/ Whole' = Whole /\ ctx' = ctx
       \/ Whole' = Whole \o <<Usage>> /\ ctx' = [ctx EXCEPT !.pend = 0]
       \/ \E ms \in Seq(Messages) : Whole' = Whole \o ms /\ ctx' = Said(ctx, ms)
    /\ past' = past
NewMark ==
    /\ Settled /\ Settled' /\ Op(job) = "mark" /\ grow = <<>>
    /\ Whole' = Whole \o <<Line(ctx.next)>> /\ ctx' = [ctx EXCEPT !.next = @ + 1]
    /\ past' = [id \in {i \in DOMAIN past : i < ctx.next} \cup {ctx.next} |-> IF id = ctx.next THEN ctx.hist ELSE past[id]]
Waits   == ~Settled /\ job' = job /\ grow' = grow /\ UNCHANGED <<ctx, file, past>>
Clears  == Settled /\ Op(job') = "wipe" /\ file' = <<>>
Wipes   == Op(job) = "wipe" /\ Settled' /\ ctx' = Empty /\ Whole' = file /\ past' = <<>>
Reverts ==
    /\ Op(job) = "revert" /\ Op(job') = "load" /\ past' = past /\ ctx' = ctx /\ grow = <<>> /\ Whole = file
    /\ \E id \in Nat : Head(job).ms = <<Line(id)>> /\ Head(job').ms = Kept(Whole, id)
Loads ==
    /\ Op(job) = "load" /\ Settled' /\ Head(job).ms \in Seq(Lines)
    /\ ctx' = Restored(Head(job).ms) /\ Whole' = Head(job).ms
    /\ past' = Restrict(past, {i \in DOMAIN past : i < Restored(Head(job).ms).next})
Restarts ==
    /\ pc = "down" /\ Settled' /\ ctx' = Restored(file) /\ Whole' = file /\ file' = file
    /\ past' = [id \in Marks(file) |-> Restored(Kept(file, id)).hist]

LEMMA TurnExtends ==
  ASSUME Works, ~torn, TurnRuns
  PROVE  Extends \/ NewMark \/ Clears \/ Wipes \/ Reverts \/ Loads
<1>0. Typed /\ Typed'
  BY TypedStep DEF Works, Next
<1>1. /\ grow = <<>> /\ grow' = <<>> /\ past' = Past(Head(job))
      /\ Whole = file \o Due(job) /\ Whole' = file' \o Due(job')
      /\ file \in Seq(Lines) /\ Due(job) \in Seq(Lines) /\ Due(job') \in Seq(Lines)
      /\ Head(job).ms \in Seq(Lines) /\ Op(job) = Head(job).op
  <2>1. grow = <<>> /\ grow' = <<>> /\ past' = Past(Head(job))
    BY Alone DEF TurnRuns
  <2>2. Head(job).ms \in Seq(Lines) /\ Op(job) = Head(job).op
    <3>1. Head(job) \in Instrs /\ Op(job) = Head(job).op
      BY TurnRunsIs
    <3> QED
      BY <3>1 DEF Instrs
  <2>3. /\ file \in Seq(Lines) /\ job \in Seq(Instrs) /\ grow \in Seq(Instrs)
        /\ file' \in Seq(Lines) /\ job' \in Seq(Instrs) /\ grow' \in Seq(Instrs)
    BY <1>0 DEF Typed, Data
  <2>4. Whole = file \o Due(job) /\ Due(job) \in Seq(Lines)
    BY <2>1, <2>3, FullIs DEF Whole
  <2>5. Whole' = file' \o Due(job') /\ Due(job') \in Seq(Lines)
    BY <2>1, <2>3, FullIs DEF Whole
  <2> QED
    BY <2>1, <2>2, <2>3, <2>4, <2>5
<1>2. \A s \in Seq(Lines) : s \o <<>> = s
  OBVIOUS
<1>3. Head(job).op \notin {"mark", "wipe", "load"} => past' = past
  BY <1>1 DEF Past
<1>4. CASE /\ Op(job) = "say" /\ Due(job) = <<>>
           /\ Head(job).ms \in Seq(Messages) /\ ctx' = Said(ctx, Head(job).ms) /\ file' = file
           /\ Op(job') = "put" /\ Due(job') = Head(job).ms
  BY <1>1, <1>2, <1>3, <1>4 DEF Extends, Settled
<1>5. CASE /\ Op(job) = "count" /\ Due(job) = <<>>
           /\ ctx' = [ctx EXCEPT !.pend = 0] /\ file' = file
           /\ Op(job') = "put" /\ Due(job') = <<Usage>>
  BY <1>1, <1>2, <1>3, <1>5 DEF Extends, Settled
<1>6. CASE /\ Op(job) = "mark" /\ Due(job) = <<>>
           /\ ctx' = [ctx EXCEPT !.next = @ + 1] /\ file' = file
           /\ Op(job') = "put" /\ Due(job') = <<Line(ctx.next)>>
  BY <1>1, <1>2, <1>6 DEF NewMark, Settled, Past
<1>7. CASE Op(job) = "put" /\ ctx' = ctx /\ file' = file \o Due(job) /\ Planned(job')
  <2>1. Op(job') \notin {"wipe", "load"} /\ Due(job') = <<>>
    BY <1>7, PlannedOp
  <2>2. Whole' = Whole
    BY <1>1, <1>2, <1>7, <2>1
  <2> QED
    BY <1>1, <1>3, <1>7, <2>1, <2>2 DEF Extends, Settled
<1>8. CASE Op(job) = "clear" /\ Due(job) = <<>> /\ ctx' = ctx /\ file' = <<>> /\ Op(job') = "wipe" /\ Due(job') = <<>>
  BY <1>8 DEF Clears, Settled
<1>9. CASE Op(job) = "wipe" /\ ctx' = Empty /\ file' = file /\ Planned(job')
  <2>1. Op(job') \notin {"wipe", "load"} /\ Due(job') = <<>>
    BY <1>9, PlannedOp
  <2>2. past' = <<>>
    BY <1>1, <1>9 DEF Past
  <2> QED
    BY <1>1, <1>2, <1>9, <2>1, <2>2 DEF Wipes, Settled
<1>10. CASE /\ Op(job) = "revert" /\ Due(job) = <<>> /\ ctx' = ctx /\ file' = <<>>
            /\ Op(job') = "load" /\ Due(job') = <<>>
            /\ \E id \in Nat : Head(job).ms = <<Line(id)>> /\ Head(job').ms = Kept(file, id)
  BY <1>1, <1>2, <1>3, <1>10 DEF Reverts
<1>11. CASE Op(job) = "load" /\ ctx' = Restored(Head(job).ms) /\ file' = Head(job).ms /\ Planned(job')
  <2>1. Op(job') \notin {"wipe", "load"} /\ Due(job') = <<>>
    BY <1>11, PlannedOp
  <2>2. past' = Restrict(past, {i \in DOMAIN past : i < Restored(Head(job).ms).next})
    BY <1>1, <1>11 DEF Past
  <2> QED
    BY <1>1, <1>2, <1>11, <2>1, <2>2 DEF Loads, Settled
<1> QED
  BY <1>4, <1>5, <1>6, <1>7, <1>8, <1>9, <1>10, <1>11, TurnRunsIs

LEMMA GrowExtends ==
  ASSUME Works, ~torn, GrowRuns
  PROVE  Extends
<1>0. Typed /\ Typed'
  BY TypedStep DEF Works, Next
<1>1. grow # <<>> /\ job = <<>> /\ job' = <<>> /\ past' = past
  <2>1. grow # <<>> /\ job' = job /\ past' = past
    BY DEF GrowRuns, seen
  <2> QED
    BY <2>1, Alone
<1>2. Settled /\ Settled'
  BY <1>1 DEF Settled, Op
<1>3. /\ Whole = file \o Due(grow) /\ Whole' = file' \o Due(grow')
      /\ file \in Seq(Lines) /\ Due(grow) \in Seq(Lines) /\ Due(grow') \in Seq(Lines)
  <2>3. /\ file \in Seq(Lines) /\ job \in Seq(Instrs) /\ grow \in Seq(Instrs)
        /\ file' \in Seq(Lines) /\ job' \in Seq(Instrs) /\ grow' \in Seq(Instrs)
    BY <1>0 DEF Typed, Data
  <2>4. Whole = file \o Due(grow) /\ Due(grow) \in Seq(Lines)
    BY <1>1, <2>3, FullIs DEF Whole
  <2>5. Whole' = file' \o Due(grow') /\ Due(grow') \in Seq(Lines)
    BY <1>1, <2>3, FullIs DEF Whole
  <2> QED
    BY <2>3, <2>4, <2>5
<1>4. \A s \in Seq(Lines) : s \o <<>> = s
  OBVIOUS
<1>5. CASE /\ Op(grow) = "say" /\ Due(grow) = <<>>
           /\ Head(grow).ms \in Seq(Messages) /\ ctx' = Said(ctx, Head(grow).ms) /\ file' = file
           /\ Due(grow') = Head(grow).ms
  BY <1>1, <1>2, <1>3, <1>4, <1>5 DEF Extends
<1>6. CASE /\ Op(grow) = "count" /\ Due(grow) = <<>>
           /\ ctx' = [ctx EXCEPT !.pend = 0] /\ file' = file /\ Due(grow') = <<Usage>>
  BY <1>1, <1>2, <1>3, <1>4, <1>6 DEF Extends
<1>7. CASE /\ Op(grow) = "put" /\ ctx' = ctx /\ file' = file \o Due(grow) /\ Due(grow') = <<>>
  <2>1. file' \in Seq(Lines)
    BY <1>0 DEF Typed, Data
  <2> QED
    BY <1>1, <1>2, <1>3, <1>4, <1>7, <2>1 DEF Extends
<1> QED
  BY <1>5, <1>6, <1>7, GrowRunsIs

LEMMA WholeSteps ==
  ASSUME Works, [Next]_vars, ~torn', pc' # "down"
  PROVE  \/ pc # "down" /\ ~torn /\ (Extends \/ NewMark \/ Waits \/ Clears \/ Wipes \/ Reverts \/ Loads)
         \/ Restarts
<1>0. Typed /\ Typed' /\ Quiescent
  BY TypedStep DEF Works
<1>1. CASE pc = "down"
  <2>1. Restart /\ job = <<>> /\ grow = <<>> /\ job' = <<>> /\ grow' = <<>>
    BY <1>0, <1>1, DownUntilRestart DEF Quiescent, Restart
  <2>2. file' = file /\ Whole' = file'
    <3>1. file' \in Seq(Lines) /\ job' \in Seq(Instrs) /\ grow' \in Seq(Instrs)
      BY <1>0 DEF Typed, Data
    <3>2. Whole' = file'
      BY <2>1, <3>1, FullIs DEF Whole
    <3> QED
      BY <2>1, <3>2 DEF Restart
  <2> QED
    BY <1>1, <2>1, <2>2 DEF Restart, Restarts, Settled, Op
<1>2. CASE pc # "down"
  <2>1. CASE Begins /\ ~TurnBack
    <3>1. ~torn /\ ctx' = ctx /\ file' = file /\ past' = past /\ (job' = job \/ (job = <<>> /\ Planned(job'))) /\ (grow' = grow \/ ToolsEnd)
      BY <2>1 DEF Begins
    <3>2. (job' = job \/ (Settled /\ Settled')) /\ Due(job') = Due(job)
      BY <3>1, PlannedOp DEF Settled, Due, Op
    <3>3. ToolsEnd => Due(grow) = <<>> /\ Due(grow') = <<>> /\ Settled
      <4>1. SUFFICES ASSUME ToolsEnd PROVE Due(grow) = <<>> /\ Due(grow') = <<>> /\ Settled
        OBVIOUS
      <4>2. reply \in {"call", "text"} \X Nat
        BY <1>0, <4>1 DEF ToolsEnd, At, Typed, Answered, Data
      <4>3. Planned(grow')
        BY <4>1, <4>2, GrowthPlanned DEF ToolsEnd, Growth
      <4> QED
        BY <4>1, <4>3, PlannedOp DEF ToolsEnd, At, Due, Op, Settled
    <3>4. Whole' = Whole
      BY <3>1, <3>2, <3>3 DEF Whole, Full
    <3>5. CASE Settled
      <4>1. Settled'
        BY <3>2, <3>5 DEF Settled
      <4> QED
        BY <1>2, <3>1, <3>4, <3>5, <4>1 DEF Extends
    <3>6. CASE ~Settled
      <4>1. job' = job /\ grow' = grow
        BY <3>1, <3>2, <3>3, <3>6
      <4> QED
        BY <1>2, <3>1, <3>6, <4>1 DEF Waits
    <3> QED
      BY <1>2, <3>1, <3>5, <3>6
  <2>2. CASE TurnBack
    <3>1. /\ job = <<>> /\ Op(job') = "revert" /\ Due(job') = <<>>
      BY <1>0, <2>2, TurnBackPlan
    <3>2. ~torn /\ ctx' = ctx /\ file' = file /\ grow' = grow /\ past' = past
      BY <2>2 DEF TurnBack, seen
    <3>3. Whole' = Whole /\ Settled /\ Settled'
      BY <3>1, <3>2 DEF Whole, Full, Due, Op, Settled
    <3> QED
      BY <1>2, <3>2, <3>3 DEF Extends
  <2>3. CASE Consume
    <3>1. PICK m \in Messages : /\ ctx' = Said(ctx, <<m>>) /\ job = <<>> /\ Op(job') = "put" /\ Due(job') = <<m>>
      BY <1>0, <2>3, ConsumePlan
    <3>2. ~torn /\ pc \in {"between", "finishing"} /\ file' = file /\ grow' = grow /\ past' = past
      BY <2>3 DEF Consume, At
    <3>3. grow = <<>>
      BY <1>0, <3>2 DEF Quiescent
    <3>4. Whole = file /\ <<m>> \in Seq(Messages)
      BY <1>0, <3>1, <3>3, WholeIs
    <3>5. Whole' = file \o <<m>>
      <4>1. file' \in Seq(Lines) /\ job' \in Seq(Instrs) /\ grow' \in Seq(Instrs)
        BY <1>0 DEF Typed, Data
      <4>2. grow' = <<>>
        BY <3>2, <3>3
      <4>3. Full(file', job', grow') = file' \o Due(job')
        BY <4>1, <4>2, FullIs
      <4>4. Whole' = Full(file', job', grow')
        BY DEF Whole
      <4> QED
        BY <3>1, <3>2, <4>3, <4>4
    <3> QED
      BY <1>2, <3>1, <3>2, <3>4, <3>5 DEF Extends, Settled, Op
  <2>4. CASE Cancel
    <3>1. job = <<>> /\ job' = <<>> /\ ~torn /\ UNCHANGED <<ctx, file, grow, past>>
      BY <2>4 DEF Cancel
    <3> QED
      BY <1>2, <3>1 DEF Extends, Settled, Op, Whole, Full, Due
  <2>5. CASE TurnRuns
    <3>1. ~torn
      BY <2>5 DEF TurnRuns
    <3> QED
      BY <1>2, <2>5, <3>1, TurnExtends
  <2>6. CASE GrowRuns
    <3>1. ~torn
      BY <2>6 DEF GrowRuns, seen
    <3> QED
      BY <1>2, <2>6, <3>1, GrowExtends
  <2>7. ~Crash /\ ~Restart /\ ~WriteFails /\ ~GrowFails
    BY <1>2, FailureIs DEF Crash, Restart
  <2> QED
    BY <1>0, <2>1, <2>2, <2>3, <2>4, <2>5, <2>6, <2>7, Steps
<1> QED
  BY <1>1, <1>2

-----------------------------------------------------------------------------
(* The file, with what is due, restores to the context in memory.          *)

Consistent ==
    ~torn /\ pc # "down" => /\ Op(job) = "wipe" => file = <<>>
                            /\ Settled => ctx = Restored(Whole)

LEMMA ConsistentStep == Works /\ Consistent /\ [Next]_vars => Consistent'
<1> SUFFICES ASSUME Works, Consistent, [Next]_vars, ~torn', pc' # "down"
             PROVE  (Op(job') = "wipe" => file' = <<>>) /\ (Settled' => ctx' = Restored(Whole'))
  BY DEF Consistent
<1>0. Typed /\ Typed'
  BY TypedStep DEF Works
<1>1. Whole \in Seq(Lines) /\ ctx \in Contexts
  BY <1>0, WholeIs DEF Typed, Data
<1>2. CASE pc # "down" /\ ~torn /\ Extends
  <2>1. ctx = Restored(Whole) /\ Op(job') # "wipe"
    BY <1>2 DEF Consistent, Extends, Settled
  <2>2. CASE Whole' = Whole \o <<Usage>> /\ ctx' = [ctx EXCEPT !.pend = 0]
    <3>1. Whole \o <<Usage>> = Append(Whole, Usage) /\ Usage \in Lines
      BY <1>1 DEF Usage, Lines
    <3>2. Apply(ctx, Usage) = [ctx EXCEPT !.pend = 0]
      BY <1>1, ApplyUsage
    <3>3. Restored(Append(Whole, Usage)) = Apply(Restored(Whole), Usage)
      BY <1>1, <3>1, RestoredAppend
    <3> QED
      BY <2>1, <2>2, <3>1, <3>2, <3>3
  <2>3. CASE \E ms \in Seq(Messages) : Whole' = Whole \o ms /\ ctx' = Said(ctx, ms)
    BY <1>1, <2>1, <2>3, RestoredSaid
  <2> QED
    BY <1>2, <2>1, <2>2, <2>3 DEF Extends
<1>3. CASE pc # "down" /\ ~torn /\ NewMark
  <2>1. ctx = Restored(Whole) /\ Op(job') # "wipe"
    BY <1>3 DEF Consistent, NewMark, Settled
  <2>2. ctx.next \in Nat
    BY <1>1 DEF Contexts
  <2>3. Whole \o <<Line(ctx.next)>> = Append(Whole, Line(ctx.next)) /\ Line(ctx.next) \in Lines
    BY <1>1, <2>2 DEF Line, Lines
  <2>4. Apply(ctx, Line(ctx.next)) = [ctx EXCEPT !.next = ctx.next + 1]
    BY <1>1, <2>2, ApplyMark
  <2>5. Restored(Append(Whole, Line(ctx.next))) = Apply(Restored(Whole), Line(ctx.next))
    BY <1>1, <2>3, RestoredAppend
  <2> QED
    BY <1>3, <2>1, <2>3, <2>4, <2>5 DEF NewMark
<1>4. CASE pc # "down" /\ ~torn /\ Waits
  BY <1>4 DEF Waits, Settled, Consistent
<1>5. CASE Clears \/ Reverts
  BY <1>5 DEF Clears, Reverts, Settled
<1>6. CASE pc # "down" /\ ~torn /\ Wipes
  <2>1. file = <<>>
    BY <1>6 DEF Wipes, Consistent
  <2> QED
    BY <1>6, <2>1, RestoredEmpty DEF Wipes, Settled
<1>7. CASE Loads \/ Restarts
  BY <1>7 DEF Loads, Restarts, Settled
<1> QED
  BY <1>2, <1>3, <1>4, <1>5, <1>6, <1>7, WholeSteps

LEMMA ConsistentInit == Init => Consistent
<1> SUFFICES ASSUME Init PROVE ctx = Restored(Whole) /\ Op(job) = "none"
  BY DEF Consistent
<1>1. job = <<>> /\ grow = <<>> /\ file = <<>> /\ ctx = Empty
  BY DEF Init
<1>2. Whole = <<>>
  BY <1>1, TypedInit, WholeIs
<1> QED
  BY <1>1, <1>2, RestoredEmpty DEF Op

\* A process that restored the context between two writes would have the history, the next
\* checkpoint and the uncounted messages of the running one, unless a cancel cut a write, a write
\* failed or two turns wrote at once.
THEOREM RestoredCorrect == Spec => []RestoresWhatWasSaid
<1>1. Works /\ Consistent => RestoresWhatWasSaid
  <2> SUFFICES ASSUME Works, Consistent, job = <<>>, grow = <<>>, pc # "down", ~torn PROVE ctx = Restored(file)
    BY DEF RestoresWhatWasSaid
  <2>1. Whole = file /\ Settled
    BY WholeIs DEF Works, Settled, Op
  <2> QED
    BY <2>1 DEF Consistent
<1> QED
  BY <1>1, WorksInit, WorksStep, ConsistentInit, ConsistentStep, PTL DEF Spec

=============================================================================
