------------------------ MODULE AgentTurnHistoryProofs ------------------------
(***************************************************************************)
(* What a turn does to its history, for any budgets and number of steps: a *)
(* D-Mail turns it back to what it was, results follow their calls, and a  *)
(* turn does not end while a steer its loop accepted waits for the model.  *)
(*                                                                         *)
(* The checkpoints of the file are in order (Numbered), and the noted      *)
(* pasts are what the whole file restores to when it is cut at each        *)
(* (Remembered).  A pending D-Mail holds one of them (MailShape,           *)
(* MailTrue), and whatever a job or a restart will put into the history is *)
(* paired (Linked).                                                        *)
(***************************************************************************)
EXTENDS AgentTurnProofs

-----------------------------------------------------------------------------
(* The checkpoints of a file are in order, and below the next one.         *)

Ordered(f)  == \A a, b, i, k : MarkAt(f, a, i) /\ MarkAt(f, b, k) /\ i < k => a < b
Below(f, n) == \A id \in Marks(f) : id < n

LEMMA BeginMarks ==
  ASSUME NEW f \in Seq(Lines), NEW p \in 0 .. Len(f), NEW e, e = SubSeq(f, 1, p)
  PROVE  /\ e \in Seq(Lines) /\ \A id, i : MarkAt(e, id, i) <=> MarkAt(f, id, i) /\ i <= p
         /\ Marks(e) \subseteq Marks(f)
         /\ Ordered(f) => Ordered(e)
<1>1. e \in Seq(Lines) /\ Len(e) = p /\ p <= Len(f) /\ p \in Nat /\ Len(f) \in Nat /\ \A i \in 1 .. p : e[i] = f[i]
  OBVIOUS
<1>2. \A id, i : MarkAt(e, id, i) <=> MarkAt(f, id, i) /\ i <= p
  <2> TAKE id, i
  <2>1. i \in 1 .. Len(e) <=> i \in 1 .. Len(f) /\ i <= p
    BY <1>1
  <2> QED
    BY <1>1, <2>1 DEF MarkAt
<1>3. Marks(e) \subseteq Marks(f)
  BY <1>1, <1>2, MarksAre
<1>4. Ordered(f) => Ordered(e)
  BY <1>2 DEF Ordered
<1> QED
  BY <1>1, <1>2, <1>3, <1>4

LEMMA KeptBegins ==
  ASSUME NEW f \in Seq(Lines), NEW id
  PROVE  \E p \in 0 .. Len(f) : Kept(f, id) = SubSeq(f, 1, p)
<1>1. f = SubSeq(f, 1, Len(f)) /\ Len(f) \in 0 .. Len(f)
  OBVIOUS
<1>2. \A p \in 1 .. Len(f) : p - 1 \in 0 .. Len(f)
  OBVIOUS
<1> QED
  BY <1>1, <1>2, KeptIs

LEMMA OrderedSaid ==
  ASSUME NEW f \in Seq(Lines), NEW ms \in Seq(Lines), Marks(ms) = {}
  PROVE  /\ Marks(f \o ms) = Marks(f) /\ (Ordered(f) => Ordered(f \o ms))
<1>1. f \o ms \in Seq(Lines) /\ Len(f \o ms) = Len(f) + Len(ms) /\ Len(f) \in Nat /\ Len(ms) \in Nat
  OBVIOUS
<1>2. \A i \in 1 .. Len(f) : (f \o ms)[i] = f[i]
  OBVIOUS
<1>3. \A i \in 1 .. Len(f) + Len(ms) : i \in 1 .. Len(f) \/ (i - Len(f) \in 1 .. Len(ms) /\ (f \o ms)[i] = ms[i - Len(f)])
  OBVIOUS
<1>4. ASSUME NEW id, NEW i, MarkAt(f \o ms, id, i) PROVE MarkAt(f, id, i)
  <2>1. i \in 1 .. Len(f) + Len(ms) /\ (f \o ms)[i] = Line(id)
    BY <1>1, <1>4 DEF MarkAt
  <2>2. CASE i \in 1 .. Len(f)
    BY <1>2, <2>1, <2>2 DEF MarkAt
  <2>3. CASE i - Len(f) \in 1 .. Len(ms) /\ (f \o ms)[i] = ms[i - Len(f)]
    <3>1. MarkAt(ms, id, i - Len(f))
      BY <2>1, <2>3 DEF MarkAt
    <3> QED
      BY <3>1, MarksAre
  <2> QED
    BY <1>3, <2>1, <2>2, <2>3
<1>5. Marks(f \o ms) = Marks(f)
  <2>1. Marks(f \o ms) = Marks(f) \cup Marks(ms)
    BY MarksAppended
  <2> QED
    BY <2>1
<1> QED
  BY <1>4, <1>5 DEF Ordered

LEMMA OrderedMarked ==
  ASSUME NEW f \in Seq(Lines), NEW id \in Nat, Ordered(f), Below(f, id)
  PROVE  Ordered(f \o <<Line(id)>>) /\ Marks(f \o <<Line(id)>>) = Marks(f) \cup {id}
<1> DEFINE e == f \o <<Line(id)>>
<1>1. e \in Seq(Lines) /\ Len(e) = Len(f) + 1 /\ Len(f) \in Nat /\ (\A i \in 1 .. Len(f) : e[i] = f[i])
      /\ e[Len(f) + 1] = Line(id)
  <2>1. Line(id) \in Lines
    BY DEF Line, Lines
  <2> QED
    BY <2>1
<1>2. Marks(e) = Marks(f) \cup {id}
  BY MarksOfLine, MarksAppended
<1> HIDE DEF e
<1>3. ASSUME NEW a, NEW i, MarkAt(e, a, i) PROVE MarkAt(f, a, i) \/ (i = Len(f) + 1 /\ a = id)
  <2>1. i \in 1 .. Len(f) \/ i = Len(f) + 1
    BY <1>1, <1>3 DEF MarkAt
  <2>2. Line(a) = Line(id) => a = id
    BY DEF Line
  <2> QED
    BY <1>1, <1>3, <2>1, <2>2 DEF MarkAt
<1>4. ASSUME NEW a, NEW b, NEW i, NEW k, MarkAt(e, a, i), MarkAt(e, b, k), i < k PROVE a < b
  <2>1. CASE MarkAt(f, a, i) /\ MarkAt(f, b, k)
    BY <1>4, <2>1 DEF Ordered
  <2>2. CASE MarkAt(f, a, i) /\ b = id
    <3>1. a \in Marks(f)
      BY <2>2, MarksAre
    <3> QED
      BY <2>2, <3>1 DEF Below
  <2>3. CASE i = Len(f) + 1
    <3>1. k \in 1 .. Len(f) + 1
      BY <1>1, <1>4 DEF MarkAt
    <3> QED
      BY <1>1, <1>4, <2>3, <3>1
  <2> QED
    BY <1>3, <1>4, <2>1, <2>2, <2>3
<1>5. Ordered(e)
  BY <1>4 DEF Ordered
<1> QED
  BY <1>2, <1>5 DEF e

\* In an ordered file the next checkpoint is the one after its last.
LEMMA NextAbove ==
  ASSUME NEW f \in Seq(Lines), Ordered(f)
  PROVE  Below(f, Restored(f).next) /\ (Restored(f).next = 0 \/ Restored(f).next - 1 \in Marks(f))
<1> DEFINE Above(s) == Ordered(s) => Below(s, Restored(s).next)
                                     /\ (Restored(s).next = 0 \/ Restored(s).next - 1 \in Marks(s))
<1> DEFINE S == {s \in Seq(Lines) : Above(s)}
<1>1. <<>> \in S
  <2>1. <<>> \in Seq(Lines) /\ <<>> \in Seq(Messages)
    BY EmptySeq
  <2>2. Marks(<<>>) = {} /\ Restored(<<>>).next = 0
    BY <2>1, MarksOfMessages, RestoredEmpty, EmptyContext
  <2> QED
    BY <2>1, <2>2 DEF Below
<1>2. ASSUME NEW s \in Seq(Lines), NEW x \in Lines, s \in S PROVE Append(s, x) \in S
  <2> DEFINE e == Append(s, x)
  <2>1. e \in Seq(Lines) /\ e = s \o <<x>> /\ <<x>> \in Seq(Lines) /\ Len(e) = Len(s) + 1 /\ s = SubSeq(e, 1, Len(s))
        /\ Len(s) \in 0 .. Len(e)
    OBVIOUS
  <2> SUFFICES ASSUME Ordered(e)
               PROVE  Below(e, Restored(e).next) /\ (Restored(e).next = 0 \/ Restored(e).next - 1 \in Marks(e))
    BY <2>1
  <2>2. Restored(e) = Apply(Restored(s), x) /\ Restored(s) \in Contexts /\ Restored(s).next \in Nat
    BY <2>1, RestoredAppend, RestoredType DEF Contexts
  <2>3. Ordered(s)
    BY <2>1, BeginMarks
  <2>4. Below(s, Restored(s).next) /\ (Restored(s).next = 0 \/ Restored(s).next - 1 \in Marks(s))
    BY <1>2, <2>3
  <2>5. CASE x[1] = "checkpoint" /\ x[2] \in Nat /\ x = Line(x[2])
    <3> DEFINE k == x[2]
    <3>1. k \in Nat /\ x = Line(k)
      BY <2>5
    <3>2. Restored(e).next = k + 1
      <4>1. Apply(Restored(s), Line(k)) = [Restored(s) EXCEPT !.next = k + 1]
        BY <2>2, <3>1, ApplyMark
      <4> QED
        BY <2>2, <3>1, <4>1 DEF Contexts
    <3>3. Marks(e) = Marks(s) \cup {k}
      <4>1. Marks(s \o <<x>>) = Marks(s) \cup Marks(<<x>>)
        BY <2>1, MarksAppended
      <4>2. Marks(<<x>>) = {k}
        BY <3>1, MarksOfLine
      <4> QED
        BY <2>1, <4>1, <4>2
    <3>4. ASSUME NEW id \in Marks(s) PROVE id < k
      <4>1. PICK i : MarkAt(s, id, i)
        BY MarksAre
      <4>2. MarkAt(e, id, i) /\ i <= Len(s)
        BY <2>1, <4>1, BeginMarks
      <4>3. MarkAt(e, k, Len(s) + 1) /\ i < Len(s) + 1
        <5>1. e[Len(s) + 1] = x /\ Len(s) + 1 \in 1 .. Len(e) /\ i \in 1 .. Len(s)
          BY <4>1 DEF MarkAt
        <5> QED
          BY <3>1, <4>2, <5>1 DEF MarkAt
      <4> QED
        BY <4>2, <4>3 DEF Ordered
    <3> HIDE DEF k
    <3>5. Marks(s) \subseteq Nat
      BY MarksAre
    <3>6. \A id \in Marks(e) : id < k + 1
      BY <3>1, <3>3, <3>4, <3>5
    <3>7. (k + 1) - 1 = k /\ k \in Marks(e)
      BY <3>1, <3>3
    <3> QED
      BY <3>2, <3>6, <3>7 DEF Below
  <2>6. CASE x \in Messages
    <3>1. Restored(e).next = Restored(s).next
      BY <2>2, <2>6, ApplyMessage
    <3>2. Marks(e) = Marks(s)
      <4>1. <<x>> \in Seq(Messages)
        BY <2>6
      <4> QED
        BY <2>1, <4>1, MarksOfMessages, OrderedSaid
    <3> QED
      BY <2>4, <3>1, <3>2 DEF Below
  <2>7. CASE x[1] = "usage"
    <3>1. Restored(e).next = Restored(s).next
      BY <2>2, <2>7 DEF Apply, Contexts
    <3>2. Marks(e) = Marks(s)
      <4>1. \A id, i : ~MarkAt(<<x>>, id, i)
        BY <2>7 DEF MarkAt, Line
      <4>2. Marks(<<x>>) = {}
        BY <2>1, <4>1, MarksAre
      <4> QED
        BY <2>1, <4>2, OrderedSaid
    <3> QED
      BY <2>4, <3>1, <3>2 DEF Below
  <2> QED
    BY <2>5, <2>6, <2>7, LineKinds
<1> HIDE DEF S
<1>3. Seq(Lines) \subseteq S
  BY <1>1, <1>2, SeqInduction
<1>4. f \in S
  BY <1>3
<1> QED
  BY <1>4 DEF S

\* The beginning of an ordered file has the checkpoints below its next one.
LEMMA MarksOfBegin ==
  ASSUME NEW f \in Seq(Lines), Ordered(f), NEW p \in 0 .. Len(f), NEW e, e = SubSeq(f, 1, p)
  PROVE  Marks(e) = {id \in Marks(f) : id < Restored(e).next}
<1>1. e \in Seq(Lines) /\ Ordered(e) /\ Marks(e) \subseteq Marks(f)
      /\ \A id, i : MarkAt(e, id, i) <=> MarkAt(f, id, i) /\ i <= p
  BY BeginMarks
<1>2. Below(e, Restored(e).next) /\ (Restored(e).next = 0 \/ Restored(e).next - 1 \in Marks(e))
  BY <1>1, NextAbove
<1>3. Restored(e).next \in Nat /\ Marks(f) \subseteq Nat
  BY <1>1, RestoredType, MarksAre DEF Contexts
<1>4. ASSUME NEW id \in Marks(f), id < Restored(e).next PROVE id \in Marks(e)
  <2>1. id \in Nat /\ Restored(e).next - 1 \in Marks(e) /\ id <= Restored(e).next - 1
    BY <1>2, <1>3, <1>4
  <2> DEFINE last == Restored(e).next - 1
  <2>2. PICK i : MarkAt(f, id, i)
    BY MarksAre
  <2>3. PICK k : MarkAt(e, last, k)
    BY <1>1, <2>1, MarksAre
  <2>4. MarkAt(f, last, k) /\ k <= p
    BY <1>1, <2>3
  <2> HIDE DEF last
  <2>5. ~ (k < i)
    <3>1. k < i => last < id
      BY <2>2, <2>4 DEF Ordered
    <3>2. last \in Int /\ id <= last
      BY <1>3, <2>1 DEF last
    <3> QED
      BY <2>1, <3>1, <3>2
  <2>6. i <= p
    <3>1. i \in Int /\ k \in Int
      BY <2>2, <2>4 DEF MarkAt
    <3> QED
      BY <2>4, <2>5, <3>1
  <2>7. MarkAt(e, id, i)
    BY <1>1, <2>2, <2>6
  <2> QED
    BY <1>1, <2>7, MarksAre
<1> QED
  BY <1>1, <1>2, <1>4 DEF Below

\* The checkpoints of the file are in order and below the next one, whatever is cut: the
\* next process numbers its own from those it finds.
Numbered ==
    /\ Ordered(file)
    /\ pc # "down" => Below(file, ctx.next)
    /\ Op(job) = "wipe" => Marks(file) = {}
    /\ \A id : Due(job) = <<Line(id)>> => Below(file, id)
    /\ Op(job) = "load" => Ordered(Head(job).ms) /\ Below(Head(job).ms, ctx.next)

LEMMA NoMarks == Marks(<<>>) = {} /\ Ordered(<<>>) /\ \A n : Below(<<>>, n)
<1>1. <<>> \in Seq(Messages)
  BY EmptySeq
<1>2. Marks(<<>>) = {}
  BY <1>1, MarksOfMessages
<1>3. \A id, i : ~MarkAt(<<>>, id, i)
  BY DEF MarkAt
<1> QED
  BY <1>2, <1>3 DEF Ordered, Below

LEMMA WrittenMarks ==
  ASSUME NEW ms, Written(ms)
  PROVE  ms \in Seq(Lines) /\ Marks(ms) = {} /\ \A id : ms # <<Line(id)>>
<1>1. CASE ms \in Seq(Messages)
  <2>1. \A id : Line(id) \notin Messages
    BY DEF Messages, Kinds, Line
  <2>2. \A id : ms = <<Line(id)>> => Line(id) \in Messages
    <3>1. \A l : <<l>> \in Seq(Messages) => l \in Messages
      <4> TAKE l
      <4>1. <<l>>[1] = l /\ 1 \in 1 .. Len(<<l>>)
        OBVIOUS
      <4>2. \A s \in Seq(Messages) : \A i \in 1 .. Len(s) : s[i] \in Messages
        OBVIOUS
      <4> QED
        BY <4>1, <4>2
    <3> QED
      BY <1>1, <3>1
  <2> QED
    BY <1>1, <2>1, <2>2, MarksOfMessages, MessagesAreLines
<1>2. CASE ms = <<Usage>>
  <2>1. \A id : Usage # Line(id)
    BY DEF Usage, Line
  <2>2. \A l, m : <<l>> = <<m>> => l = m
    OBVIOUS
  <2> QED
    BY <1>2, <2>1, <2>2, MarksOfUsage
<1> QED
  BY <1>1, <1>2 DEF Written

LEMMA BelowMore == ASSUME NEW f \in Seq(Lines), NEW n \in Nat, Below(f, n) PROVE Below(f, n + 1)
<1>1. Marks(f) \subseteq Nat
  BY MarksAre
<1> QED
  BY <1>1 DEF Below

\* A write that is due leaves the file in order.
LEMMA DueInOrder ==
  ASSUME Works, Numbered, pc # "down", Op(job) = "put"
  PROVE  /\ Due(job) \in Seq(Lines)
         /\ Written(Due(job)) \/ \E id \in Nat : Due(job) = <<Line(id)>> /\ id + 1 = ctx.next /\ Below(file, id)
         /\ Ordered(file \o Due(job)) /\ Below(file \o Due(job), ctx.next)
<1>1. file \in Seq(Lines) /\ ctx.next \in Nat /\ Due(job) = Head(job).ms
  BY DEF Works, Typed, Data, Contexts, Due
<1>2. Written(Due(job)) \/ (ctx.next > 0 /\ Due(job) = <<Line(ctx.next - 1)>>)
  <2>1. ~Planned(job)
    BY PlannedOp
  <2> QED
    BY <1>1, <2>1 DEF Works, JobOK
<1>3. CASE Written(Due(job))
  <2>1. Due(job) \in Seq(Lines) /\ Marks(Due(job)) = {}
    BY <1>3, WrittenMarks
  <2> QED
    BY <1>1, <1>3, <2>1, OrderedSaid DEF Numbered, Below
<1>4. CASE ctx.next > 0 /\ Due(job) = <<Line(ctx.next - 1)>>
  <2> DEFINE id == ctx.next - 1
  <2>1. id \in Nat /\ id + 1 = ctx.next
    BY <1>1, <1>4
  <2>2. Below(file, id)
    BY <1>4 DEF Numbered
  <2> HIDE DEF id
  <2>3. Due(job) = <<Line(id)>> /\ Due(job) \in Seq(Lines)
    BY <1>4, <2>1, MarksOfLine DEF id
  <2>4. Ordered(file \o Due(job)) /\ Marks(file \o Due(job)) = Marks(file) \cup {id}
    BY <1>1, <2>1, <2>2, <2>3, OrderedMarked DEF Numbered
  <2>5. Below(file, ctx.next) /\ id < ctx.next
    BY <1>1, <2>1, <2>2, BelowMore
  <2> QED
    BY <2>1, <2>2, <2>3, <2>4, <2>5 DEF Below
<1> QED
  BY <1>2, <1>3, <1>4

\* A cut leaves the file in order as well.
LEMMA CutInOrder ==
  ASSUME Works, Numbered, pc # "down", job # <<>>, NEW cut \in Cuts(Head(job))
  PROVE  Ordered(cut.file) /\ Below(cut.file, cut.ctx.next)
<1> DEFINE do == Head(job)
<1>1. /\ Op(job) = do.op /\ do \in Instrs /\ do.ms \in Seq(Lines) /\ file \in Seq(Lines)
      /\ Ordered(file) /\ Below(file, ctx.next)
  <2>1. job \in Seq(Instrs) /\ file \in Seq(Lines)
    BY DEF Works, Typed, Data
  <2>2. do \in Instrs
    BY <2>1, HeadTail
  <2> QED
    BY <2>1, <2>2 DEF Op, Instrs, Numbered
<1>2. CASE do.op = "put"
  <2>1. PICK n \in 0 .. Len(do.ms) : cut.ctx = ctx /\ cut.file = file \o SubSeq(do.ms, 1, n)
    BY <1>2, CutIs
  <2>2. do.ms = Due(job)
    BY <1>1, <1>2 DEF Due
  <2>3. CASE Written(do.ms)
    <3> DEFINE e == SubSeq(do.ms, 1, n)
    <3>1. e \in Seq(Lines) /\ Marks(e) = {}
      <4>1. e \in Seq(Lines) /\ Marks(e) \subseteq Marks(do.ms)
        BY <1>1, BeginMarks
      <4>2. Marks(do.ms) = {}
        BY <2>3, WrittenMarks
      <4> QED
        BY <4>1, <4>2
    <3> HIDE DEF e
    <3>2. Ordered(file \o e) /\ Marks(file \o e) = Marks(file)
      BY <1>1, <3>1, OrderedSaid
    <3> QED
      BY <1>1, <2>1, <3>2 DEF e, Below
  <2>4. CASE \E id \in Nat : do.ms = <<Line(id)>>
    <3>1. Len(do.ms) = 1
      <4>1. \A l : Len(<<l>>) = 1
        OBVIOUS
      <4> QED
        BY <2>4, <4>1
    <3>2. CASE n = 0
      <4>1. \A s \in Seq(Lines) : SubSeq(s, 1, 0) = <<>>
        OBVIOUS
      <4>2. \A s \in Seq(Lines) : s \o <<>> = s
        OBVIOUS
      <4> QED
        BY <1>1, <2>1, <3>2, <4>1, <4>2
    <3>3. CASE n = 1
      <4>1. \A s \in Seq(Lines) : Len(s) = 1 => SubSeq(s, 1, 1) = s
        OBVIOUS
      <4>2. SubSeq(do.ms, 1, n) = Due(job)
        BY <1>1, <2>2, <3>1, <3>3, <4>1
      <4>3. Ordered(file \o Due(job)) /\ Below(file \o Due(job), ctx.next)
        BY <1>1, <1>2, DueInOrder
      <4> QED
        BY <2>1, <4>2, <4>3
    <3>4. \A k \in 0 .. 1 : k = 0 \/ k = 1
      OBVIOUS
    <3>5. n = 0 \/ n = 1
      BY <3>1, <3>4
    <3> QED
      BY <3>2, <3>3, <3>5
  <2> QED
    BY <1>1, <1>2, <2>2, <2>3, <2>4, DueInOrder
<1>3. CASE do.op = "load"
  <2>1. CASE cut.ctx = ctx /\ cut.file = file
    BY <1>1, <2>1
  <2>2. CASE \E n \in 0 .. Len(do.ms), k \in 0 .. Len(do.ms) :
                k <= n /\ cut.ctx = Restored(SubSeq(do.ms, 1, n)) /\ cut.file = SubSeq(do.ms, 1, k)
    <3>1. PICK n \in 0 .. Len(do.ms), k \in 0 .. Len(do.ms) :
                k <= n /\ cut.ctx = Restored(SubSeq(do.ms, 1, n)) /\ cut.file = SubSeq(do.ms, 1, k)
      BY <2>2
    <3> DEFINE read == SubSeq(do.ms, 1, n)
    <3>2. read \in Seq(Lines) /\ Ordered(read) /\ Below(read, cut.ctx.next)
      <4>0. do.ms \in Seq(Lines) /\ Ordered(do.ms)
        BY <1>1, <1>3 DEF Numbered
      <4> HIDE DEF do
      <4>1. read \in Seq(Lines) /\ Ordered(read)
        BY <4>0, BeginMarks
      <4> QED
        BY <3>1, <4>1, NextAbove
    <3>3. k \in 0 .. Len(read) /\ cut.file = SubSeq(read, 1, k)
      BY <1>1, <3>1
    <3> HIDE DEF read
    <3>4. Ordered(cut.file) /\ Marks(cut.file) \subseteq Marks(read)
      BY <3>2, <3>3, BeginMarks
    <3> QED
      BY <3>2, <3>4 DEF Below
  <2> QED
    BY <1>3, <2>1, <2>2, CutIs
<1>4. CASE do.op \notin {"put", "load"}
  <2>1. cut.ctx = ctx /\ cut.file \in {file, <<>>}
    BY <1>4, CutIs
  <2> QED
    BY <1>1, <2>1, NoMarks
<1> QED
  BY <1>2, <1>3, <1>4

LEMMA NumberedInit == Init => Numbered
<1> SUFFICES ASSUME Init PROVE Numbered
  OBVIOUS
<1>1. file = <<>> /\ job = <<>>
  BY DEF Init
<1>2. \A id : <<>> # <<Line(id)>>
  OBVIOUS
<1> QED
  BY <1>1, <1>2, NoMarks DEF Numbered, Op, Due

LEMMA NumberedTurn ==
  ASSUME Works, Numbered, TurnRuns
  PROVE  Numbered'
<1>0. /\ file \in Seq(Lines) /\ ctx \in Contexts /\ ctx.next \in Nat /\ Ordered(file) /\ pc # "down" /\ pc' = pc
      /\ Below(file, ctx.next) /\ \A id : <<>> # <<Line(id)>>
  <2>1. job # <<>> /\ pc' = pc
    BY DEF TurnRuns
  <2> QED
    BY <2>1 DEF Works, Typed, Data, Contexts, Numbered, Quiescent
<1>1. \A a : Planned(a) => Op(a) \notin {"wipe", "load"} /\ Due(a) = <<>>
  BY PlannedOp
<1>2. CASE /\ Op(job) = "say" /\ Head(job).ms \in Seq(Messages) /\ ctx' = Said(ctx, Head(job).ms) /\ file' = file
           /\ Op(job') = "put" /\ Due(job') = Head(job).ms
  <2>1. ctx'.next = ctx.next
    BY <1>0, <1>2, SaidIs
  <2>2. \A id : Due(job') # <<Line(id)>>
    BY <1>2, WrittenMarks DEF Written
  <2> QED
    BY <1>0, <1>2, <2>1, <2>2 DEF Numbered
<1>3. CASE /\ Op(job) = "count" /\ ctx' = [ctx EXCEPT !.pend = 0] /\ file' = file
           /\ Op(job') = "put" /\ Due(job') = <<Usage>>
  <2>1. ctx'.next = ctx.next
    BY <1>0, <1>3 DEF Contexts
  <2>2. \A id : Due(job') # <<Line(id)>>
    BY <1>3, WrittenMarks DEF Written
  <2> QED
    BY <1>0, <1>3, <2>1, <2>2 DEF Numbered
<1>4. CASE /\ Op(job) = "mark" /\ ctx' = [ctx EXCEPT !.next = @ + 1] /\ file' = file
           /\ Op(job') = "put" /\ Due(job') = <<Line(ctx.next)>>
  <2>1. ctx'.next = ctx.next + 1
    BY <1>0, <1>4 DEF Contexts
  <2>2. \A id : Due(job') = <<Line(id)>> => id = ctx.next
    <3>1. \A l, m : <<l>> = <<m>> => l = m
      OBVIOUS
    <3>2. \A a, b : Line(a) = Line(b) => a = b
      BY DEF Line
    <3> QED
      BY <1>4, <3>1, <3>2
  <2> QED
    BY <1>0, <1>4, <2>1, <2>2, BelowMore DEF Numbered
<1>5. CASE Op(job) = "put" /\ ctx' = ctx /\ file' = file \o Due(job) /\ Planned(job')
  BY <1>0, <1>1, <1>5, DueInOrder DEF Numbered
<1>6. CASE ctx' = ctx /\ file' = <<>> /\ Op(job') = "wipe" /\ Due(job') = <<>>
  BY <1>0, <1>6, NoMarks DEF Numbered
<1>7. CASE Op(job) = "wipe" /\ ctx' = Empty /\ file' = file /\ Planned(job')
  <2>1. Marks(file) = {}
    BY <1>7 DEF Numbered
  <2> QED
    BY <1>0, <1>1, <1>7, <2>1 DEF Numbered, Below
<1>8. CASE /\ ctx' = ctx /\ file' = <<>> /\ Op(job') = "load" /\ Due(job') = <<>>
           /\ \E id \in Nat : Head(job).ms = <<Line(id)>> /\ Head(job').ms = Kept(file, id)
  <2>1. PICK id \in Nat : Head(job').ms = Kept(file, id)
    BY <1>8
  <2>2. PICK p \in 0 .. Len(file) : Kept(file, id) = SubSeq(file, 1, p)
    BY <1>0, KeptBegins
  <2>3. Ordered(Kept(file, id)) /\ Marks(Kept(file, id)) \subseteq Marks(file)
    BY <1>0, <2>2, BeginMarks
  <2>4. Below(Kept(file, id), ctx.next)
    BY <1>0, <2>3 DEF Below
  <2> QED
    BY <1>0, <1>8, <2>1, <2>3, <2>4, NoMarks DEF Numbered
<1>9. CASE Op(job) = "load" /\ ctx' = Restored(Head(job).ms) /\ file' = Head(job).ms /\ Planned(job')
  <2>1. Ordered(Head(job).ms)
    BY <1>9 DEF Numbered
  <2>2. file' \in Seq(Lines)
    BY TypedStep DEF Works, Typed, Data, Next
  <2>3. Below(file', ctx'.next)
    BY <1>9, <2>1, <2>2, NextAbove
  <2> QED
    BY <1>0, <1>1, <1>9, <2>1, <2>3 DEF Numbered
<1> QED
  BY <1>2, <1>3, <1>4, <1>5, <1>6, <1>7, <1>8, <1>9, TurnRunsIs

LEMMA NumberedStep == Works /\ Numbered /\ [Next]_vars => Numbered'
<1> SUFFICES ASSUME Works, Numbered, [Next]_vars PROVE Numbered'
  OBVIOUS
<1>0. /\ Typed /\ Quiescent /\ file \in Seq(Lines) /\ ctx \in Contexts /\ Ordered(file) /\ \A id : <<>> # <<Line(id)>>
  BY DEF Works, Typed, Data, Numbered
<1>1. CASE TurnRuns
  BY <1>1, NumberedTurn
<1>2. CASE GrowRuns
  <2>1. grow # <<>> /\ ctx'.next = ctx.next /\ job' = job /\ pc' = pc
    BY <1>2, GrowRunsIs DEF GrowRuns
  <2>2. file' = file \/ (Written(Due(grow)) /\ file' = file \o Due(grow))
    BY <1>2, GrowRunsIs
  <2>3. Ordered(file') /\ Marks(file') = Marks(file)
    BY <1>0, <2>2, WrittenMarks, OrderedSaid
  <2> QED
    BY <2>1, <2>3 DEF Numbered, Below
<1>3. CASE Consume
  <2>1. PICK m \in Messages : ctx' = Said(ctx, <<m>>) /\ Op(job') = "put" /\ Due(job') = <<m>>
    BY <1>0, <1>3, ConsumePlan
  <2>2. <<m>> \in Seq(Messages)
    OBVIOUS
  <2>3. ctx'.next = ctx.next /\ \A id : Due(job') # <<Line(id)>>
    BY <1>0, <2>1, <2>2, SaidIs, WrittenMarks DEF Written
  <2>4. file' = file /\ pc # "down"
    BY <1>3 DEF Consume, At
  <2> QED
    BY <2>1, <2>3, <2>4 DEF Numbered, Below
<1>7. CASE WriteFails
  <2>1. job # <<>> /\ job' = <<>> /\ \E cut \in Cuts(Head(job)) : ctx' = cut.ctx /\ file' = cut.file
    BY <1>7, FailureIs
  <2>2. pc # "down"
    BY <1>0, <2>1 DEF Quiescent
  <2> QED
    BY <1>0, <2>1, <2>2, CutInOrder DEF Numbered, Op, Due
<1>8. CASE GrowFails
  <2>1. /\ grow # <<>> /\ job' = job /\ ctx' = ctx /\ Head(grow).op = "put"
        /\ \E cut \in Cuts(Head(grow)) : file' = cut.file
    BY <1>8, FailureIs
  <2>2. Written(Head(grow).ms) /\ Head(grow).ms \in Seq(Lines) /\ Marks(Head(grow).ms) = {}
    <3>1. Written(Head(grow).ms)
      BY <2>1 DEF Works, GrowOK, Op
    <3> QED
      BY <3>1, WrittenMarks
  <2>3. PICK n \in 0 .. Len(Head(grow).ms) : file' = file \o SubSeq(Head(grow).ms, 1, n)
    BY <2>1, CutIs
  <2> DEFINE e == SubSeq(Head(grow).ms, 1, n)
  <2>4. e \in Seq(Lines) /\ Marks(e) = {}
    <3>1. e \in Seq(Lines) /\ Marks(e) \subseteq Marks(Head(grow).ms)
      BY <2>2, BeginMarks
    <3> QED
      BY <2>2, <3>1
  <2>5. file' = file \o e
    BY <2>3
  <2> HIDE DEF e
  <2>6. Ordered(file') /\ Marks(file') = Marks(file)
    BY <1>0, <2>4, <2>5, OrderedSaid
  <2>7. pc # "down"
    BY <1>0, <2>1 DEF Quiescent
  <2> QED
    BY <2>1, <2>6, <2>7 DEF Numbered, Below
<1>4. CASE Cancel \/ Crash
  <2>1. job' = <<>> /\ pc # "down"
    BY <1>4 DEF Cancel, Crash
  <2>2. CASE job = <<>>
    <3>1. file' = file /\ (Cancel => ctx' = ctx)
      BY <1>4, <2>2 DEF Cancel, Crash
    <3>2. pc' # "down" => Cancel
      BY <1>4 DEF Crash
    <3> QED
      BY <1>0, <2>1, <3>1, <3>2 DEF Numbered, Op, Due
  <2>3. CASE job # <<>>
    <3>1. \E cut \in Cuts(Head(job)) : file' = cut.file /\ (Cancel => ctx' = cut.ctx)
      <4>1. CASE Cancel
        BY <2>3, <4>1 DEF Cancel
      <4>2. CASE ~Cancel
        BY <1>4, <2>3, <4>2 DEF Crash
      <4> QED
        BY <4>1, <4>2
    <3>2. pc' # "down" => Cancel
      BY <1>4 DEF Crash
    <3> QED
      BY <1>0, <2>1, <2>3, <3>1, <3>2, CutInOrder DEF Numbered, Op, Due
  <2> QED
    BY <2>2, <2>3
<1>5. CASE Restart
  <2>1. ctx' = Restored(file) /\ file' = file /\ job' = <<>>
    BY <1>0, <1>5 DEF Restart, Quiescent
  <2> QED
    BY <1>0, <2>1, NextAbove DEF Numbered, Op, Due
<1>6. CASE Begins /\ ~Restart
  <2>1. ctx' = ctx /\ file' = file /\ (pc' # "down" => pc # "down")
    BY <1>0, <1>6, DownUntilRestart DEF Begins
  <2>2. CASE job' = job
    BY <2>1, <2>2 DEF Numbered, Below
  <2>3. CASE Due(job') = <<>> /\ Op(job') \notin {"wipe", "load"}
    BY <1>0, <2>1, <2>3 DEF Numbered, Below
  <2> QED
    BY <1>0, <1>6, <2>2, <2>3, PlannedOp, TurnBackPlan DEF Begins
<1> QED
  BY <1>0, <1>1, <1>2, <1>3, <1>4, <1>5, <1>6, <1>7, <1>8, Steps

-----------------------------------------------------------------------------
(* The past that is noted for each checkpoint is what the whole file       *)
(* restores to when it is cut before the checkpoint's line.                *)

LEMMA WholeInOrder ==
  ASSUME Works, Numbered, pc # "down", ~torn
  PROVE  Whole \in Seq(Lines) /\ Ordered(Whole) /\ (Settled => Below(Whole, ctx.next) \/ Op(job) = "put")
<1>1. /\ file \in Seq(Lines) /\ job \in Seq(Instrs) /\ grow \in Seq(Instrs) /\ Whole \in Seq(Lines)
      /\ Ordered(file) /\ Below(file, ctx.next)
  BY WholeIs DEF Works, Typed, Data, Numbered
<1>2. CASE job = <<>>
  <2>1. Whole = file \o Due(grow) /\ Due(grow) \in Seq(Lines)
    BY <1>1, <1>2, FullIs DEF Whole
  <2>2. Marks(Due(grow)) = {}
    <3>1. CASE Op(grow) = "put"
      <4>1. Written(Due(grow))
        BY <3>1 DEF Due, Works, GrowOK
      <4> QED
        BY <4>1, WrittenMarks
    <3>2. CASE Op(grow) # "put"
      BY <3>2, NoMarks DEF Due
    <3> QED
      BY <3>1, <3>2
  <2>3. Marks(Whole) = Marks(file) /\ Ordered(Whole)
    BY <1>1, <2>1, <2>2, OrderedSaid
  <2> QED
    BY <1>1, <2>3 DEF Below
<1>3. CASE job # <<>>
  <2>1. grow = <<>>
    BY <1>3, Alone
  <2>2. Whole = file \o Due(job)
    BY <1>1, <2>1, FullIs DEF Whole
  <2>3. CASE Op(job) = "put"
    BY <1>1, <2>2, <2>3, DueInOrder
  <2>4. CASE Op(job) # "put"
    <3>1. Due(job) = <<>>
      BY <2>4 DEF Due
    <3>2. Whole = file
      BY <1>1, <2>1, <3>1, FullIs DEF Whole
    <3> QED
      BY <1>1, <3>2
  <2> QED
    BY <2>3, <2>4
<1> QED
  BY <1>2, <1>3

Remembers(f, p) == DOMAIN p = Marks(f) /\ \A id \in Marks(f) : p[id] = Restored(Kept(f, id)).hist

\* Lines that are no checkpoints change nothing of it.
LEMMA RemembersSaid ==
  ASSUME NEW f \in Seq(Lines), NEW ms \in Seq(Lines), Marks(ms) = {}, NEW p, Remembers(f, p)
  PROVE  Remembers(f \o ms, p)
<1>1. Marks(f \o ms) = Marks(f)
  BY OrderedSaid
<1>2. \A id \in Marks(f) : Kept(f \o ms, id) = Kept(f, id)
  BY KeptAppended
<1> QED
  BY <1>1, <1>2 DEF Remembers

\* A new checkpoint remembers the history it found.
LEMMA RemembersMarked ==
  ASSUME NEW f \in Seq(Lines), NEW n \in Nat, Below(f, n), NEW p, Remembers(f, p), NEW q,
         q = [id \in {i \in DOMAIN p : i < n} \cup {n} |-> IF id = n THEN Restored(f).hist ELSE p[id]]
  PROVE  Remembers(f \o <<Line(n)>>, q)
<1>1. <<Line(n)>> \in Seq(Lines) /\ Marks(f \o <<Line(n)>>) = Marks(f) \cup {n}
  BY MarksOfLine, MarksAppended
<1>2. Marks(f) \subseteq Nat /\ n \notin Marks(f)
  BY MarksAre DEF Below
<1>3. DOMAIN q = Marks(f) \cup {n}
  BY DEF Remembers, Below
<1>4. Kept(f \o <<Line(n)>>, n) = f
  BY <1>2, KeptOfNew
<1>5. ASSUME NEW id \in Marks(f) PROVE q[id] = Restored(Kept(f \o <<Line(n)>>, id)).hist
  <2>1. q[id] = p[id]
    BY <1>2, <1>3
  <2>2. Kept(f \o <<Line(n)>>, id) = Kept(f, id)
    BY <1>1, KeptAppended
  <2> QED
    BY <2>1, <2>2 DEF Remembers
<1>6. q[n] = Restored(f).hist
  OBVIOUS
<1> QED
  BY <1>1, <1>3, <1>4, <1>5, <1>6 DEF Remembers

\* What revert_to keeps remembers the checkpoints before the cut.
LEMMA RemembersKept ==
  ASSUME NEW f \in Seq(Lines), Ordered(f), NEW p, Remembers(f, p), NEW a, NEW e, e = Kept(f, a)
  PROVE  Remembers(e, Restrict(p, {i \in DOMAIN p : i < Restored(e).next}))
<1>1. PICK n \in 0 .. Len(f) : e = SubSeq(f, 1, n)
  BY KeptBegins
<1>2. Marks(e) = {id \in Marks(f) : id < Restored(e).next}
  BY <1>1, MarksOfBegin
<1> DEFINE q == Restrict(p, {i \in DOMAIN p : i < Restored(e).next})
<1>3. DOMAIN q = Marks(e) /\ \A id \in Marks(e) : q[id] = p[id]
  BY <1>2 DEF Restrict, Remembers
<1>4. \A id \in Marks(e) : p[id] = Restored(Kept(e, id)).hist
  <2> TAKE id \in Marks(e)
  <2>1. id \in Marks(f) /\ Kept(e, id) = Kept(f, id)
    BY KeptTwice
  <2> QED
    BY <2>1 DEF Remembers
<1> QED
  BY <1>3, <1>4 DEF Remembers

LEMMA RemembersNothing == Remembers(<<>>, <<>>)
BY NoMarks DEF Remembers

\* What the running process has noted.
Remembered ==
    ~torn /\ pc # "down" =>
        /\ Settled => Remembers(Whole, past)
        /\ Op(job) = "load" =>
               Remembers(Head(job).ms, Restrict(past, {i \in DOMAIN past : i < Restored(Head(job).ms).next}))

LEMMA RememberedInit == Init => Remembered
<1> SUFFICES ASSUME Init PROVE Remembers(Whole, past) /\ Op(job) = "none"
  BY DEF Remembered
<1>1. job = <<>> /\ grow = <<>> /\ file = <<>> /\ past = <<>>
  BY DEF Init
<1>2. Whole = <<>>
  BY <1>1, TypedInit, WholeIs
<1> QED
  BY <1>1, <1>2, RemembersNothing DEF Op

LEMMA RememberedStep == Works /\ Numbered /\ Consistent /\ Remembered /\ [Next]_vars => Remembered'
<1> SUFFICES ASSUME Works, Numbered, Consistent, Remembered, [Next]_vars, ~torn', pc' # "down"
             PROVE  /\ Settled' => Remembers(Whole', past')
                    /\ Op(job') = "load" =>
                         Remembers(Head(job').ms, Restrict(past', {i \in DOMAIN past' : i < Restored(Head(job').ms).next}))
  BY DEF Remembered
<1>1. pc # "down" /\ ~torn => Whole \in Seq(Lines) /\ Ordered(Whole)
  BY WholeInOrder
<1>2. Settled' => Op(job') # "load"
  BY DEF Settled
<1>3. CASE pc # "down" /\ ~torn /\ Extends
  <2>1. Remembers(Whole, past) /\ Settled' /\ past' = past
    BY <1>3 DEF Extends, Remembered
  <2>2. \/ Whole' = Whole
        \/ \E ms \in Seq(Lines) : Marks(ms) = {} /\ Whole' = Whole \o ms
    BY <1>3, MarksOfUsage, MarksOfMessages, MessagesAreLines DEF Extends
  <2>3. Remembers(Whole', past)
    BY <1>1, <1>3, <2>1, <2>2, RemembersSaid
  <2> QED
    BY <1>2, <2>1, <2>3
<1>4. CASE pc # "down" /\ ~torn /\ NewMark
  <2>1. /\ Settled /\ Settled' /\ Op(job) # "put" /\ Whole' = Whole \o <<Line(ctx.next)>>
        /\ past' = [id \in {i \in DOMAIN past : i < ctx.next} \cup {ctx.next} |-> IF id = ctx.next THEN ctx.hist ELSE past[id]]
    BY <1>4 DEF NewMark
  <2>2. Remembers(Whole, past) /\ ctx = Restored(Whole) /\ ctx.next \in Nat
    BY <1>4, <2>1 DEF Remembered, Consistent, Works, Typed, Data, Contexts
  <2>3. Below(Whole, ctx.next)
    BY <1>4, <2>1, WholeInOrder
  <2> DEFINE n == ctx.next
  <2>4. n \in Nat /\ Below(Whole, n) /\ Whole' = Whole \o <<Line(n)>>
        /\ past' = [id \in {i \in DOMAIN past : i < n} \cup {n} |-> IF id = n THEN Restored(Whole).hist ELSE past[id]]
    BY <2>1, <2>2, <2>3
  <2> HIDE DEF n
  <2>5. Remembers(Whole \o <<Line(n)>>, past')
    BY <1>1, <1>4, <2>2, <2>4, RemembersMarked
  <2> QED
    BY <1>2, <2>1, <2>4, <2>5
<1>5. CASE pc # "down" /\ ~torn /\ Waits
  BY <1>5 DEF Waits, Settled, Remembered
<1>6. CASE Clears
  BY <1>6 DEF Clears, Settled
<1>7. CASE pc # "down" /\ ~torn /\ Wipes
  <2>1. file = <<>>
    BY <1>7 DEF Wipes, Consistent
  <2> QED
    BY <1>2, <1>7, <2>1, RemembersNothing DEF Wipes
<1>8. CASE pc # "down" /\ ~torn /\ Reverts
  <2>1. PICK id : Head(job').ms = Kept(Whole, id)
    BY <1>8 DEF Reverts
  <2>2. Remembers(Whole, past) /\ past' = past /\ Op(job') = "load"
    BY <1>8 DEF Reverts, Remembered, Settled
  <2>3. \A e : e = Kept(Whole, id) => Remembers(e, Restrict(past, {i \in DOMAIN past : i < Restored(e).next}))
    BY <1>1, <1>8, <2>2, RemembersKept
  <2> QED
    BY <2>1, <2>2, <2>3 DEF Settled
<1>9. CASE pc # "down" /\ ~torn /\ Loads
  BY <1>2, <1>9 DEF Loads, Remembered
<1>10. CASE Restarts
  <2>1. DOMAIN past' = Marks(file) /\ \A id \in Marks(file) : past'[id] = Restored(Kept(file, id)).hist
    BY <1>10 DEF Restarts
  <2> QED
    BY <1>2, <1>10, <2>1 DEF Restarts, Remembers
<1> QED
  BY <1>3, <1>4, <1>5, <1>6, <1>7, <1>8, <1>9, <1>10, WholeSteps

-----------------------------------------------------------------------------
(* A D-Mail that is sent carries the history behind its checkpoint, and so *)
(* does the one that is being applied.                                     *)

Turning == Op(job) \in {"revert", "load"}

\* One D-Mail is pending at most, one is applied only by a job that turns back, and none is
\* pending then.
MailShape ==
    /\ \A m \in mail \cup aim : m.era <= era
    /\ \A m, n \in mail : m = n
    /\ aim # {} => Turning
    /\ Turning => mail = {} /\ pc = "between"
    /\ pc = "down" => mail = {}

LEMMA MailShapeInit == Init => MailShape
<1> SUFFICES ASSUME Init PROVE MailShape
  OBVIOUS
<1>1. job = <<>> /\ mail = {} /\ aim = {}
  BY DEF Init
<1> QED
  BY <1>1 DEF MailShape, Turning, Op

\* Most steps leave the mail alone or drop it.
Leaves ==
    /\ mail' \in {mail, {}} /\ aim' \in {aim, {}} /\ past' = past /\ era' = era
    /\ torn => torn'
    /\ pc' = "down" <=> pc = "down"
    /\ job # <<>> => \/ job' = job /\ pc' = pc /\ aim' = aim
                     \/ job' = <<>> /\ aim' = {} /\ pc' = "idle"
                     \/ job' = <<>> /\ aim' = aim /\ pc' = pc /\ pc = "ask"
    /\ Turning' => Turning

LEMMA MailMoves ==
  ASSUME Typed, Quiescent, [Next]_vars
  PROVE  Leaves \/ TurnRuns \/ SendMail \/ TurnBack \/ Crash \/ Restart
<1> SUFFICES ASSUME ~TurnRuns, ~SendMail, ~TurnBack, ~Crash, ~Restart PROVE Leaves
  OBVIOUS
<1>1. Turning' => Turning
  <2>1. CASE Consume
    BY <2>1, ConsumePlan DEF Turning
  <2>2. CASE Cancel
    BY <2>2 DEF Cancel, Turning, Op
  <2>3. CASE GrowRuns
    BY <2>3 DEF GrowRuns, Turning, Op
  <2>4. CASE Begins
    <3>1. job' = job \/ Planned(job')
      BY <2>4 DEF Begins
    <3> QED
      BY <3>1, PlannedOp DEF Turning, Op
  <2>5. CASE WriteFails \/ GrowFails
    BY <2>5, FailureIs DEF Turning, Op
  <2> QED
    BY <2>1, <2>2, <2>3, <2>4, <2>5, Steps
<1>21. CASE WriteFails \/ GrowFails
  <2>1. torn' = TRUE /\ UNCHANGED <<mail, past, era>> /\ (UNCHANGED <<pc, aim>> \/ (pc' = "idle" /\ aim' = {}))
    BY <1>21, FailureIs DEF Ends, soul
  <2>2. pc # "down"
    BY <1>21, FailureIs DEF Quiescent
  <2>3. job # <<>> => \/ job' = job /\ pc' = pc /\ aim' = aim
                      \/ job' = <<>> /\ aim' = {} /\ pc' = "idle"
                      \/ job' = <<>> /\ aim' = aim /\ pc' = pc /\ pc = "ask"
    <3>1. CASE WriteFails
      <4>1. job' = <<>> /\ job # <<>> /\ ((pc = "ask" /\ UNCHANGED <<pc, aim>>) \/ (pc' = "idle" /\ aim' = {}))
        BY <3>1 DEF WriteFails, Ends
      <4> QED
        BY <4>1
    <3>2. CASE GrowFails
      <4>1. job' = job /\ (pc = "growing" \/ UNCHANGED <<pc, aim>>)
        BY <3>2 DEF GrowFails
      <4> QED
        BY <4>1 DEF Quiescent
    <3> QED
      BY <1>21, <3>1, <3>2
  <2> QED
    BY <1>1, <2>1, <2>2, <2>3 DEF Leaves
<1> USE DEF context, seen, soul, denwa, At, Grown
<1>0. torn \in BOOLEAN
  BY DEF Typed, Flags
<1>2. CASE GrowRuns
  BY <1>0, <1>1, <1>2 DEF Leaves, GrowRuns, Ends, Compact, Quiescent
<1>3. CASE Prompt
  BY <1>0, <1>1, <1>3 DEF Leaves, Prompt, Ends, Compact, Quiescent
<1>4. CASE Steer
  BY <1>0, <1>1, <1>4 DEF Leaves, Steer, Ends, Compact, Quiescent
<1>5. CASE UNCHANGED vars
  BY <1>0, <1>1, <1>5 DEF Leaves, vars, Ends, Compact, Quiescent
<1>6. CASE OpenTurn \/ ClearCommand \/ BeginLoop \/ CommandDone
  BY <1>0, <1>1, <1>6 DEF Leaves, OpenTurn, ClearCommand, BeginLoop, CommandDone, Ends, Compact, Quiescent
<1>7. CASE EndRun
  BY <1>0, <1>1, <1>7 DEF Leaves, EndRun, Ends, Compact, Quiescent
<1>8. CASE Raise
  BY <1>0, <1>1, <1>8 DEF Leaves, Raise, Ends, Compact, Quiescent
<1>9. CASE TurnBackFails
  BY <1>0, <1>1, <1>9 DEF Leaves, TurnBackFails, Ends, Compact, Quiescent
<1>10. CASE ConsumeFails
  BY <1>0, <1>1, <1>10 DEF Leaves, ConsumeFails, Ends, Compact, Quiescent
<1>11. CASE Cancel
  BY <1>0, <1>1, <1>11 DEF Leaves, Cancel, Ends, Compact, Quiescent
<1>12. CASE CompactCommand
  BY <1>0, <1>1, <1>12 DEF Leaves, CompactCommand, Ends, Compact, Quiescent
<1>13. CASE Rebuild
  BY <1>0, <1>1, <1>13 DEF Leaves, Rebuild, Ends, Compact, Quiescent
<1>14. CASE BeginStep
  BY <1>0, <1>1, <1>14 DEF Leaves, BeginStep, Ends, Compact, Quiescent
<1>15. CASE Overflow
  BY <1>0, <1>1, <1>15 DEF Leaves, Overflow, Ends, Compact, Quiescent
<1>16. CASE TellCheckpoints
  BY <1>0, <1>1, <1>16 DEF Leaves, TellCheckpoints, Ends, Compact, Quiescent
<1>17. CASE Inject
  BY <1>0, <1>1, <1>17 DEF Leaves, Inject, Ends, Compact, Quiescent
<1>18. CASE Answer
  BY <1>0, <1>1, <1>18 DEF Leaves, Answer, Ends, Compact, Quiescent
<1>19. CASE ToolsEnd
  BY <1>0, <1>1, <1>19 DEF Leaves, ToolsEnd, Ends, Compact, Quiescent
<1>20. CASE Rejected \/ Resolve \/ Consume \/ NextStep \/ Return
  BY <1>0, <1>1, <1>20 DEF Leaves, Rejected, Resolve, Consume, NextStep, Return, Ends, Compact, Quiescent
<1> QED
  BY <1>2, <1>3, <1>4, <1>5, <1>6, <1>7, <1>8, <1>9, <1>10, <1>11, <1>12, <1>13, <1>14, <1>15, <1>16, <1>17, <1>18, <1>19, <1>20, <1>21 DEF Next

LEMMA MailShapeStep == Works /\ MailShape /\ [Next]_vars => MailShape'
<1> SUFFICES ASSUME Works, MailShape, [Next]_vars PROVE MailShape'
  OBVIOUS
<1>0. Typed /\ Quiescent /\ era \in Nat /\ mail \subseteq Mails /\ aim \subseteq Mails
  BY DEF Works, Typed, Mailing
<1>1. CASE Leaves
  <2>1. mail' \subseteq mail /\ aim' \subseteq aim /\ era' = era
    BY <1>1 DEF Leaves
  <2>2. Turning => job # <<>>
    BY DEF Turning, Op
  <2>3. aim' # {} => Turning' /\ Turning /\ pc' = pc
    <3>1. aim' # {} => Turning /\ job' = job /\ pc' = pc
      BY <1>1, <2>1, <2>2 DEF Leaves, MailShape
    <3> QED
      BY <3>1 DEF Turning
  <2>4. Turning' => mail' = {} /\ pc' = "between"
    <3>1. job' = <<>> => ~Turning'
      BY DEF Turning, Op
    <3> QED
      BY <1>1, <2>1, <2>2, <3>1 DEF Leaves, MailShape
  <2>5. pc' = "down" => mail' = {}
    BY <1>1, <2>1 DEF Leaves, MailShape
  <2> QED
    BY <2>1, <2>3, <2>4, <2>5 DEF MailShape
<1>2. CASE TurnRuns
  <2>1. /\ mail' = mail /\ pc' = pc /\ Op(job) = Head(job).op
        /\ era' = IF Head(job).op = "wipe" THEN era + 1 ELSE era
        /\ aim' = IF Head(job).op = "load" THEN {} ELSE aim
    BY <1>2, TurnRunsIs DEF TurnRuns
  <2>2. Turning' => Op(job) = "revert"
    BY <1>2, TurnRunsIs, PlannedOp DEF Turning
  <2>3. Op(job) = "revert" => Turning'
    BY <1>2, TurnRunsIs DEF Turning
  <2>4. aim' # {} => Op(job) = "revert"
    BY <2>1 DEF MailShape, Turning
  <2>5. \A m \in mail' \cup aim' : m.era <= era'
    <3> TAKE m \in mail' \cup aim'
    <3>1. m \in mail \cup aim /\ m.era \in Nat /\ m.era <= era
      BY <1>0, <2>1 DEF MailShape, Mails
    <3>2. era' = era \/ era' = era + 1
      BY <2>1
    <3> QED
      BY <1>0, <3>1, <3>2
  <2> QED
    BY <2>1, <2>2, <2>3, <2>4, <2>5 DEF MailShape, Turning
<1>3. CASE SendMail
  <2>1. /\ pc' = pc /\ pc \in {"ask", "tools"} /\ job' = job /\ aim' = aim /\ era' = era
        /\ \E m : mail' = {m} /\ m.era = era
    <3>1. PICK to : mail' = {[to |-> to, era |-> era, past |-> {past[i] : i \in DOMAIN past \cap {to}}]}
      BY <1>3 DEF SendMail
    <3> DEFINE m == [to |-> to, era |-> era, past |-> {past[i] : i \in DOMAIN past \cap {to}}]
    <3>2. mail' = {m} /\ m.era = era
      BY <3>1
    <3> QED
      BY <1>3, <3>2 DEF SendMail, At, context, seen
  <2>2. ~Turning /\ ~Turning' /\ aim = {}
    BY <2>1 DEF MailShape, Turning
  <2> QED
    BY <1>0, <2>1, <2>2 DEF MailShape
<1>4. CASE TurnBack
  <2>1. aim' = mail /\ mail' = {} /\ pc' = "between" /\ era' = era
    BY <1>4 DEF TurnBack, seen
  <2>2. Turning'
    BY <1>0, <1>4, TurnBackPlan DEF Turning
  <2> QED
    BY <2>1, <2>2 DEF MailShape
<1>5. CASE Crash
  <2>1. mail' = {} /\ aim' = {} /\ job' = <<>>
    BY <1>5 DEF Crash
  <2> QED
    BY <2>1 DEF MailShape, Turning, Op
<1>6. CASE Restart
  <2>1. mail' = {} /\ aim' = aim /\ job' = <<>> /\ job = <<>>
    BY <1>0, <1>6 DEF Restart, denwa, Quiescent, MailShape
  <2>2. aim' = {}
    BY <2>1 DEF MailShape, Turning, Op
  <2> QED
    BY <2>1, <2>2 DEF MailShape, Turning, Op
<1> QED
  BY <1>0, <1>1, <1>2, <1>3, <1>4, <1>5, <1>6, MailMoves

Genuine(m) == m.era = era /\ m.past # {} => m.to \in DOMAIN past /\ m.past = {past[m.to]}
MailTrue ==
    ~torn /\ pc # "down" =>
        /\ \A m \in mail : Genuine(m)
        /\ Op(job) = "revert" => \A m \in aim : Genuine(m) /\ Head(job).ms = <<Line(m.to)>>
        /\ Op(job) = "load" => \A m \in aim : m.era = era /\ m.past # {}
                                                 => m.past = {Restored(Head(job).ms).hist}

LEMMA MailTrueInit == Init => MailTrue
<1> SUFFICES ASSUME Init PROVE MailTrue
  OBVIOUS
<1>1. job = <<>> /\ mail = {}
  BY DEF Init
<1> QED
  BY <1>1 DEF MailTrue, Op

\* What an instruction does to the pasts that a D-Mail may name.
LEMMA PastKept ==
  ASSUME Works, Numbered, Remembered, MailShape, MailTrue, TurnRuns, ~torn, NEW m \in mail
  PROVE  Genuine(m)'
<1>1. /\ job # <<>> /\ pc # "down" /\ grow = <<>> /\ Op(job) = Head(job).op /\ past' = Past(Head(job))
      /\ era' = (IF Head(job).op = "wipe" THEN era + 1 ELSE era) /\ era \in Nat /\ m.era \in Nat /\ m.era <= era
  <2>1. job # <<>> /\ Op(job) = Head(job).op /\ past' = Past(Head(job))
        /\ era' = (IF Head(job).op = "wipe" THEN era + 1 ELSE era)
    BY TurnRunsIs DEF TurnRuns
  <2> QED
    BY <2>1, Alone DEF Works, Quiescent, Typed, Mailing, MailShape, Mails
<1>2. Genuine(m)
  BY <1>1 DEF MailTrue
<1>3. CASE Op(job) = "wipe"
  <2>1. m.era # era'
    BY <1>1, <1>3
  <2> QED
    BY <2>1 DEF Genuine
<1>4. CASE Op(job) = "load"
  BY <1>4 DEF MailShape, Turning
<1>5. CASE Op(job) = "mark"
  <2>1. past' = [id \in {i \in DOMAIN past : i < ctx.next} \cup {ctx.next} |-> IF id = ctx.next THEN ctx.hist ELSE past[id]]
    BY <1>1, <1>5 DEF Past
  <2>2. Settled /\ Remembers(Whole, past)
    BY <1>1, <1>5 DEF Remembered, Settled
  <2>3. Below(Whole, ctx.next)
    BY <1>1, <1>5, <2>2, WholeInOrder
  <2>4. \A id \in DOMAIN past : id < ctx.next /\ id \in Nat /\ ctx.next \in Nat
    BY <2>2, <2>3 DEF Remembers, Below, Works, Typed, Mailing, Data, Contexts
  <2>5. \A id \in DOMAIN past : id \in DOMAIN past' /\ past'[id] = past[id]
    <3> TAKE id \in DOMAIN past
    <3>1. id < ctx.next /\ id # ctx.next
      BY <2>4
    <3> QED
      BY <2>1, <3>1
  <2>6. era' = era
    BY <1>1, <1>5
  <2> QED
    BY <1>2, <2>5, <2>6 DEF Genuine
<1>6. CASE Op(job) \notin {"wipe", "load", "mark"}
  <2>1. past' = past /\ era' = era
    BY <1>1, <1>6 DEF Past
  <2> QED
    BY <1>2, <2>1 DEF Genuine
<1> QED
  BY <1>3, <1>4, <1>5, <1>6

LEMMA MailTrueStep == Works /\ Numbered /\ Remembered /\ MailShape /\ MailTrue /\ [Next]_vars => MailTrue'
<1> SUFFICES ASSUME Works, Numbered, Remembered, MailShape, MailTrue, [Next]_vars, ~torn', pc' # "down"
             PROVE  /\ \A m \in mail' : Genuine(m)'
                    /\ Op(job') = "revert" => \A m \in aim' : Genuine(m)' /\ Head(job').ms = <<Line(m.to)>>
                    /\ Op(job') = "load" => \A m \in aim' : m.era = era' /\ m.past # {}
                                                              => m.past = {Restored(Head(job').ms).hist}
  BY DEF MailTrue
<1>0. Typed /\ Quiescent /\ MailShape'
  BY MailShapeStep DEF Works
<1>1. CASE Leaves
  <2>1. mail' \subseteq mail /\ aim' \subseteq aim /\ era' = era /\ past' = past /\ ~torn /\ pc # "down"
    BY <1>1 DEF Leaves
  <2>2. Turning' => job' = job
    <3>1. job' = <<>> => ~Turning'
      BY DEF Turning, Op
    <3>2. Turning => job # <<>>
      BY DEF Turning, Op
    <3> QED
      BY <1>1, <3>1, <3>2 DEF Leaves
  <2>3. \A m : Genuine(m)' <=> Genuine(m)
    BY <2>1 DEF Genuine
  <2> QED
    BY <2>1, <2>2, <2>3 DEF MailTrue, Turning
<1>2. CASE TurnRuns
  <2>1. ~torn /\ pc # "down" /\ mail' = mail /\ grow = <<>> /\ Op(job) = Head(job).op /\ Head(job) \in Instrs
    BY <1>2, Alone, TurnRunsIs DEF TurnRuns
  <2>2. \A m \in mail' : Genuine(m)'
    BY <1>2, <2>1, PastKept
  <2>3. Op(job') # "revert"
    BY <1>2, TurnRunsIs, PlannedOp
  <2>4. ASSUME Op(job') = "load", NEW m \in aim', m.era = era', m.past # {}
        PROVE  m.past = {Restored(Head(job').ms).hist}
    <3>1. /\ Op(job) = "revert" /\ Due(job) = <<>>
          /\ \E id \in Nat : Head(job).ms = <<Line(id)>> /\ Head(job').ms = Kept(file, id)
      BY <1>2, <2>4, TurnRunsIs, PlannedOp
    <3>2. aim' = aim /\ era' = era
      BY <1>2, <2>1, <3>1 DEF TurnRuns
    <3>3. m.to \in DOMAIN past /\ m.past = {past[m.to]} /\ Head(job).ms = <<Line(m.to)>>
      BY <2>1, <2>4, <3>1, <3>2 DEF MailTrue, Genuine
    <3>4. Head(job').ms = Kept(file, m.to)
      <4>1. \A a, b : <<Line(a)>> = <<Line(b)>> => a = b
        BY DEF Line
      <4> QED
        BY <3>1, <3>3, <4>1
    <3>5. Whole = file /\ Settled
      BY <1>0, <2>1, <3>1, WholeIs DEF Settled
    <3>6. Remembers(file, past)
      BY <2>1, <3>5 DEF Remembered
    <3> QED
      BY <3>3, <3>4, <3>6 DEF Remembers
  <2> QED
    BY <2>2, <2>3, <2>4
<1>3. CASE SendMail
  <2>1. PICK to \in 0 .. known - 1 :
          mail' = {[to |-> to, era |-> era, past |-> {past[i] : i \in DOMAIN past \cap {to}}]}
    BY <1>3 DEF SendMail
  <2>2. pc' = pc /\ pc \in {"ask", "tools"} /\ era' = era /\ past' = past
    BY <1>3 DEF SendMail, At, seen
  <2>3. Op(job') \notin {"revert", "load"}
    BY <1>0, <2>2 DEF MailShape, Turning
  <2>4. ASSUME NEW m \in mail' PROVE Genuine(m)'
    <3>1. m.to = to /\ m.past = {past[i] : i \in DOMAIN past \cap {to}}
      BY <2>1
    <3>2. m.past # {} => to \in DOMAIN past /\ m.past = {past[to]}
      BY <3>1
    <3> QED
      BY <2>2, <3>1, <3>2 DEF Genuine
  <2> QED
    BY <2>3, <2>4
<1>4. CASE TurnBack
  <2>1. aim' = mail /\ mail' = {} /\ pc # "down" /\ ~torn /\ era' = era /\ past' = past
    BY <1>4 DEF TurnBack, Grown, At, seen
  <2>2. Op(job') = "revert" /\ \E m \in mail : Head(job').ms = <<Line(m.to)>>
    BY <1>0, <1>4, TurnBackPlan
  <2>3. \A m \in mail : Genuine(m)' /\ Head(job').ms = <<Line(m.to)>>
    <3> TAKE m \in mail
    <3>1. Genuine(m)
      BY <2>1 DEF MailTrue
    <3>2. \A n \in mail : n = m
      BY DEF MailShape
    <3> QED
      BY <2>1, <2>2, <3>1, <3>2 DEF Genuine
  <2> QED
    BY <2>1, <2>2, <2>3
<1>5. CASE Restart
  <2>1. mail' = {} /\ job' = <<>>
    BY <1>0, <1>5 DEF Restart, denwa, Quiescent, MailShape
  <2> QED
    BY <2>1 DEF Op
<1>6. ~Crash
  BY DEF Crash
<1> QED
  BY <1>0, <1>1, <1>2, <1>3, <1>4, <1>5, <1>6, MailMoves

\* A D-Mail turns the history back to what it was when its checkpoint was made, unless the
\* checkpoints were numbered anew since it was sent or the checkpoint's line had been lost.
THEOREM MailTurnsBackCorrect == Spec => MailTurnsBack
<1> DEFINE I == Works /\ Numbered /\ Consistent /\ Remembered /\ MailShape /\ MailTrue
<1>1. ASSUME I, [Next]_vars, NEW m \in aim, aim' = {}, pc' = pc, ~torn, m.era = era, m.past # {}
      PROVE  ctx'.hist \in m.past
  <2>1. Typed /\ Quiescent /\ Turning /\ pc = "between" /\ job # <<>>
    BY <1>1 DEF MailShape, Works, Turning, Op
  <2>2. ~Leaves
    BY <1>1, <2>1 DEF Leaves
  <2>3. ~SendMail /\ ~TurnBack /\ ~Crash /\ ~Restart
    BY <1>1, <2>1 DEF SendMail, TurnBack, Grown, At, Crash, Restart
  <2>4. TurnRuns
    BY <1>1, <2>1, <2>2, <2>3, MailMoves
  <2>5. Op(job) = "load"
    BY <1>1, <2>1, <2>4, TurnRunsIs DEF TurnRuns, Turning
  <2>6. ctx' = Restored(Head(job).ms)
    BY <1>1, <2>4, <2>5, TurnRunsIs
  <2> QED
    BY <1>1, <2>1, <2>5, <2>6 DEF MailTrue
<1>2. I /\ [Next]_vars => [\A m \in aim : aim' = {} /\ pc' = pc /\ ~torn /\ m.era = era /\ m.past # {}
                                              => ctx'.hist \in m.past]_vars
  BY <1>1
<1>3. Init => I
  BY WorksInit, NumberedInit, ConsistentInit, RememberedInit, MailShapeInit, MailTrueInit
<1>4. I /\ [Next]_vars => I'
  BY WorksStep, NumberedStep, ConsistentStep, RememberedStep, MailShapeStep, MailTrueStep
<1> HIDE DEF I
<1> QED
  BY <1>2, <1>3, <1>4, PTL DEF Spec, MailTurnsBack

-----------------------------------------------------------------------------
(* Calls and results stand in pairs, in the history and in everything a    *)
(* history is made from.                                                   *)

Paired(h) ==
    \A i \in 1 .. Len(h) :
       /\ h[i][1] = "result" => i - 1 \in 1 .. Len(h) /\ h[i - 1] = <<"call", h[i][2]>>
       /\ h[i][1] = "call" => i + 1 \in 1 .. Len(h) /\ h[i + 1] = <<"result", h[i][2]>>

LEMMA PairedNothing == Paired(<<>>) /\ Paired(Empty.hist)
<1>1. Len(<<>>) = 0
  OBVIOUS
<1>2. 1 .. 0 = {}
  OBVIOUS
<1> QED
  BY <1>1, <1>2, EmptyContext DEF Paired

LEMMA PairedOne == ASSUME NEW m, m[1] \notin {"call", "result"} PROVE Paired(<<m>>)
<1>1. Len(<<m>>) = 1 /\ <<m>>[1] = m
  OBVIOUS
<1>2. \A i \in 1 .. 1 : i = 1
  OBVIOUS
<1> QED
  BY <1>1, <1>2 DEF Paired

LEMMA PairedTwo == ASSUME NEW n PROVE Paired(<<<<"call", n>>, <<"result", n>>>>)
<1> DEFINE h == <<<<"call", n>>, <<"result", n>>>>
<1>1. Len(h) = 2 /\ h[1] = <<"call", n>> /\ h[2] = <<"result", n>>
  OBVIOUS
<1>2. <<"call", n>>[1] = "call" /\ <<"call", n>>[2] = n /\ <<"result", n>>[1] = "result" /\ <<"result", n>>[2] = n
  OBVIOUS
<1> HIDE DEF h
<1>3. \A i \in 1 .. 2 : i = 1 \/ i = 2
  OBVIOUS
<1>4. 1 \in 1 .. 2 /\ 2 \in 1 .. 2 /\ 2 - 1 = 1 /\ 1 + 1 = 2
  OBVIOUS
<1>5. Paired(h)
  BY <1>1, <1>2, <1>3, <1>4 DEF Paired
<1> QED
  BY <1>5 DEF h

LEMMA Pieces ==
  ASSUME NEW X, NEW a \in Seq(X), NEW b \in Seq(X), NEW c, c = a \o b
  PROVE  /\ c \in Seq(X) /\ Len(a) \in Nat /\ Len(b) \in Nat /\ Len(c) = Len(a) + Len(b)
         /\ \A i \in 1 .. Len(a) : i \in 1 .. Len(c) /\ c[i] = a[i]
         /\ \A j \in 1 .. Len(b) : Len(a) + j \in 1 .. Len(c) /\ c[Len(a) + j] = b[j]
OBVIOUS

LEMMA PairedJoined ==
  ASSUME NEW a \in Seq(Messages), NEW b \in Seq(Messages), Paired(a), Paired(b)
  PROVE  Paired(a \o b)
<1> DEFINE c == a \o b
<1> HIDE DEF c
<1>1. /\ Len(a) \in Nat /\ Len(b) \in Nat /\ Len(c) = Len(a) + Len(b)
      /\ \A i \in 1 .. Len(a) : i \in 1 .. Len(c) /\ c[i] = a[i]
      /\ \A j \in 1 .. Len(b) : Len(a) + j \in 1 .. Len(c) /\ c[Len(a) + j] = b[j]
  BY Pieces DEF c
<1>2. ASSUME NEW i \in 1 .. Len(c)
      PROVE  /\ c[i][1] = "result" => i - 1 \in 1 .. Len(c) /\ c[i - 1] = <<"call", c[i][2]>>
             /\ c[i][1] = "call" => i + 1 \in 1 .. Len(c) /\ c[i + 1] = <<"result", c[i][2]>>
  <2>1. CASE i \in 1 .. Len(a)
    <3>1. c[i] = a[i]
      BY <1>1, <2>1
    <3>2. \A k \in 1 .. Len(a) : k \in 1 .. Len(c) /\ c[k] = a[k]
      BY <1>1
    <3> QED
      BY <2>1, <3>1, <3>2 DEF Paired
  <2>2. CASE i \notin 1 .. Len(a)
    <3> DEFINE j == i - Len(a)
    <3>1. j \in 1 .. Len(b) /\ i = Len(a) + j /\ i - 1 = Len(a) + (j - 1) /\ i + 1 = Len(a) + (j + 1)
      BY <1>1, <2>2
    <3> HIDE DEF j
    <3>2. c[i] = b[j]
      BY <1>1, <3>1
    <3>3. CASE b[j][1] = "result"
      <4>1. j - 1 \in 1 .. Len(b) /\ b[j - 1] = <<"call", b[j][2]>>
        BY <3>1, <3>3 DEF Paired
      <4>2. i - 1 \in 1 .. Len(c) /\ c[i - 1] = b[j - 1]
        BY <1>1, <3>1, <4>1
      <4> QED
        BY <3>2, <3>3, <4>1, <4>2
    <3>4. CASE b[j][1] = "call"
      <4>1. j + 1 \in 1 .. Len(b) /\ b[j + 1] = <<"result", b[j][2]>>
        BY <3>1, <3>4 DEF Paired
      <4>2. i + 1 \in 1 .. Len(c) /\ c[i + 1] = b[j + 1]
        BY <1>1, <3>1, <4>1
      <4> QED
        BY <3>2, <3>4, <4>1, <4>2
    <3> QED
      BY <3>2, <3>3, <3>4
  <2> QED
    BY <2>1, <2>2
<1> QED
  BY <1>2 DEF Paired, c

\* A tail that does not start with a result.
LEMMA PairedTail ==
  ASSUME NEW h \in Seq(Messages), Paired(h), NEW k \in 1 .. Len(h), h[k][1] # "result"
  PROVE  Paired(SubSeq(h, k, Len(h)))
<1> DEFINE t == SubSeq(h, k, Len(h))
<1>1. Len(h) \in Nat /\ k \in Nat /\ Len(t) = Len(h) - k + 1 /\ \A j \in 1 .. Len(t) : t[j] = h[k + j - 1]
  OBVIOUS
<1> HIDE DEF t
<1>2. ASSUME NEW j \in 1 .. Len(t)
      PROVE  /\ t[j][1] = "result" => j - 1 \in 1 .. Len(t) /\ t[j - 1] = <<"call", t[j][2]>>
             /\ t[j][1] = "call" => j + 1 \in 1 .. Len(t) /\ t[j + 1] = <<"result", t[j][2]>>
  <2> DEFINE i == k + j - 1
  <2>0. t[j] = h[i]
    BY <1>1
  <2> DEFINE l == Len(h)
             m == Len(t)
  <2>6. l \in Nat /\ m \in Nat /\ m = l - k + 1 /\ j \in 1 .. m /\ k \in 1 .. l
    BY <1>1
  <2> HIDE DEF l, m
  <2>7. /\ i \in 1 .. l /\ (j = 1 => i = k) /\ i - 1 = k + (j - 1) - 1 /\ i + 1 = k + (j + 1) - 1
        /\ (j # 1 => j - 1 \in 1 .. m) /\ (i + 1 \in 1 .. l => j + 1 \in 1 .. m)
    BY <2>6
  <2> HIDE DEF i
  <2>1. i \in 1 .. Len(h) /\ t[j] = h[i] /\ (j = 1 => i = k) /\ i - 1 = k + (j - 1) - 1 /\ i + 1 = k + (j + 1) - 1
        /\ (j # 1 => j - 1 \in 1 .. Len(t)) /\ (i + 1 \in 1 .. Len(h) => j + 1 \in 1 .. Len(t))
    BY <2>0, <2>7 DEF l, m
  <2>2. h[i][1] = "result" => j # 1
    BY <2>1
  <2>3. /\ h[i][1] = "result" => h[i - 1] = <<"call", h[i][2]>>
        /\ h[i][1] = "call" => i + 1 \in 1 .. Len(h) /\ h[i + 1] = <<"result", h[i][2]>>
    BY <2>1 DEF Paired
  <2>4. j - 1 \in 1 .. Len(t) => t[j - 1] = h[i - 1]
    BY <1>1, <2>1
  <2>5. j + 1 \in 1 .. Len(t) => t[j + 1] = h[i + 1]
    BY <1>1, <2>1
  <2> QED
    BY <2>1, <2>2, <2>3, <2>4, <2>5
<1> QED
  BY <1>2 DEF Paired, t

-----------------------------------------------------------------------------
\* A job whose messages are paired.
JobPaired(j) == \A i \in 1 .. Len(j) : j[i].op = "say" => Paired(j[i].ms)

LEMMA JobPairedJoined ==
  ASSUME NEW a \in Seq(Instrs), NEW b \in Seq(Instrs), JobPaired(a), JobPaired(b)
  PROVE  a \o b \in Seq(Instrs) /\ JobPaired(a \o b)
<1> DEFINE c == a \o b
<1> HIDE DEF c
<1>1. /\ c \in Seq(Instrs) /\ Len(a) \in Nat /\ Len(b) \in Nat /\ Len(c) = Len(a) + Len(b)
      /\ \A i \in 1 .. Len(a) : c[i] = a[i]
      /\ \A j \in 1 .. Len(b) : c[Len(a) + j] = b[j]
  BY Pieces DEF c
<1>2. ASSUME NEW i \in 1 .. Len(c), c[i].op = "say" PROVE Paired(c[i].ms)
  <2>1. CASE i \in 1 .. Len(a)
    BY <1>1, <1>2, <2>1 DEF JobPaired
  <2>2. CASE i \notin 1 .. Len(a)
    <3> DEFINE j == i - Len(a)
    <3>1. j \in 1 .. Len(b) /\ i = Len(a) + j
      BY <1>1, <2>2
    <3> HIDE DEF j
    <3>2. c[i] = b[j]
      BY <1>1, <3>1
    <3> QED
      BY <1>2, <3>1, <3>2 DEF JobPaired
  <2> QED
    BY <2>1, <2>2
<1> QED
  BY <1>1, <1>2 DEF JobPaired, c

LEMMA JobPairedTail ==
  ASSUME NEW j \in Seq(Instrs), j # <<>>, JobPaired(j)
  PROVE  JobPaired(Tail(j)) /\ Tail(j) \in Seq(Instrs) /\ (Head(j).op = "say" => Paired(Head(j).ms))
<1>1. /\ Head(j) \in Instrs /\ Tail(j) \in Seq(Instrs) /\ Head(j) = j[1]
      /\ Len(j) \in Nat \ {0} /\ Len(Tail(j)) = Len(j) - 1 /\ \A i \in 1 .. Len(j) - 1 : Tail(j)[i] = j[i + 1]
  BY HeadTail
<1>2. 1 \in 1 .. Len(j) /\ \A i \in 1 .. Len(j) - 1 : i + 1 \in 1 .. Len(j)
  BY <1>1
<1> QED
  BY <1>1, <1>2 DEF JobPaired

LEMMA JobPairedSay ==
  ASSUME NEW ms \in Seq(Messages), Paired(ms)
  PROVE  Say(ms) \in Seq(Instrs) /\ JobPaired(Say(ms))
<1>1. Say(ms) \in Seq(Instrs) /\ Len(Say(ms)) = 2 /\ Say(ms)[1] = [op |-> "say", ms |-> ms] /\ Say(ms)[2] = Put(ms)
  BY SayInstrs
<1>2. Say(ms)[1].ms = ms /\ Say(ms)[2].ms = ms
  BY <1>1 DEF Put
<1>3. \A i \in 1 .. 2 : i = 1 \/ i = 2
  OBVIOUS
<1> QED
  BY <1>1, <1>2, <1>3 DEF JobPaired

LEMMA JobPairedOne ==
  ASSUME NEW do \in Instrs, do.op # "say"
  PROVE  <<do>> \in Seq(Instrs) /\ JobPaired(<<do>>)
<1>1. Len(<<do>>) = 1 /\ <<do>>[1] = do /\ <<do>> \in Seq(Instrs)
  OBVIOUS
<1>2. \A i \in 1 .. 1 : i = 1
  OBVIOUS
<1> QED
  BY <1>1, <1>2 DEF JobPaired

LEMMA JobPairedBlocks ==
  /\ <<>> \in Seq(Instrs) /\ JobPaired(<<>>)
  /\ Clear \in Seq(Instrs) /\ JobPaired(Clear)
  /\ Checkpoint \in Seq(Instrs) /\ JobPaired(Checkpoint)
  /\ Count \in Seq(Instrs) /\ JobPaired(Count)
  /\ \A id \in Nat : RevertTo(id) \in Seq(Instrs) /\ JobPaired(RevertTo(id))
<1>1. <<>> \in Seq(Instrs) /\ JobPaired(<<>>)
  <2>1. Len(<<>>) = 0 /\ 1 .. 0 = {}
    OBVIOUS
  <2> QED
    BY <2>1, NoInstrs DEF JobPaired
<1>2. \A op \in Ops \ {"say"}, ms \in Seq(Lines) :
         [op |-> op, ms |-> ms] \in Instrs /\ [op |-> op, ms |-> ms].op # "say"
  BY DEF Instrs
<1>3. <<>> \in Seq(Lines) /\ \A id \in Nat : <<Line(id)>> \in Seq(Lines)
  BY EmptySeq, MarksOfLine
<1>4. ASSUME NEW op \in Ops \ {"say"}, NEW ms \in Seq(Lines)
      PROVE  <<[op |-> op, ms |-> ms]>> \in Seq(Instrs) /\ JobPaired(<<[op |-> op, ms |-> ms]>>)
  BY <1>2, JobPairedOne
<1>5. Clear \in Seq(Instrs) /\ JobPaired(Clear) /\ Checkpoint \in Seq(Instrs) /\ JobPaired(Checkpoint)
  BY <1>3, <1>4 DEF Clear, Checkpoint, Ops
<1>6. ASSUME NEW id \in Nat PROVE RevertTo(id) \in Seq(Instrs) /\ JobPaired(RevertTo(id))
  BY <1>3, <1>4 DEF RevertTo, Ops
<1>7. Count \in Seq(Instrs) /\ JobPaired(Count)
  <2>1. /\ Count \in Seq(Instrs) /\ Len(Count) = 2
        /\ Count[1] = [op |-> "count", ms |-> <<>>] /\ Count[2] = Put(<<Usage>>)
    BY CountInstrs
  <2>2. Count[1].op = "count" /\ Count[2].op = "put"
    BY <2>1 DEF Put
  <2>3. \A i \in 1 .. 2 : i = 1 \/ i = 2
    OBVIOUS
  <2> QED
    BY <2>1, <2>2, <2>3 DEF JobPaired
<1> QED
  BY <1>1, <1>5, <1>6, <1>7

\* A message that is neither a call nor a result can go anywhere.
LEMMA JobPairedNote ==
  ASSUME NEW k \in Kinds \ {"call", "result"}, NEW n \in Nat
  PROVE  /\ <<<<k, n>>>> \in Seq(Messages) /\ Paired(<<<<k, n>>>>)
         /\ Say(<<<<k, n>>>>) \in Seq(Instrs) /\ JobPaired(Say(<<<<k, n>>>>))
<1>1. <<<<k, n>>>> \in Seq(Messages)
  BY OneMessage
<1>2. Paired(<<<<k, n>>>>)
  BY PairedOne
<1> QED
  BY <1>1, <1>2, JobPairedSay

\* A compaction leaves pairs.
LEMMA CompactPaired == ASSUME Typed, Paired(ctx.hist), NEW p, Compact(p) PROVE Paired(draft')
<1>1. ctx.hist \in Seq(Messages)
  BY DEF Typed, Data, Contexts
<1>2. <<<<"summary", 0>>>> \in Seq(Messages) /\ Paired(<<<<"summary", 0>>>>) /\ <<>> \in Seq(Messages)
  BY JobPairedNote, EmptySeq DEF Kinds
<1> DEFINE said == Places(ctx.hist, LAMBDA m : m[1] # "result")
<1>3. ASSUME NEW n \in 0 .. Min({2, Cardinality(said)}), n # 0
      PROVE  Preserved(ctx.hist, n) \in Seq(Messages) /\ Paired(Preserved(ctx.hist, n))
  <2>1. n \in Nat /\ n <= Min({2, Cardinality(said)})
    BY <1>3
  <2>2. PICK k \in 1 .. Len(ctx.hist) :
           ctx.hist[k][1] # "result" /\ Preserved(ctx.hist, n) = SubSeq(ctx.hist, k, Len(ctx.hist))
    BY <1>1, <1>3, <2>1, PreservedIs
  <2>3. Paired(Preserved(ctx.hist, n))
    BY <1>1, <2>2, PairedTail
  <2> QED
    BY <1>1, <2>2, <2>3
<1>4. \/ draft' = ctx.hist
      \/ \E n \in 0 .. Min({2, Cardinality(said)}) :
            LET tail == IF n = 0 THEN <<>> ELSE Preserved(ctx.hist, n)
            IN  draft' = IF tail = ctx.hist THEN tail ELSE <<<<"summary", 0>>>> \o tail
  BY DEF Compact
<1> HIDE DEF said
<1>5. ASSUME NEW tail \in Seq(Messages), Paired(tail) PROVE Paired(<<<<"summary", 0>>>> \o tail)
  BY <1>2, <1>5, PairedJoined
<1> QED
  BY <1>1, <1>2, <1>3, <1>4, <1>5, PairedNothing

-----------------------------------------------------------------------------
\* What the shielded _grow_context has still to say.
Silent(g)   == \A i \in 1 .. Len(g) : g[i].op # "say"
Tells(g, n) == \E k \in 1 .. Len(g) : /\ g[k] = [op |-> "say", ms |-> <<<<"result", n>>>>]
                                      /\ \A i \in 1 .. Len(g) : i # k => g[i].op # "say"

\* With what it will add the history is paired.
GrowPairs(g, h) ==
    \/ Silent(g) /\ Paired(h)
    \/ \E n \in Nat : Tells(g, n) /\ Paired(h \o <<<<"result", n>>>>)
    \/ \E r \in {"call", "text"} \X Nat : g = Growth(r) /\ Paired(h)

LEMMA SilentTail == ASSUME NEW g \in Seq(Instrs), g # <<>>, Silent(g) PROVE Silent(Tail(g)) /\ Head(g).op # "say"
<1>1. /\ Head(g) = g[1] /\ Len(g) \in Nat \ {0} /\ Len(Tail(g)) = Len(g) - 1
      /\ \A i \in 1 .. Len(g) - 1 : Tail(g)[i] = g[i + 1]
  BY HeadTail
<1> QED
  BY <1>1 DEF Silent

LEMMA TellsTail ==
  ASSUME NEW g \in Seq(Instrs), g # <<>>, NEW n, Tells(g, n)
  PROVE  \/ Head(g).op = "say" /\ Head(g).ms = <<<<"result", n>>>> /\ Silent(Tail(g))
         \/ Head(g).op # "say" /\ Tells(Tail(g), n)
<1>1. /\ Head(g) = g[1] /\ Len(g) \in Nat \ {0} /\ Len(Tail(g)) = Len(g) - 1
      /\ \A i \in 1 .. Len(g) - 1 : Tail(g)[i] = g[i + 1]
  BY HeadTail
<1>2. PICK k \in 1 .. Len(g) : /\ g[k] = [op |-> "say", ms |-> <<<<"result", n>>>>]
                               /\ \A i \in 1 .. Len(g) : i # k => g[i].op # "say"
  BY DEF Tells
<1>3. CASE k = 1
  <2>1. Head(g).op = "say" /\ Head(g).ms = <<<<"result", n>>>>
    BY <1>1, <1>2, <1>3
  <2>2. \A i \in 1 .. Len(g) - 1 : i + 1 \in 1 .. Len(g) /\ i + 1 # 1
    BY <1>1
  <2> QED
    BY <1>1, <1>2, <1>3, <2>1, <2>2 DEF Silent
<1>4. CASE k # 1
  <2>1. k - 1 \in 1 .. Len(Tail(g)) /\ Tail(g)[k - 1] = g[k]
    BY <1>1, <1>4
  <2>2. \A i \in 1 .. Len(Tail(g)) : i # k - 1 => Tail(g)[i].op # "say"
    BY <1>1, <1>2, <1>4
  <2>3. Head(g).op # "say"
    BY <1>1, <1>2, <1>4
  <2> QED
    BY <1>2, <2>1, <2>2, <2>3 DEF Tells
<1> QED
  BY <1>3, <1>4

LEMMA SayOps ==
  ASSUME NEW ms \in Seq(Messages)
  PROVE  /\ Say(ms) \in Seq(Instrs) /\ Len(Say(ms)) = 2 /\ Say(ms)[1] = [op |-> "say", ms |-> ms]
         /\ Say(ms)[1].op = "say" /\ Say(ms)[1].ms = ms /\ Say(ms)[2].op = "put"
<1>1. /\ Say(ms) \in Seq(Instrs) /\ Len(Say(ms)) = 2 /\ Say(ms)[1] = [op |-> "say", ms |-> ms] /\ Say(ms)[2] = Put(ms)
  BY SayInstrs
<1>2. [op |-> "say", ms |-> ms].op = "say" /\ [op |-> "say", ms |-> ms].ms = ms /\ Put(ms).op = "put"
  BY DEF Put
<1> QED
  BY <1>1, <1>2

LEMMA FirstPart ==
  ASSUME NEW a \in Seq(Instrs), NEW b \in Seq(Instrs), NEW i \in 1 .. Len(a)
  PROVE  (a \o b)[i] = a[i]
OBVIOUS

LEMMA SecondPart ==
  ASSUME NEW a \in Seq(Instrs), NEW b \in Seq(Instrs), NEW i \in 1 .. Len(b)
  PROVE  (a \o b)[Len(a) + i] = b[i]
OBVIOUS

LEMMA Both ==
  ASSUME NEW a \in Seq(Instrs), NEW b \in Seq(Instrs)
  PROVE  a \o b \in Seq(Instrs) /\ Len(a \o b) = Len(a) + Len(b)
OBVIOUS

LEMMA TwoAndTwo ==
  ASSUME NEW a \in Seq(Instrs), NEW b \in Seq(Instrs), Len(a) = 2, Len(b) = 2
  PROVE  /\ a \o b \in Seq(Instrs) /\ Len(a \o b) = 4
         /\ (a \o b)[1] = a[1] /\ (a \o b)[2] = a[2] /\ (a \o b)[3] = b[1] /\ (a \o b)[4] = b[2]
<1>1. 1 \in 1 .. Len(a) /\ 2 \in 1 .. Len(a) /\ 1 \in 1 .. Len(b) /\ 2 \in 1 .. Len(b)
  OBVIOUS
<1>2. a \o b \in Seq(Instrs) /\ Len(a \o b) = Len(a) + Len(b)
  BY Both
<1>3. (a \o b)[1] = a[1] /\ (a \o b)[2] = a[2]
  BY <1>1, FirstPart
<1>4. (a \o b)[Len(a) + 1] = b[1] /\ (a \o b)[Len(a) + 2] = b[2]
  BY <1>1, SecondPart
<1> QED
  BY <1>2, <1>3, <1>4

LEMMA FourAndMore ==
  ASSUME NEW a \in Seq(Instrs), NEW c \in Seq(Instrs), Len(a) = 4
  PROVE  /\ a \o c \in Seq(Instrs) /\ Len(a \o c) = 4 + Len(c)
         /\ (a \o c)[1] = a[1] /\ (a \o c)[2] = a[2] /\ (a \o c)[3] = a[3] /\ (a \o c)[4] = a[4]
         /\ \A j \in 1 .. Len(c) : (a \o c)[4 + j] = c[j]
<1>1. 1 \in 1 .. Len(a) /\ 2 \in 1 .. Len(a) /\ 3 \in 1 .. Len(a) /\ 4 \in 1 .. Len(a)
  OBVIOUS
<1>2. a \o c \in Seq(Instrs) /\ Len(a \o c) = Len(a) + Len(c)
  BY Both
<1>3. (a \o c)[1] = a[1] /\ (a \o c)[2] = a[2] /\ (a \o c)[3] = a[3] /\ (a \o c)[4] = a[4]
  BY <1>1, FirstPart
<1>4. \A j \in 1 .. Len(c) : (a \o c)[Len(a) + j] = c[j]
  BY SecondPart
<1> QED
  BY <1>2, <1>3, <1>4

Around(a, c) == a \o Count \o c

LEMMA GrowthParts ==
  ASSUME NEW a \in Seq(Instrs), NEW c \in Seq(Instrs), Len(a) = 2, NEW g, g = Around(a, c)
  PROVE  /\ g \in Seq(Instrs) /\ g # <<>> /\ Head(g) = a[1]
         /\ Len(Tail(g)) = 3 + Len(c) /\ Tail(g)[1] = a[2] /\ Tail(g)[2] = Count[1] /\ Tail(g)[3] = Count[2]
         /\ \A j \in 1 .. Len(c) : Tail(g)[3 + j] = c[j]
<1> DEFINE d == a \o Count
           e == d \o c
<1>1. /\ d \in Seq(Instrs) /\ Len(d) = 4
      /\ d[1] = a[1] /\ d[2] = a[2] /\ d[3] = Count[1] /\ d[4] = Count[2]
  BY CountInstrs, TwoAndTwo
<1> HIDE DEF d
<1>2. /\ e \in Seq(Instrs) /\ Len(e) = 4 + Len(c) /\ e[1] = d[1] /\ e[2] = d[2] /\ e[3] = d[3] /\ e[4] = d[4]
      /\ \A j \in 1 .. Len(c) : e[4 + j] = c[j]
  BY <1>1, FourAndMore
<1>3. g = e
  BY DEF d, Around
<1> HIDE DEF e
<1>4. Len(c) \in Nat /\ e # <<>>
  <2>1. Len(c) \in Nat /\ Len(<<>>) = 0
    OBVIOUS
  <2> QED
    BY <1>2, <2>1
<1>5. Head(e) = e[1] /\ Len(Tail(e)) = Len(e) - 1 /\ \A i \in 1 .. Len(e) - 1 : Tail(e)[i] = e[i + 1]
  BY <1>2, <1>4, HeadTail
<1>6. Tail(e)[1] = e[2] /\ Tail(e)[2] = e[3] /\ Tail(e)[3] = e[4]
  <2>1. 1 \in 1 .. Len(e) - 1 /\ 2 \in 1 .. Len(e) - 1 /\ 3 \in 1 .. Len(e) - 1
    BY <1>2, <1>4
  <2>2. 1 + 1 = 2 /\ 2 + 1 = 3 /\ 3 + 1 = 4
    OBVIOUS
  <2> QED
    BY <1>5, <2>1, <2>2
<1>7. ASSUME NEW j \in 1 .. Len(c) PROVE Tail(e)[3 + j] = c[j]
  <2>1. 3 + j \in 1 .. Len(e) - 1 /\ (3 + j) + 1 = 4 + j
    BY <1>2, <1>4
  <2>2. e[4 + j] = c[j]
    BY <1>2
  <2> QED
    BY <1>5, <2>1, <2>2
<1>8. Len(Tail(e)) = 3 + Len(c)
  BY <1>2, <1>4, <1>5
<1> QED
  BY <1>1, <1>2, <1>3, <1>4, <1>5, <1>6, <1>7, <1>8

LEMMA GrowthSays ==
  ASSUME NEW r \in {"call", "text"} \X Nat
  PROVE  /\ Growth(r) \in Seq(Instrs) /\ Growth(r) # <<>> /\ Head(Growth(r)).op = "say" /\ Head(Growth(r)).ms = <<r>>
         /\ r[1] = "text" => Silent(Tail(Growth(r)))
         /\ r[1] = "call" => Tells(Tail(Growth(r)), r[2])
<1>1. r[1] \in Kinds /\ r[2] \in Nat /\ r = <<r[1], r[2]>> /\ r[1] \in {"call", "text"}
  BY DEF Kinds
<1>2. <<r>> \in Seq(Messages) /\ <<<<"result", r[2]>>>> \in Seq(Messages)
  BY <1>1, OneMessage DEF Kinds
<1>3. Count \in Seq(Instrs) /\ Len(Count) = 2 /\ Count[1].op = "count" /\ Count[2].op = "put"
  BY CountInstrs DEF Put
<1> DEFINE a == Say(<<r>>)
           said == Say(<<<<"result", r[2]>>>>)
<1>4. a \in Seq(Instrs) /\ Len(a) = 2 /\ a[1].op = "say" /\ a[1].ms = <<r>> /\ a[2].op = "put"
  BY <1>2, SayOps
<1>5. said \in Seq(Instrs) /\ Len(said) = 2 /\ said[1] = [op |-> "say", ms |-> <<<<"result", r[2]>>>>] /\ said[2].op = "put"
  BY <1>2, SayOps
<1> DEFINE rest == IF r[1] = "call" THEN said ELSE <<>>
           g == Growth(r)
           t == Tail(g)
<1>6. g = Around(a, rest)
  BY DEF Growth, Around
<1>7. rest \in Seq(Instrs) /\ (r[1] = "call" => rest = said) /\ (r[1] = "text" => Len(rest) = 0)
  BY <1>5, NoInstrs
<1>8. Growth(r) = g /\ Tail(Growth(r)) = t
  OBVIOUS
<1>12. t = Tail(g)
  OBVIOUS
<1> HIDE DEF a, said, rest, g, t
<1>9. /\ g \in Seq(Instrs) /\ g # <<>> /\ Head(g) = a[1]
      /\ Len(t) = 3 + Len(rest) /\ t[1] = a[2] /\ t[2] = Count[1] /\ t[3] = Count[2]
      /\ \A j \in 1 .. Len(rest) : t[3 + j] = rest[j]
  <2>1. /\ g \in Seq(Instrs) /\ g # <<>> /\ Head(g) = a[1]
        /\ Len(Tail(g)) = 3 + Len(rest) /\ Tail(g)[1] = a[2] /\ Tail(g)[2] = Count[1] /\ Tail(g)[3] = Count[2]
        /\ \A j \in 1 .. Len(rest) : Tail(g)[3 + j] = rest[j]
    BY <1>4, <1>6, <1>7, GrowthParts
  <2> QED
    BY <1>12, <2>1
<1>10. ASSUME r[1] = "text" PROVE Silent(t)
  <2>1. Len(t) = 3 /\ \A i \in 1 .. 3 : i = 1 \/ i = 2 \/ i = 3
    BY <1>7, <1>9, <1>10
  <2> QED
    BY <1>3, <1>4, <1>9, <2>1 DEF Silent
<1>11. ASSUME r[1] = "call" PROVE Tells(t, r[2])
  <2>1. 1 \in 1 .. 2 /\ 2 \in 1 .. 2 /\ 3 + 1 = 4 /\ 3 + 2 = 5 /\ 4 \in 1 .. 5
    OBVIOUS
  <2>2. Len(t) = 5 /\ t[4] = said[1] /\ t[5] = said[2]
    BY <1>5, <1>7, <1>9, <1>11, <2>1
  <2>3. \A i \in 1 .. 5 : i = 1 \/ i = 2 \/ i = 3 \/ i = 4 \/ i = 5
    OBVIOUS
  <2>4. \A i \in 1 .. 5 : i # 4 => t[i].op # "say"
    BY <1>3, <1>4, <1>5, <1>9, <2>2, <2>3
  <2> QED
    BY <1>5, <2>1, <2>2, <2>4 DEF Tells
<1> QED
  BY <1>4, <1>8, <1>9, <1>10, <1>11

LEMMA AddTwo ==
  ASSUME NEW h \in Seq(Messages), NEW a \in Messages, NEW b \in Messages
  PROVE  (h \o <<a>>) \o <<b>> = h \o <<a, b>> /\ <<a, b>> \in Seq(Messages)
<1>1. <<a, b>> \in Seq(Messages) /\ <<b>> \in Seq(Messages)
  OBVIOUS
<1>2. <<a>> \o <<b>> = <<a, b>>
  <2> DEFINE s == <<a>> \o <<b>>
             t == <<a, b>>
  <2>1. s \in Seq(Messages) /\ t \in Seq(Messages)
    OBVIOUS
  <2>2. Len(s) = Len(t) /\ Len(t) = 2
    OBVIOUS
  <2>3. s[1] = t[1] /\ s[2] = t[2]
    OBVIOUS
  <2> HIDE DEF s, t
  <2>4. \A i \in 1 .. 2 : i = 1 \/ i = 2
    OBVIOUS
  <2>5. s = t
    BY <2>1, <2>2, <2>3, <2>4, SeqEqual
  <2> QED
    BY <2>5 DEF s, t
<1>3. \A t \in Seq(Messages) : (h \o <<a>>) \o t = h \o (<<a>> \o t)
  OBVIOUS
<1> QED
  BY <1>1, <1>2, <1>3

LEMMA GrowPairsNothing == ASSUME NEW h PROVE GrowPairs(<<>>, h) <=> Paired(h)
<1>1. Len(<<>>) = 0 /\ 1 .. 0 = {}
  OBVIOUS
<1>2. \A r \in {"call", "text"} \X Nat : <<>> # Growth(r)
  BY GrowthSays
<1> QED
  BY <1>1, <1>2 DEF GrowPairs, Silent, Tells

\* An instruction of _grow_context brings the history to what is left of it.
LEMMA GrowPairsTail ==
  ASSUME NEW g \in Seq(Instrs), g # <<>>, NEW h \in Seq(Messages), GrowPairs(g, h), NEW k \in Seq(Messages),
         Head(g).op = "say" => k = h \o Head(g).ms, Head(g).op # "say" => k = h
  PROVE  GrowPairs(Tail(g), k)
<1>1. CASE Silent(g) /\ Paired(h)
  BY <1>1, SilentTail DEF GrowPairs
<1>2. CASE \E n \in Nat : Tells(g, n) /\ Paired(h \o <<<<"result", n>>>>)
  <2>1. PICK n \in Nat : Tells(g, n) /\ Paired(h \o <<<<"result", n>>>>)
    BY <1>2
  <2>2. CASE Head(g).op = "say" /\ Head(g).ms = <<<<"result", n>>>> /\ Silent(Tail(g))
    BY <2>1, <2>2 DEF GrowPairs
  <2>3. CASE Head(g).op # "say" /\ Tells(Tail(g), n)
    BY <2>1, <2>3 DEF GrowPairs
  <2> QED
    BY <2>1, <2>2, <2>3, TellsTail
<1>3. CASE \E r \in {"call", "text"} \X Nat : g = Growth(r) /\ Paired(h)
  <2>1. PICK r \in {"call", "text"} \X Nat : g = Growth(r) /\ Paired(h)
    BY <1>3
  <2>2. k = h \o <<r>> /\ r[1] \in {"call", "text"} /\ r[2] \in Nat /\ r = <<r[1], r[2]>>
    <3>1. Head(g).op = "say" /\ Head(g).ms = <<r>>
      BY <2>1, GrowthSays
    <3>2. r[1] \in {"call", "text"} /\ r[2] \in Nat /\ r = <<r[1], r[2]>>
      OBVIOUS
    <3> QED
      BY <3>1, <3>2
  <2>3. CASE r[1] = "text"
    <3>1. <<r>> \in Seq(Messages) /\ Paired(<<r>>)
      <4>1. <<<<"text", r[2]>>>> \in Seq(Messages) /\ Paired(<<<<"text", r[2]>>>>)
        BY <2>2, JobPairedNote DEF Kinds
      <4> QED
        BY <2>2, <2>3, <4>1
    <3>2. Paired(k)
      BY <2>1, <2>2, <3>1, PairedJoined
    <3> QED
      BY <2>1, <2>3, <3>2, GrowthSays DEF GrowPairs
  <2>4. CASE r[1] = "call"
    <3> DEFINE n == r[2]
    <3>1. n \in Nat /\ r = <<"call", n>>
      BY <2>2, <2>4
    <3>2. <<<<"call", n>>>> \in Seq(Messages) /\ <<<<"result", n>>>> \in Seq(Messages)
      BY <3>1, OneMessage DEF Kinds
    <3> HIDE DEF n
    <3>3. <<<<"call", n>>, <<"result", n>>>> \in Seq(Messages)
          /\ k \o <<<<"result", n>>>> = h \o <<<<"call", n>>, <<"result", n>>>>
      <4>1. <<"call", n>> \in Messages /\ <<"result", n>> \in Messages
        BY <3>1, OneMessage DEF Kinds
      <4>2. \A b : b = <<"result", n>> => k \o <<b>> = h \o <<<<"call", n>>, b>> /\ <<<<"call", n>>, b>> \in Seq(Messages)
        BY <2>2, <3>1, <4>1, AddTwo
      <4> QED
        BY <4>2
    <3>4. Paired(k \o <<<<"result", n>>>>)
      BY <2>1, <3>3, PairedTwo, PairedJoined
    <3>5. Tells(Tail(g), n)
      BY <2>1, <2>4, GrowthSays DEF n
    <3> QED
      BY <3>1, <3>4, <3>5 DEF GrowPairs
  <2> QED
    BY <2>2, <2>3, <2>4
<1> QED
  BY <1>1, <1>2, <1>3 DEF GrowPairs

-----------------------------------------------------------------------------
(* While no cancel cut a write, none failed, no turn met another's         *)
(* _grow_context and no crash left a cut file, everything is paired.       *)

Sound == ~torn /\ ~stray
Linked ==
    Sound =>
        /\ GrowPairs(grow, ctx.hist)
        /\ \A id \in DOMAIN past : Paired(past[id])
        /\ Op(job) = "load" => Paired(Restored(Head(job).ms).hist)
        /\ Paired(draft) /\ JobPaired(job)
        /\ pc = "down" => /\ Paired(Restored(file).hist)
                          /\ \A id \in Marks(file) : Paired(Restored(Kept(file, id)).hist)

LEMMA LinkedInit == Init => Linked
<1> SUFFICES ASSUME Init PROVE Linked
  OBVIOUS
<1>1. grow = <<>> /\ ctx.hist = <<>> /\ pc = "idle" /\ past = <<>> /\ job = <<>> /\ draft = <<>>
  BY EmptyContext DEF Init
<1>2. DOMAIN past = {}
  BY <1>1
<1> QED
  BY <1>1, <1>2, PairedNothing, GrowPairsNothing, JobPairedBlocks DEF Linked, Op

LEMMA SoundBefore == ASSUME Typed, Quiescent, [Next]_vars, Sound' PROVE Sound
<1>0. torn \in BOOLEAN /\ stray \in BOOLEAN
  BY DEF Typed, Flags
<1>1. CASE TurnRuns
  BY <1>1 DEF Sound, TurnRuns
<1>2. CASE GrowRuns
  BY <1>2 DEF Sound, GrowRuns, seen
<1>3. CASE Consume
  BY <1>3 DEF Sound, Consume
<1>4. CASE Restart
  BY <1>4 DEF Sound, Restart
<1>5. CASE Cancel
  BY <1>0, <1>5 DEF Sound, Cancel
<1>6. CASE Crash
  BY <1>0, <1>6 DEF Sound, Crash
<1>7. CASE Begins
  BY <1>0, <1>7 DEF Sound, Begins
<1>8. ~WriteFails /\ ~GrowFails
  BY FailureIs DEF Sound
<1> QED
  BY <1>1, <1>2, <1>3, <1>4, <1>5, <1>6, <1>7, <1>8, Steps

\* Without a job under way and without _grow_context the history itself is paired.
LEMMA HistoryPaired ==
  ASSUME Works, Linked, Sound, pc # "down", job # <<>> \/ pc \notin {"growing", "idle"}
  PROVE  grow = <<>> /\ Paired(ctx.hist)
<1>1. grow = <<>>
  BY Alone DEF Sound, Works, Quiescent
<1> QED
  BY <1>1, GrowPairsNothing DEF Linked

\* The jobs that begin say only what is paired, and so do the drafts.
LEMMA BeginsPaired ==
  ASSUME Works, Linked, Sound, Next, Begins,
         ~TurnRuns, ~GrowRuns, ~WriteFails, ~GrowFails, ~Consume, ~Cancel, ~Crash, ~Restart
  PROVE  Paired(draft') /\ JobPaired(job')
<1>0. /\ Typed /\ Quiescent /\ Paired(draft) /\ JobPaired(job) /\ Paired(<<>>)
      /\ draft \in Seq(Messages) /\ serial \in Nat
  BY PairedNothing DEF Linked, Works, Typed, Data, Counts
<1> USE DEF context, soul, At, Grown
<1>1. CASE Prompt \/ BeginLoop \/ CommandDone \/ TellCheckpoints \/ SendMail \/ ToolsEnd \/ Rejected \/ Resolve
  BY <1>0, <1>1 DEF Prompt, BeginLoop, CommandDone, TellCheckpoints, SendMail, ToolsEnd, Rejected, Resolve
<1>2. CASE EndRun \/ Raise \/ TurnBackFails \/ ConsumeFails
  BY <1>0, <1>2 DEF EndRun, Raise, TurnBackFails, ConsumeFails, Ends
<1>3. CASE NextStep \/ Return \/ Steer
  BY <1>0, <1>3 DEF NextStep, Return, Steer
<1>4. CASE OpenTurn
  <2>1. Say(<<<<"user", serial>>>>) \in Seq(Instrs) /\ JobPaired(Say(<<<<"user", serial>>>>))
    BY <1>0, JobPairedNote DEF Kinds
  <2>2. JobPaired(Checkpoint \o Say(<<<<"user", serial>>>>))
    BY <2>1, JobPairedBlocks, JobPairedJoined
  <2> QED
    BY <1>0, <1>4, <2>2 DEF OpenTurn
<1>5. CASE ClearCommand \/ Answer
  BY <1>0, <1>5, JobPairedBlocks DEF ClearCommand, Answer
<1>6. CASE CompactCommand \/ Overflow
  <2>1. pc \in {"prompt", "ask"} /\ \E p : Compact(p) /\ job' = job
    BY <1>6 DEF CompactCommand, Overflow
  <2>2. Paired(ctx.hist)
    BY <2>1, HistoryPaired
  <2> QED
    BY <1>0, <2>1, <2>2, CompactPaired
<1>7. CASE BeginStep
  <2>1. pc = "top" /\ job = <<>>
    BY <1>7 DEF BeginStep
  <2>2. Paired(ctx.hist)
    BY <2>1, HistoryPaired
  <2>3. \/ Compact("compact_first") /\ job' = job
        \/ job' = Checkpoint /\ draft' = draft
    BY <1>7 DEF BeginStep
  <2> QED
    BY <1>0, <2>2, <2>3, CompactPaired, JobPairedBlocks
<1>8. CASE Rebuild
  <2>1. PICK tasks \in {<<>>, Say(<<<<"note", 0>>>>)}, last \in {<<>>, Checkpoint} : job' = Rebuilding(tasks, last)
    BY <1>8, RebuildIs
  <2>2. tasks \in Seq(Instrs) /\ JobPaired(tasks) /\ last \in Seq(Instrs) /\ JobPaired(last)
    BY JobPairedNote, JobPairedBlocks DEF Kinds
  <2>3. Say(draft) \in Seq(Instrs) /\ JobPaired(Say(draft))
    BY <1>0, JobPairedSay
  <2>4. Clear \o Checkpoint \in Seq(Instrs) /\ JobPaired(Clear \o Checkpoint)
    BY JobPairedBlocks, JobPairedJoined
  <2>5. Clear \o Checkpoint \o Say(draft) \in Seq(Instrs) /\ JobPaired(Clear \o Checkpoint \o Say(draft))
    BY <2>3, <2>4, JobPairedJoined
  <2>6. Clear \o Checkpoint \o Say(draft) \o tasks \in Seq(Instrs) /\ JobPaired(Clear \o Checkpoint \o Say(draft) \o tasks)
    BY <2>2, <2>5, JobPairedJoined
  <2>7. /\ Clear \o Checkpoint \o Say(draft) \o tasks \o Count \in Seq(Instrs)
        /\ JobPaired(Clear \o Checkpoint \o Say(draft) \o tasks \o Count)
    BY <2>6, JobPairedBlocks, JobPairedJoined
  <2>8. JobPaired(job')
    BY <2>1, <2>2, <2>7, JobPairedJoined DEF Rebuilding
  <2> QED
    BY <1>0, <1>8, <2>8 DEF Rebuild
<1>9. CASE Inject
  <2>1. JobPaired(Say(<<<<"note", 0>>>>))
    BY JobPairedNote DEF Kinds
  <2> QED
    BY <1>0, <1>9, <2>1 DEF Inject
<1>10. CASE TurnBack
  <2>1. PICK m \in mail : job' = RevertTo(m.to) \o Checkpoint \o Say(<<<<"mail", serial>>>>)
    BY <1>10 DEF TurnBack
  <2>2. m.to \in Nat
    BY <1>0, <2>1 DEF Typed, Mailing, Mails
  <2>3. Say(<<<<"mail", serial>>>>) \in Seq(Instrs) /\ JobPaired(Say(<<<<"mail", serial>>>>))
    BY <1>0, JobPairedNote DEF Kinds
  <2>4. RevertTo(m.to) \o Checkpoint \in Seq(Instrs) /\ JobPaired(RevertTo(m.to) \o Checkpoint)
    BY <2>2, JobPairedBlocks, JobPairedJoined
  <2>5. JobPaired(job')
    BY <2>1, <2>3, <2>4, JobPairedJoined
  <2> QED
    BY <1>0, <1>10, <2>5 DEF TurnBack
<1> QED
  BY <1>1, <1>2, <1>3, <1>4, <1>5, <1>6, <1>7, <1>8, <1>9, <1>10 DEF Next

\* What revert_to keeps is paired.
LEMMA KeptPaired ==
  ASSUME Works, Consistent, Remembered, Linked, Sound, pc # "down", Settled, grow = <<>>, Due(job) = <<>>, NEW id,
         Paired(ctx.hist)
  PROVE  Paired(Restored(Kept(file, id)).hist)
<1>1. Whole = file /\ file \in Seq(Lines)
  BY WholeIs DEF Works, Typed, Data
<1>2. Remembers(file, past) /\ ctx = Restored(file)
  BY <1>1 DEF Remembered, Consistent, Sound
<1>3. CASE id \in Marks(file)
  BY <1>2, <1>3 DEF Remembers, Linked
<1>4. CASE id \notin Marks(file)
  BY <1>1, <1>2, <1>4, KeptAll
<1> QED
  BY <1>3, <1>4

\* The rest of a job is as paired as the job.
LEMMA MorePaired ==
  ASSUME Works, JobPaired(job), TurnRuns
  PROVE  JobPaired(job') /\ (Op(job) = "say" => Paired(Head(job).ms))
<1> DEFINE do == Head(job)
<1>1. /\ job # <<>> /\ job \in Seq(Instrs) /\ do \in Instrs /\ Op(job) = do.op /\ do.ms \in Seq(Lines)
      /\ job' = Effect(do).more \o Tail(job) /\ file \in Seq(Lines) /\ ctx.next \in Nat /\ Typed
  <2>1. job # <<>> /\ job \in Seq(Instrs)
    BY DEF TurnRuns, Works, Typed, Data
  <2>2. do \in Instrs
    BY <2>1, HeadTail
  <2> QED
    BY <2>1, <2>2 DEF TurnRuns, Works, Typed, Data, Contexts, Instrs, Op
<1>2. JobPaired(Tail(job)) /\ Tail(job) \in Seq(Instrs) /\ (do.op = "say" => Paired(do.ms))
  BY <1>1, JobPairedTail
<1> HIDE DEF do
<1>3. Effect(do).more \in Seq(Instrs)
  BY <1>1, EffectTyped
<1>4. ASSUME NEW op \in Ops \ {"say"}, NEW ms \in Seq(Lines) PROVE JobPaired(<<[op |-> op, ms |-> ms]>>)
  <2>1. [op |-> op, ms |-> ms] \in Instrs /\ [op |-> op, ms |-> ms].op # "say"
    BY DEF Instrs
  <2> QED
    BY <2>1, JobPairedOne
<1>5. <<>> \in Seq(Lines) /\ \A id \in Nat : <<Line(id)>> \in Seq(Lines)
  BY EmptySeq, MarksOfLine
<1>6. JobPaired(Effect(do).more)
  <2>1. CASE do.op \in {"say", "put", "count", "wipe", "load"}
    <3>1. Effect(do).more = <<>>
      BY <2>1, EffectIs
    <3> QED
      BY <3>1, JobPairedBlocks
  <2>2. CASE do.op = "mark"
    <3> DEFINE a == <<Put(<<Line(ctx.next)>>)>>
               b == Say(<<<<"mark", ctx.next>>>>)
    <3>1. Effect(do).more = a \o b
      BY <2>2, EffectIs
    <3>2. b \in Seq(Instrs) /\ JobPaired(b)
      BY <1>1, JobPairedNote DEF Kinds
    <3>3. a \in Seq(Instrs) /\ JobPaired(a)
      <4>1. Put(<<Line(ctx.next)>>) \in Instrs /\ Put(<<Line(ctx.next)>>).op # "say"
        BY <1>1, <1>5 DEF Put, Instrs, Ops
      <4> QED
        BY <4>1, JobPairedOne
    <3> HIDE DEF a, b
    <3> QED
      BY <3>1, <3>2, <3>3, JobPairedJoined
  <2>3. CASE do.op = "clear"
    <3>1. Effect(do).more = <<[op |-> "wipe", ms |-> <<>>]>>
      BY <2>3, EffectIs
    <3> QED
      BY <1>4, <1>5, <3>1 DEF Ops
  <2>4. CASE do.op = "revert"
    <3> DEFINE ms == Kept(file, do.ms[1][2])
    <3>1. Effect(do).more = <<[op |-> "load", ms |-> ms]>>
      BY <2>4, EffectIs
    <3>2. ms \in Seq(Lines)
      BY <1>1, KeptType
    <3> QED
      BY <1>4, <3>1, <3>2 DEF Ops
  <2>5. do.op \in Ops
    BY <1>1 DEF Instrs
  <2> QED
    BY <2>1, <2>2, <2>3, <2>4, <2>5 DEF Ops
<1> QED
  BY <1>1, <1>2, <1>3, <1>6, JobPairedJoined DEF do

\* A job's instruction adds pairs, empties the history, or reads pairs back.
LEMMA LinkedTurn ==
  ASSUME Works, Consistent, Remembered, Linked, Sound, TurnRuns
  PROVE  Linked'
<1>1. /\ job # <<>> /\ pc # "down" /\ pc' = pc /\ grow = <<>> /\ grow' = grow /\ draft' = draft
      /\ ~torn /\ Op(job) = Head(job).op /\ Head(job) \in Instrs /\ past' = Past(Head(job))
  <2>1. job # <<>> /\ Op(job) = Head(job).op /\ Head(job) \in Instrs
    BY TurnRunsIs
  <2>2. pc # "down" /\ ~torn
    BY <2>1 DEF Sound, Works, Quiescent
  <2> QED
    BY <2>1, <2>2, Alone DEF TurnRuns, soul
<1>2. /\ ctx.hist \in Seq(Messages) /\ Paired(ctx.hist) /\ Paired(draft) /\ JobPaired(job)
      /\ \A id \in DOMAIN past : Paired(past[id])
      /\ Op(job) = "load" => Paired(Restored(Head(job).ms).hist)
  BY <1>1, HistoryPaired DEF Works, Typed, Data, Contexts, Linked
<1>3. JobPaired(job') /\ (Op(job) = "say" => Paired(Head(job).ms))
  BY <1>2, MorePaired
<1>4. Paired(ctx'.hist)
  <2>1. CASE Op(job) = "say"
    <3>1. Head(job).ms \in Seq(Messages) /\ ctx' = Said(ctx, Head(job).ms)
      BY <2>1, TurnRunsIs
    <3>2. ctx'.hist = ctx.hist \o Head(job).ms
      BY <3>1, SaidIs DEF Works, Typed, Data
    <3> QED
      BY <1>2, <1>3, <2>1, <3>1, <3>2, PairedJoined
  <2>2. CASE Op(job) = "wipe"
    <3>1. ctx' = Empty
      BY <2>2, TurnRunsIs
    <3> QED
      BY <3>1, PairedNothing
  <2>3. CASE Op(job) = "load"
    <3>1. ctx' = Restored(Head(job).ms)
      BY <2>3, TurnRunsIs
    <3> QED
      BY <1>2, <2>3, <3>1
  <2>4. CASE Op(job) \notin {"say", "wipe", "load"}
    <3>1. ctx' = ctx \/ ctx' = [ctx EXCEPT !.pend = 0] \/ ctx' = [ctx EXCEPT !.next = @ + 1]
      BY <2>4, TurnRunsIs
    <3>2. ctx'.hist = ctx.hist
      BY <3>1 DEF Works, Typed, Data, Contexts
    <3> QED
      BY <1>2, <3>2
  <2> QED
    BY <2>1, <2>2, <2>3, <2>4
<1>5. \A id \in DOMAIN past' : Paired(past'[id])
  <2>1. CASE Op(job) = "mark"
    <3>1. past' = [id \in {i \in DOMAIN past : i < ctx.next} \cup {ctx.next} |-> IF id = ctx.next THEN ctx.hist ELSE past[id]]
      BY <1>1, <2>1 DEF Past
    <3> QED
      BY <1>2, <3>1
  <2>2. CASE Op(job) = "wipe"
    <3>1. past' = <<>>
      BY <1>1, <2>2 DEF Past
    <3>2. DOMAIN past' = {}
      BY <3>1
    <3> QED
      BY <3>2
  <2>3. CASE Op(job) = "load"
    <3>1. past' = Restrict(past, {i \in DOMAIN past : i < Restored(Head(job).ms).next})
      BY <1>1, <2>3 DEF Past
    <3> QED
      BY <1>2, <3>1 DEF Restrict
  <2>4. CASE Op(job) \notin {"mark", "wipe", "load"}
    <3>1. past' = past
      BY <1>1, <2>4 DEF Past
    <3> QED
      BY <1>2, <3>1
  <2> QED
    BY <2>1, <2>2, <2>3, <2>4
<1>6. ASSUME Op(job') = "load" PROVE Paired(Restored(Head(job').ms).hist)
  <2>1. PICK id \in Nat : Op(job) = "revert" /\ Due(job) = <<>> /\ Head(job').ms = Kept(file, id)
    BY <1>6, TurnRunsIs, PlannedOp
  <2>2. Settled
    BY <2>1 DEF Settled
  <2> QED
    BY <1>1, <1>2, <2>1, <2>2, KeptPaired
<1>7. GrowPairs(grow', ctx'.hist)
  BY <1>1, <1>4, GrowPairsNothing
<1> QED
  BY <1>1, <1>2, <1>3, <1>5, <1>6, <1>7 DEF Linked

\* _grow_context brings the history to what is left of it.
LEMMA LinkedGrow ==
  ASSUME Works, Linked, Sound, GrowRuns
  PROVE  Linked'
<1>1. /\ grow # <<>> /\ grow \in Seq(Instrs) /\ grow' = Tail(grow) /\ pc # "down" /\ pc' = pc
      /\ job' = job /\ draft' = draft /\ past' = past /\ Op(grow) = Head(grow).op
      /\ ctx \in Contexts /\ ctx.hist \in Seq(Messages)
  BY DEF GrowRuns, soul, seen, Works, Typed, Data, Contexts, Quiescent, Op
<1>2. GrowPairs(grow, ctx.hist)
  BY <1>1 DEF Linked
<1>3. CASE Op(grow) = "say"
  <2>1. Head(grow).ms \in Seq(Messages) /\ ctx' = Said(ctx, Head(grow).ms)
    BY <1>3, GrowRunsIs
  <2>3. ctx'.hist = ctx.hist \o Head(grow).ms
    BY <1>1, <2>1, SaidIs
  <2>2. ctx'.hist \in Seq(Messages)
    BY <1>1, <2>1, <2>3, Joined
  <2> QED
    BY <1>1, <1>2, <1>3, <2>2, <2>3, GrowPairsTail DEF Linked
<1>4. CASE Op(grow) # "say"
  <2>1. ctx' = ctx \/ ctx' = [ctx EXCEPT !.pend = 0]
    BY <1>4, GrowRunsIs
  <2>2. ctx'.hist = ctx.hist
    BY <1>1, <2>1 DEF Contexts
  <2> QED
    BY <1>1, <1>2, <1>4, <2>2, GrowPairsTail DEF Linked
<1> QED
  BY <1>3, <1>4

\* A steer goes in between steps.
LEMMA LinkedConsume ==
  ASSUME Works, Linked, Sound, Consume
  PROVE  Linked'
<1>1. /\ pc \in {"between", "finishing"} /\ pc' = "between" /\ job = <<>> /\ grow' = grow
      /\ draft' = draft /\ past' = past /\ Typed /\ ctx \in Contexts /\ ctx.hist \in Seq(Messages)
  BY DEF Consume, At, soul, Works, Typed, Data, Contexts
<1>2. PICK m \in Messages : ctx' = Said(ctx, <<m>>) /\ Op(job') = "put" /\ m[1] = "steer"
  BY <1>1, ConsumePlan
<1>3. grow = <<>> /\ Paired(ctx.hist)
  BY <1>1, HistoryPaired
<1>4. <<m>> \in Seq(Messages) /\ Paired(<<m>>)
  BY <1>2, PairedOne
<1>5. ctx'.hist = ctx.hist \o <<m>>
  BY <1>1, <1>2, <1>4, SaidIs
<1>6. Paired(ctx'.hist)
  BY <1>1, <1>3, <1>4, <1>5, PairedJoined
<1>7. GrowPairs(grow', ctx'.hist)
  BY <1>1, <1>3, <1>6, GrowPairsNothing
<1>8. JobPaired(job')
  <2>1. PICK s : job' = <<[op |-> "put", ms |-> <<s>>]>>
    BY DEF Consume
  <2>2. [op |-> "put", ms |-> <<s>>].op # "say"
    OBVIOUS
  <2>3. \A i \in 1 .. Len(job') : job'[i].op # "say"
    <3>1. Len(job') = 1 /\ job'[1] = [op |-> "put", ms |-> <<s>>]
      BY <2>1
    <3>2. \A i \in 1 .. 1 : i = 1
      OBVIOUS
    <3> QED
      BY <2>2, <3>1, <3>2
  <2> QED
    BY <2>3 DEF JobPaired
<1> QED
  BY <1>1, <1>2, <1>7, <1>8 DEF Linked

\* A cancel that cuts nothing, and a crash with nothing to write, leave pairs behind.
LEMMA LinkedCancel ==
  ASSUME Works, Linked, Sound, Sound', Cancel
  PROVE  Linked'
<1>1. /\ job = <<>> /\ job' = <<>> /\ ctx' = ctx /\ file' = file /\ grow' = grow /\ past' = past
      /\ pc' = "idle" /\ pc # "down" /\ draft' = <<>> /\ torn \in BOOLEAN
  BY DEF Cancel, Ends, Sound, Works, Typed, Flags
<1>2. GrowPairs(grow', ctx'.hist) /\ \A id \in DOMAIN past' : Paired(past'[id])
  BY <1>1 DEF Linked
<1>3. Op(job') # "load" /\ Paired(draft') /\ JobPaired(job')
  BY <1>1, PairedNothing, JobPairedBlocks DEF Op
<1> QED
  BY <1>1, <1>2, <1>3 DEF Linked

LEMMA LinkedCrash ==
  ASSUME Works, Consistent, Remembered, Linked, Sound, Sound', Crash
  PROVE  Linked'
<1>1. /\ ~torn /\ job = <<>> /\ grow = <<>> /\ pc # "down" /\ pc' = "down" /\ file' = file
      /\ past' = <<>> /\ job' = <<>> /\ grow' = <<>> /\ ctx' = Empty /\ draft' = <<>>
  <2>1. ~torn /\ job = <<>> /\ grow = <<>>
    BY DEF Crash, Sound, Works, Typed, Flags
  <2> QED
    BY <2>1 DEF Crash
<1>2. Settled /\ Whole = file
  BY <1>1, WholeIs DEF Settled, Op, Works
<1>3. ctx = Restored(file) /\ Remembers(file, past)
  BY <1>1, <1>2 DEF Consistent, Remembered
<1>4. Paired(Restored(file).hist)
  BY <1>1, <1>3, GrowPairsNothing DEF Linked
<1>5. \A id \in Marks(file) : Paired(Restored(Kept(file, id)).hist)
  BY <1>3 DEF Remembers, Linked
<1>6. DOMAIN past' = {} /\ Op(job') # "load" /\ Paired(draft') /\ JobPaired(job')
  BY <1>1, PairedNothing, JobPairedBlocks DEF Op
<1>7. GrowPairs(grow', ctx'.hist)
  BY <1>1, PairedNothing, GrowPairsNothing
<1> QED
  BY <1>1, <1>4, <1>5, <1>6, <1>7 DEF Linked

LEMMA LinkedRestart ==
  ASSUME Works, Linked, Sound, Restart
  PROVE  Linked'
<1>1. /\ pc = "down" /\ pc' = "idle" /\ job = <<>> /\ grow = <<>> /\ job' = job /\ grow' = grow /\ draft' = draft
      /\ ctx' = Restored(file) /\ past' = [id \in Marks(file) |-> Restored(Kept(file, id)).hist]
  BY DEF Restart, soul, Works, Quiescent
<1>2. Paired(Restored(file).hist) /\ \A id \in Marks(file) : Paired(Restored(Kept(file, id)).hist)
  BY <1>1 DEF Linked
<1>3. GrowPairs(grow', ctx'.hist)
  BY <1>1, <1>2, GrowPairsNothing
<1>4. \A id \in DOMAIN past' : Paired(past'[id])
  BY <1>1, <1>2
<1>5. Op(job') # "load" /\ Paired(draft') /\ JobPaired(job')
  BY <1>1 DEF Op, Linked
<1> QED
  BY <1>1, <1>3, <1>4, <1>5 DEF Linked

\* The steps that only begin something begin only what is paired.
LEMMA LinkedBegins ==
  ASSUME Works, Linked, Sound, Next, Begins,
         ~TurnRuns, ~GrowRuns, ~WriteFails, ~GrowFails, ~Consume, ~Cancel, ~Crash, ~Restart
  PROVE  Linked'
<1>1. /\ ctx' = ctx /\ file' = file /\ past' = past /\ (grow' = grow \/ ToolsEnd)
      /\ job' = job \/ Planned(job') \/ TurnBack
  BY DEF Begins
<1>2. pc' = "down" <=> pc = "down"
  <2>1. Leaves \/ SendMail \/ TurnBack
    BY MailMoves DEF Works
  <2> QED
    BY <2>1 DEF Leaves, SendMail, TurnBack, Grown, At
<1>3. Paired(draft') /\ JobPaired(job')
  BY BeginsPaired
<1>4. Op(job') = "load" => job' = job
  <2>1. TurnBack => Op(job') # "load"
    BY TurnBackPlan DEF Works
  <2> QED
    BY <1>1, <2>1, PlannedOp
<1>5. GrowPairs(grow', ctx'.hist)
  <2>1. GrowPairs(grow, ctx.hist)
    BY DEF Linked
  <2>2. CASE grow' = grow
    BY <1>1, <2>1, <2>2
  <2>3. CASE ToolsEnd
    <3>1. /\ grow = <<>> /\ grow' = Growth(reply) /\ pc = "tools"
      BY <2>3 DEF ToolsEnd, At, Growth
    <3>2. reply \in {"call", "text"} \X Nat
      BY <3>1 DEF Works, Typed, Data, Answered
    <3>3. Paired(ctx.hist)
      BY <2>1, <3>1, GrowPairsNothing
    <3> QED
      BY <1>1, <3>1, <3>2, <3>3 DEF GrowPairs
  <2> QED
    BY <1>1, <2>2, <2>3
<1> QED
  BY <1>1, <1>2, <1>3, <1>4, <1>5 DEF Linked

\* No step breaks a pair that will be in the history.
LEMMA LinkedStep == Works /\ Consistent /\ Remembered /\ Linked /\ [Next]_vars => Linked'
<1> SUFFICES ASSUME Works, Consistent, Remembered, Linked, [Next]_vars, Sound' PROVE Linked'
  BY DEF Linked
<1>1. Sound /\ Typed /\ Quiescent
  BY SoundBefore DEF Works
<1>2. CASE UNCHANGED vars
  <2>1. Linked' <=> Linked
    BY <1>2 DEF Linked, vars, Sound, Op
  <2> QED
    BY <2>1
<1>3. CASE TurnRuns \/ GrowRuns \/ Consume \/ Cancel \/ Crash \/ Restart
  BY <1>1, <1>3, LinkedTurn, LinkedGrow, LinkedConsume, LinkedCancel, LinkedCrash, LinkedRestart
<1>4. CASE Next /\ ~TurnRuns /\ ~GrowRuns /\ ~Consume /\ ~Cancel /\ ~Crash /\ ~Restart
  <2>1. ~WriteFails /\ ~GrowFails
    BY FailureIs DEF Sound
  <2>2. Begins
    BY <1>1, <1>4, <2>1, Steps
  <2> QED
    BY <1>1, <1>4, <2>1, <2>2, LinkedBegins
<1> QED
  BY <1>2, <1>3, <1>4

-----------------------------------------------------------------------------
\* What Paired and GrowPairs say of each call and each result of the history.
Calls(h, owed) ==
    \A i \in 1 .. Len(h) :
       /\ h[i][1] = "result" => i - 1 \in 1 .. Len(h) /\ h[i - 1] = <<"call", h[i][2]>>
       /\ h[i][1] = "call" => \/ i + 1 \in 1 .. Len(h) /\ h[i + 1] = <<"result", h[i][2]>>
                              \/ <<"result", h[i][2]>> \in owed

LEMMA CallsOfPairs ==
  ASSUME NEW g \in Seq(Instrs), NEW h \in Seq(Messages), GrowPairs(g, h)
  PROVE  Calls(h, {do.ms[1] : do \in {d \in ToSet(g) : d.op = "say"}})
<1> DEFINE owed == {do.ms[1] : do \in {d \in ToSet(g) : d.op = "say"}}
<1>1. ASSUME Paired(h) PROVE Calls(h, owed)
  BY <1>1 DEF Paired, Calls
<1>2. ASSUME NEW n \in Nat, Tells(g, n), Paired(h \o <<<<"result", n>>>>) PROVE Calls(h, owed)
  <2>1. <<"result", n>> \in owed
    <3>1. PICK k \in 1 .. Len(g) : g[k] = [op |-> "say", ms |-> <<<<"result", n>>>>]
      BY <1>2 DEF Tells
    <3>2. g[k] \in ToSet(g)
      BY DEF ToSet
    <3>3. g[k].op = "say" /\ g[k].ms[1] = <<"result", n>>
      BY <3>1
    <3> QED
      BY <3>2, <3>3
  <2> HIDE DEF owed
  <2> DEFINE m == <<"result", n>>
             c == h \o <<m>>
  <2>2. m \in Messages /\ m[1] = "result" /\ m[2] = n
    BY <1>2, OneMessage DEF Kinds
  <2>3. Paired(c)
    BY <1>2
  <2> HIDE DEF m
  <2>4. /\ Len(h) \in Nat /\ Len(c) = Len(h) + 1 /\ c[Len(h) + 1] = m /\ \A i \in 1 .. Len(h) : c[i] = h[i]
    BY <2>2
  <2> HIDE DEF c
  <2>5. ASSUME NEW i \in 1 .. Len(h)
        PROVE  /\ h[i][1] = "result" => i - 1 \in 1 .. Len(h) /\ h[i - 1] = <<"call", h[i][2]>>
               /\ h[i][1] = "call" => \/ i + 1 \in 1 .. Len(h) /\ h[i + 1] = <<"result", h[i][2]>>
                                      \/ <<"result", h[i][2]>> \in owed
    <3>1. i \in 1 .. Len(c) /\ c[i] = h[i] /\ i \in Nat
      BY <2>4
    <3>2. /\ h[i][1] = "result" => i - 1 \in 1 .. Len(c) /\ c[i - 1] = <<"call", h[i][2]>>
          /\ h[i][1] = "call" => i + 1 \in 1 .. Len(c) /\ c[i + 1] = <<"result", h[i][2]>>
      BY <2>3, <3>1 DEF Paired
    <3>3. h[i][1] = "result" => i - 1 \in 1 .. Len(h) /\ h[i - 1] = <<"call", h[i][2]>>
      <4>1. i - 1 \in 1 .. Len(c) => i - 1 \in 1 .. Len(h)
        BY <2>4, <3>1
      <4> QED
        BY <2>4, <3>2, <4>1
    <3>4. CASE i = Len(h)
      <4>1. h[i][1] = "call" => <<"result", h[i][2]>> = m
        BY <2>4, <3>2, <3>4
      <4>2. m \in owed
        BY <2>1 DEF m
      <4> QED
        BY <3>3, <4>1, <4>2
    <3>5. CASE i # Len(h)
      <4>1. i + 1 \in 1 .. Len(h)
        BY <2>4, <3>1, <3>5
      <4> QED
        BY <2>4, <3>2, <3>3, <4>1
    <3> QED
      BY <3>4, <3>5
  <2> QED
    BY <2>5 DEF Calls
<1> HIDE DEF owed
<1>3. Calls(h, owed)
  BY <1>1, <1>2 DEF GrowPairs
<1> QED
  BY <1>3 DEF owed

LEMMA CallsMeanCalls == ASSUME Works, Linked PROVE CallsArePaired
<1> DEFINE at(kind, n) == {i \in DOMAIN ctx.hist : ctx.hist[i] = <<kind, n>>}
           owed == {do.ms[1] : do \in {d \in ToSet(grow) : d.op = "say"}}
<1> SUFFICES ASSUME ~torn, ~stray, NEW n
             PROVE  /\ \A i \in at("result", n) : i - 1 \in at("call", n)
                    /\ at("call", n) # {} => at("result", n) # {} \/ <<"result", n>> \in owed
  BY DEF CallsArePaired
<1>1. grow \in Seq(Instrs) /\ ctx.hist \in Seq(Messages) /\ DOMAIN ctx.hist = 1 .. Len(ctx.hist)
  BY DEF Works, Typed, Data, Contexts
<1>2. Calls(ctx.hist, owed)
  BY <1>1, CallsOfPairs DEF Linked, Sound
<1> HIDE DEF owed
<1>3. <<"result", n>>[1] = "result" /\ <<"result", n>>[2] = n /\ <<"call", n>>[1] = "call" /\ <<"call", n>>[2] = n
  OBVIOUS
<1>4. \A i \in at("result", n) : i - 1 \in at("call", n)
  BY <1>1, <1>2, <1>3 DEF Calls
<1>5. \A i \in at("call", n) : i + 1 \in at("result", n) \/ <<"result", n>> \in owed
  BY <1>1, <1>2, <1>3 DEF Calls
<1> QED
  BY <1>4, <1>5

\* A result follows its call in the history, and a call has its result or _grow_context still
\* owes it; while no cancel cut a write, no write failed, no turn met another's
\* _grow_context and no crash left a cut file.
THEOREM CallsArePairedCorrect == Spec => []CallsArePaired
<1> DEFINE I == Works /\ Numbered /\ Consistent /\ Remembered /\ Linked
<1>1. Init => I
  BY WorksInit, NumberedInit, ConsistentInit, RememberedInit, LinkedInit
<1>2. I /\ [Next]_vars => I'
  BY WorksStep, NumberedStep, ConsistentStep, RememberedStep, LinkedStep
<1>3. I => CallsArePaired
  BY CallsMeanCalls
<1> HIDE DEF I
<1> QED
  BY <1>1, <1>2, <1>3, PTL DEF Spec

-----------------------------------------------------------------------------
(* The steers not yet taken are all in the queue while the loop runs, and  *)
(* the model has seen those that were taken once it has answered.          *)

Numbers == queue \in Seq(Nat) /\ serial \in Nat
Waiting == InLoop => \A s \in steered : \E i \in DOMAIN queue : queue[i] = s
Shown   == pc \in {"tools", "growing", "finishing"} => heard = {}
IInv    == Numbers /\ Waiting /\ Shown

\* Steps that change neither the queue nor the two histories, and do not enter the loop.
LEMMA Quiet ==
  ASSUME IInv, UNCHANGED <<queue, serial, steered, heard>>, InLoop' => InLoop,
         pc' \in {"tools", "growing", "finishing"} => pc \in {"tools", "growing", "finishing"}
  PROVE  IInv'
BY DEF IInv, Numbers, Waiting, Shown

LEMMA Over == ASSUME Ends PROVE ~InLoop' /\ pc' \notin {"tools", "growing", "finishing"}
BY DEF Ends, InLoop

LEMMA TakenFromQueue ==
  ASSUME IInv, queue # <<>>
  PROVE  /\ Tail(queue) \in Seq(Nat)
         /\ InLoop => \A s \in steered \ {Head(queue)} :
                        \E i \in DOMAIN Tail(queue) : Tail(queue)[i] = s
<1>1. Tail(queue) \in Seq(Nat) /\ Len(Tail(queue)) = Len(queue) - 1 /\ Len(queue) \in Nat \ {0}
      /\ \A i \in 1 .. Len(queue) - 1 : Tail(queue)[i] = queue[i + 1]
  BY DEF IInv, Numbers
<1>2. ASSUME InLoop, NEW s \in steered \ {Head(queue)}
      PROVE  \E i \in DOMAIN Tail(queue) : Tail(queue)[i] = s
  <2>1. PICK i \in 1 .. Len(queue) : queue[i] = s
    BY <1>2 DEF IInv, Waiting, Numbers
  <2>2. i # 1
    BY <1>2, <2>1
  <2>3. i - 1 \in 1 .. Len(queue) - 1 /\ Tail(queue)[i - 1] = s
    BY <1>1, <2>1, <2>2
  <2>4. DOMAIN Tail(queue) = 1 .. Len(queue) - 1
    BY <1>1
  <2> QED
    BY <2>3, <2>4
<1> QED
  BY <1>1, <1>2

LEMMA Start == Init => IInv
BY DEF Init, IInv, Numbers, Waiting, Shown, InLoop

LEMMA Step == IInv /\ [Next]_vars => IInv'
<1> SUFFICES ASSUME IInv, [Next]_vars PROVE IInv'
  OBVIOUS
<1> USE DEF soul, context, denwa, seen, At, Grown
<1>1. CASE TurnRuns \/ GrowRuns \/ CompactCommand \/ Rebuild \/ BeginStep \/ TellCheckpoints \/ Inject \/ SendMail
           \/ UNCHANGED vars
  BY <1>1, Quiet DEF TurnRuns, GrowRuns, CompactCommand, Compact, Rebuild, BeginStep, TellCheckpoints, Inject, SendMail,
     InLoop, vars
<1>2. CASE Prompt \/ ClearCommand \/ CommandDone \/ Overflow \/ ToolsEnd \/ Rejected \/ TurnBack \/ Resolve
           \/ NextStep \/ Return \/ Restart
  <2>1. CASE Prompt \/ ClearCommand \/ CommandDone \/ Overflow
    BY <2>1, Quiet DEF Prompt, ClearCommand, CommandDone, Overflow, Compact, InLoop
  <2>2. CASE ToolsEnd \/ Rejected \/ Resolve
    BY <2>2, Quiet DEF ToolsEnd, Rejected, Resolve, InLoop
  <2>3. CASE TurnBack
    <3>1. InLoop' /\ InLoop /\ Numbers' /\ steered' = steered /\ queue' = queue /\ heard' = heard /\ pc' = "between"
      BY <2>3 DEF TurnBack, InLoop, IInv, Numbers
    <3> QED
      BY <3>1 DEF IInv, Waiting, Shown
  <2>4. CASE NextStep \/ Return \/ Restart
    BY <2>4, Quiet DEF NextStep, Return, Restart, InLoop
  <2> QED
    BY <1>2, <2>1, <2>2, <2>3, <2>4
<1>3. CASE OpenTurn
  BY <1>3 DEF OpenTurn, InLoop, IInv, Numbers, Waiting, Shown
<1>4. CASE BeginLoop
  BY <1>4 DEF BeginLoop, InLoop, IInv, Numbers, Waiting, Shown
<1>11. CASE WriteFails \/ GrowFails
  <2>1. UNCHANGED <<queue, serial, steered, heard>> /\ (pc' = pc \/ Ends)
    BY <1>11, FailureIs
  <2>2. (InLoop' => InLoop) /\ (pc' \in {"tools", "growing", "finishing"} => pc \in {"tools", "growing", "finishing"})
    BY <2>1, Over DEF InLoop
  <2> QED
    BY <2>1, <2>2, Quiet
<1>5. CASE EndRun \/ Raise \/ TurnBackFails \/ Cancel
  <2>1. Ends
    BY <1>5 DEF EndRun, Raise, TurnBackFails, Cancel
  <2> QED
    BY <1>5, <2>1, Over, Quiet DEF EndRun, Raise, TurnBackFails, Cancel
<1>6. CASE Answer
  BY <1>6 DEF Answer, InLoop, IInv, Numbers, Waiting, Shown
<1>7. CASE Consume
  <2>1. queue' = Tail(queue) /\ steered' = steered \ {Head(queue)} /\ serial' = serial /\ pc' = "between" /\ InLoop
        /\ queue # <<>>
    BY <1>7 DEF Consume, InLoop
  <2> QED
    BY <2>1, TakenFromQueue DEF IInv, Numbers, Waiting, Shown
<1>8. CASE ConsumeFails
  <2>1. queue' = Tail(queue) /\ serial' = serial /\ Ends /\ queue # <<>>
    BY <1>8 DEF ConsumeFails
  <2> QED
    BY <2>1, TakenFromQueue, Over DEF IInv, Numbers, Waiting, Shown
<1>9. CASE Steer
  <2>1. /\ queue' = Append(queue, serial) /\ serial' = serial + 1 /\ pc' = pc /\ heard' = heard
        /\ steered' = IF InLoop THEN steered \cup {serial} ELSE steered
    BY <1>9 DEF Steer
  <2>2. queue' \in Seq(Nat) /\ serial' \in Nat /\ Len(queue') = Len(queue) + 1
        /\ queue'[Len(queue) + 1] = serial /\ \A i \in 1 .. Len(queue) : queue'[i] = queue[i]
    BY <2>1 DEF IInv, Numbers
  <2>3. Waiting'
    <3>1. SUFFICES ASSUME InLoop, NEW s \in steered \cup {serial}
                   PROVE  \E i \in DOMAIN queue' : queue'[i] = s
      BY <2>1 DEF Waiting, InLoop
    <3>2. DOMAIN queue' = 1 .. Len(queue) + 1 /\ DOMAIN queue = 1 .. Len(queue) /\ Len(queue) \in Nat
      BY <2>2 DEF IInv, Numbers
    <3>3. CASE s = serial
      BY <2>2, <3>2, <3>3
    <3>4. CASE s \in steered
      <4>1. PICK i \in 1 .. Len(queue) : queue[i] = s
        BY <3>1, <3>2, <3>4 DEF IInv, Waiting
      <4>2. i \in 1 .. Len(queue) + 1
        BY <3>2
      <4> QED
        BY <2>2, <3>2, <4>1, <4>2
    <3> QED
      BY <3>3, <3>4
  <2> QED
    BY <2>1, <2>2, <2>3 DEF IInv, Numbers, Shown
<1>10. CASE Crash
  BY <1>10 DEF Crash, InLoop, IInv, Numbers, Waiting, Shown
<1> QED
  BY <1>1, <1>2, <1>3, <1>4, <1>5, <1>6, <1>7, <1>8, <1>9, <1>10, <1>11 DEF Next

\* Only Return leaves the loop without a failure or a stop, and it finds the queue empty and
\* the model's answer newer than every steer that was taken.
LEMMA EndsAnswered ==
  ASSUME IInv, [Next]_vars, InLoop, ~InLoop', steered \cup heard # {}
  PROVE  Raise \/ TurnBackFails \/ ConsumeFails \/ WriteFails \/ GrowFails \/ Cancel \/ Crash
<1>1. ~Return
  <2>1. SUFFICES ASSUME Return PROVE FALSE
    OBVIOUS
  <2>2. queue = <<>> /\ pc = "finishing"
    BY <2>1 DEF Return, At
  <2>3. heard = {} /\ steered = {}
    BY <2>2 DEF IInv, Shown, Waiting
  <2> QED
    BY <2>3
<1> USE DEF At, Grown, InLoop, soul, context, denwa, seen
<1>2. ~TurnRuns /\ ~GrowRuns /\ ~Prompt /\ ~OpenTurn /\ ~ClearCommand /\ ~BeginLoop /\ ~EndRun /\ ~CommandDone
  BY DEF TurnRuns, GrowRuns, Prompt, OpenTurn, ClearCommand, BeginLoop, EndRun, CommandDone
<1>3. ~CompactCommand /\ ~Rebuild /\ ~BeginStep /\ ~TellCheckpoints /\ ~Inject /\ ~Answer /\ ~Overflow
  BY DEF CompactCommand, Rebuild, BeginStep, TellCheckpoints, Inject, Answer, Overflow, Compact
<1>4. ~SendMail /\ ~ToolsEnd /\ ~Rejected /\ ~TurnBack /\ ~Resolve /\ ~Consume /\ ~NextStep /\ ~Steer
  BY DEF SendMail, ToolsEnd, Rejected, TurnBack, Resolve, Consume, NextStep, Steer
<1>5. ~Restart /\ ~UNCHANGED vars
  BY DEF Restart, vars
<1> QED
  BY <1>1, <1>2, <1>3, <1>4, <1>5 DEF Next

\* A loop that ends with an accepted steer the model has not been shown has failed or was
\* stopped; one that returns has shown the model every steer it accepted.
THEOREM EverySteerAnswered == Spec => SteersAreAnswered
<1>1. IInv /\ [Next]_vars => [InLoop /\ ~InLoop' /\ steered \cup heard # {} =>
         Raise \/ TurnBackFails \/ ConsumeFails \/ WriteFails \/ GrowFails \/ Cancel \/ Crash]_vars
  BY EndsAnswered
<1> QED
  BY <1>1, Start, Step, PTL DEF Spec, SteersAreAnswered

=============================================================================
