------------------------- MODULE IdmxFramingProofs ---------------------------
(***************************************************************************)
(* Theorems about IdmxFraming for any number of frames, of any size, with  *)
(* either sentinel offset, and cut into any pieces.                        *)
(***************************************************************************)
EXTENDS IdmxFraming, FiniteSetTheorems, TLAPS

USE SizeAssumption, SourceAssumption

-----------------------------------------------------------------------------
(* The camera's stream.                                                    *)

\* The unit that is the sentinel of frame i.
Mark(i) == FirstUnit(i) + lead + 1

LEMMA Sizes ==
    ASSUME lead \in Leads
    PROVE  /\ lead \in {0, 1} /\ FrameSize \in Nat /\ FrameSize >= lead + 3
           /\ Length \in Nat
BY DEF FrameSize, Length

LEMMA Frames ==
    ASSUME lead \in Leads, NEW i \in Nat, i >= 1
    PROVE  /\ FirstUnit(i) \in Nat /\ FirstUnit(i) >= 1
           /\ LastUnit(i) \in Nat /\ LastUnit(i) = FirstUnit(i) + FrameSize - 1
           /\ Mark(i) \in Nat /\ FirstUnit(i) < Mark(i) /\ Mark(i) < LastUnit(i)
<1>1. (i - 1) * FrameSize \in Nat /\ i * FrameSize = (i - 1) * FrameSize + FrameSize
  BY Sizes
<1> QED
  BY <1>1, Sizes DEF FirstUnit, LastUnit, Mark

\* Frames follow each other.
LEMMA FramesApart ==
    ASSUME lead \in Leads, NEW i \in Nat, NEW j \in Nat, i < j
    PROVE  LastUnit(i) < FirstUnit(j)
<1> DEFINE k == j - 1 - i
<1>1. k \in Nat /\ j - 1 = i + k
  OBVIOUS
<1>2. (i + k) * FrameSize = i * FrameSize + k * FrameSize /\ k * FrameSize \in Nat
      /\ i * FrameSize \in Nat
  BY <1>1, Sizes
<1> QED
  BY <1>1, <1>2 DEF LastUnit, FirstUnit

\* Every unit lies in its frame, at its place in it.
LEMMA Position ==
    ASSUME lead \in Leads, NEW u \in Nat, u >= 1
    PROVE  /\ FrameOf(u) \in Nat /\ FrameOf(u) >= 1
           /\ u = FirstUnit(FrameOf(u)) + ((u - 1) % FrameSize)
           /\ (u - 1) % FrameSize \in 0..(FrameSize - 1)
<1>1. u - 1 \in Nat /\ FrameSize \in Nat /\ FrameSize > 0
  BY Sizes
<1>2. /\ (u - 1) \div FrameSize \in Nat
      /\ u - 1 = FrameSize * ((u - 1) \div FrameSize) + ((u - 1) % FrameSize)
      /\ (u - 1) % FrameSize \in 0..(FrameSize - 1)
  BY <1>1
<1>3. (FrameOf(u) - 1) = (u - 1) \div FrameSize
  BY <1>2 DEF FrameOf
<1> QED
  BY <1>1, <1>2, <1>3 DEF FrameOf, FirstUnit

LEMMA InOwnFrame ==
    ASSUME lead \in Leads, NEW u \in Nat, u >= 1
    PROVE  /\ FrameOf(u) \in Nat /\ FrameOf(u) >= 1
           /\ FirstUnit(FrameOf(u)) <= u /\ u <= LastUnit(FrameOf(u))
<1>1. FrameOf(u) \in Nat /\ FrameOf(u) >= 1
  BY Position
<1>2. /\ FirstUnit(FrameOf(u)) \in Nat
      /\ LastUnit(FrameOf(u)) = FirstUnit(FrameOf(u)) + FrameSize - 1
  BY <1>1, Frames
<1>3. FrameSize \in Nat
  BY Sizes
<1>4. /\ u = FirstUnit(FrameOf(u)) + ((u - 1) % FrameSize)
      /\ (u - 1) % FrameSize \in 0..(FrameSize - 1)
  BY Position
<1> QED
  BY <1>1, <1>2, <1>3, <1>4

LEMMA InFrame ==
    ASSUME lead \in Leads, NEW u \in Nat, u >= 1, NEW i \in Nat, i >= 1
    PROVE  FirstUnit(i) <= u /\ u <= LastUnit(i) <=> FrameOf(u) = i
<1>1. PICK j \in Nat : j = FrameOf(u) /\ j >= 1 /\ FirstUnit(j) <= u /\ u <= LastUnit(j)
  BY InOwnFrame
<1>2. /\ FirstUnit(j) \in Nat /\ LastUnit(j) \in Nat
      /\ FirstUnit(i) \in Nat /\ LastUnit(i) \in Nat
  BY <1>1, Frames
<1>3. i < j => LastUnit(i) < FirstUnit(j)
  BY FramesApart
<1>4. j < i => LastUnit(j) < FirstUnit(i)
  BY FramesApart
<1> QED
  BY <1>1, <1>2, <1>3, <1>4

LEMMA Marks ==
    ASSUME lead \in Leads, NEW u \in Nat, u >= 1
    PROVE  /\ IsMark(u) <=> u = Mark(FrameOf(u))
           /\ IsData(u) <=> u > Mark(FrameOf(u))
<1>1. FrameOf(u) \in Nat /\ FrameOf(u) >= 1
  BY Position
<1>2. FirstUnit(FrameOf(u)) \in Nat
  BY <1>1, Frames
<1>3. FrameSize \in Nat /\ lead \in {0, 1}
  BY Sizes
<1>4. PICK r \in Nat : r = (u - 1) % FrameSize /\ u = FirstUnit(FrameOf(u)) + r
  BY Position, <1>3
<1> QED
  BY <1>2, <1>3, <1>4 DEF IsMark, IsData, Mark

LEMMA MarkOf ==
    ASSUME lead \in Leads, NEW i \in Nat, i >= 1
    PROVE  FrameOf(Mark(i)) = i /\ IsMark(Mark(i))
<1>1. Mark(i) \in Nat /\ Mark(i) >= 1 /\ FirstUnit(i) <= Mark(i) /\ Mark(i) <= LastUnit(i)
  BY Frames
<1>2. FrameOf(Mark(i)) = i
  BY <1>1, InFrame
<1> QED
  BY <1>1, <1>2, Marks

-----------------------------------------------------------------------------
(* What iter_frames() finds in a piece.                                    *)

LEMMA Found ==
    ASSUME NEW first \in Nat, NEW last \in Nat, NEW f \in IterFrames(first, last)
    PROVE  /\ f = [from |-> f.from, mark |-> f.mark, to |-> f.to]
           /\ f.from \in first..last /\ f.mark \in first..last /\ f.to \in f.from..last
           /\ IsMark(f.mark) /\ f.from \in Begins(f.mark, first)
           /\ f.to \in Ends(f.from, Starts(first, last), last)
<1>1. PICK s \in Starts(first, last) :
          f \in {[from |-> s[1], mark |-> s[2], to |-> e] :
                    e \in Ends(s[1], Starts(first, last), last)}
  BY DEF IterFrames
<1>2. PICK e \in Ends(s[1], Starts(first, last), last) :
          f = [from |-> s[1], mark |-> s[2], to |-> e]
  BY <1>1
<1>3. /\ s \in (first..last) \X (first..last)
      /\ IsMark(s[2]) /\ s[1] \in Begins(s[2], first)
  BY DEF Starts
<1>4. e \in s[1]..last
  BY DEF Ends
<1> QED
  BY <1>2, <1>3, <1>4

LEMMA Typed ==
    ASSUME lead \in Leads, NEW first \in Nat, first >= 1, NEW last \in Units
    PROVE  IterFrames(first, last) \subseteq FrameRecord
<1> SUFFICES ASSUME NEW f \in IterFrames(first, last)
             PROVE  f \in FrameRecord
  OBVIOUS
<1>1. last \in Nat /\ last <= Length /\ Length \in Nat
  BY Sizes DEF Units
<1>2. /\ f = [from |-> f.from, mark |-> f.mark, to |-> f.to]
      /\ f.from \in first..last /\ f.mark \in first..last /\ f.to \in f.from..last
  BY <1>1, Found
<1>3. f.from \in Units /\ f.mark \in Units /\ f.to \in Units
  BY <1>1, <1>2 DEF Units
<1> QED
  BY <1>2, <1>3 DEF FrameRecord

\* A later frame whose sentinel the piece holds begins where its lead byte is, or where
\* it would be: the frame before it ends there at the latest.
LEMMA LaterStart ==
    ASSUME lead \in Leads, NEW first \in Nat, first >= 1, NEW last \in Nat,
           NEW i \in Nat, i >= 1, NEW j \in Nat, i < j,
           first <= Mark(i), Mark(j) <= last
    PROVE  <<Mark(j) - 2, Mark(j)>> \in Starts(first, last) /\ Mark(j) - 2 > Mark(i)
<1>1. LastUnit(i) < FirstUnit(j)
  BY FramesApart
<1>2. /\ Mark(i) \in Nat /\ Mark(i) < LastUnit(i) /\ LastUnit(i) \in Nat
      /\ Mark(j) \in Nat /\ FirstUnit(j) \in Nat
  BY Frames
<1>3. Mark(j) = FirstUnit(j) + lead + 1 /\ lead \in {0, 1}
  BY Sizes DEF Mark
<1>4. Mark(j) - 2 > Mark(i) /\ Mark(j) - 2 \in first..last /\ Mark(j) \in first..last
  BY <1>1, <1>2, <1>3
<1>5. IsMark(Mark(j))
  BY MarkOf
<1>6. Mark(j) - 2 \in Begins(Mark(j), first)
  BY <1>4 DEF Begins
<1> QED
  BY <1>4, <1>5, <1>6 DEF Starts

\* A frame is given no data of another.
LEMMA OwnData ==
    ASSUME lead \in Leads, NEW first \in Nat, first >= 1, NEW last \in Nat,
           NEW f \in IterFrames(first, last), NEW u \in Nat,
           Holds(f, u), IsData(u)
    PROVE  FrameOf(u) = FrameOf(f.mark)
<1>1. /\ f.from \in first..last /\ f.mark \in first..last /\ f.to \in f.from..last
      /\ IsMark(f.mark) /\ f.from \in Begins(f.mark, first)
      /\ f.to \in Ends(f.from, Starts(first, last), last)
  BY Found
<1>2. f.mark < u /\ u <= f.to /\ u >= 1 /\ u <= last
  BY <1>1 DEF Holds
<1>3. PICK i \in Nat : i = FrameOf(f.mark) /\ i >= 1 /\ f.mark = Mark(i)
  BY <1>1, Position, Marks
<1>4. PICK j \in Nat : j = FrameOf(u) /\ j >= 1 /\ u > Mark(j) /\ u <= LastUnit(j)
  BY <1>2, Position, Marks, InOwnFrame
<1>5. /\ Mark(i) \in Nat /\ FirstUnit(i) \in Nat /\ FirstUnit(i) < Mark(i)
      /\ Mark(j) \in Nat /\ LastUnit(j) \in Nat
  BY <1>3, <1>4, Frames
<1>6. ~ (j < i)
  <2> SUFFICES ASSUME j < i PROVE FALSE
    OBVIOUS
  <2>1. LastUnit(j) < FirstUnit(i)
    BY FramesApart
  <2> QED
    BY <2>1, <1>2, <1>3, <1>4, <1>5
<1>7. ~ (i < j)
  <2> SUFFICES ASSUME i < j PROVE FALSE
    OBVIOUS
  <2>1. first <= Mark(i) /\ Mark(j) <= last
    BY <1>1, <1>2, <1>3, <1>4, <1>5
  <2>2. <<Mark(j) - 2, Mark(j)>> \in Starts(first, last) /\ Mark(j) - 2 > Mark(i)
    BY <1>3, <2>1, LaterStart
  <2>3. f.from < Mark(i)
    BY <1>1, <1>3, <1>5 DEF Begins
  <2>4. Mark(j) - 2 > f.from => Mark(j) - 2 > f.to
    BY <1>1, <2>2 DEF Ends
  <2> QED
    BY <2>2, <2>3, <2>4, <1>1, <1>2, <1>4, <1>5
<1> QED
  BY <1>3, <1>4, <1>6, <1>7

-----------------------------------------------------------------------------
(* A frame that lies in one piece.                                         *)

\* A sentinel has one frame.
LEMMA OneFrame ==
    ASSUME NEW first \in Nat, NEW last \in Nat,
           NEW f \in IterFrames(first, last), NEW g \in IterFrames(first, last),
           f.mark = g.mark
    PROVE  f = g
<1>1. /\ f = [from |-> f.from, mark |-> f.mark, to |-> f.to]
      /\ f.from \in first..last /\ f.to \in f.from..last
      /\ f.from \in Begins(f.mark, first) /\ f.to \in Ends(f.from, Starts(first, last), last)
  BY Found
<1>2. /\ g = [from |-> g.from, mark |-> g.mark, to |-> g.to]
      /\ g.from \in first..last /\ g.to \in g.from..last
      /\ g.from \in Begins(g.mark, first) /\ g.to \in Ends(g.from, Starts(first, last), last)
  BY Found
<1>3. f.from = g.from
  BY <1>1, <1>2 DEF Begins
<1>4. ASSUME NEW d \in Ends(f.from, Starts(first, last), last),
             NEW e \in Ends(f.from, Starts(first, last), last)
      PROVE  ~ (d < e)
  <2>1. /\ d \in f.from..last /\ e \in f.from..last
        /\ d = last \/ \E t \in Starts(first, last) : t[1] = d + 1
        /\ \A t \in Starts(first, last) : t[1] > f.from => t[1] > e
    BY DEF Ends
  <2> QED
    BY <2>1, <1>1
<1>5. ~ (f.to < g.to) /\ ~ (g.to < f.to)
  BY <1>1, <1>2, <1>3, <1>4
<1>6. f.to = g.to
  BY <1>1, <1>2, <1>5
<1> QED
  BY <1>1, <1>2, <1>3, <1>6

\* A frame whose block, sentinel and data a piece holds is found in it with its data.
LEMMA WholeFound ==
    ASSUME lead \in Leads, NEW first \in Nat, first >= 1, NEW last \in Nat,
           NEW i \in Nat, i >= 1, first < Mark(i), LastUnit(i) <= last
    PROVE  \E f \in IterFrames(first, last) :
              /\ f.mark = Mark(i)
              /\ f.to >= LastUnit(i) \/ (lead = 0 /\ f.to >= LastUnit(i) - 1)
<1>1. /\ Mark(i) \in Nat /\ LastUnit(i) \in Nat /\ Mark(i) < LastUnit(i)
      /\ Mark(i) \in first..last /\ lead \in {0, 1}
  BY Frames, Sizes
<1>2. PICK b \in Nat : b \in first..last /\ b < Mark(i) /\ b \in Begins(Mark(i), first)
  <2>1. CASE Mark(i) - 2 >= first
    BY <1>1, <2>1 DEF Begins
  <2>2. CASE ~ (Mark(i) - 2 >= first)
    BY <1>1, <2>2 DEF Begins
  <2> QED
    BY <2>1, <2>2
<1> DEFINE s == <<b, Mark(i)>>
<1>3. s \in Starts(first, last) /\ s[1] = b /\ s[2] = Mark(i)
  BY <1>1, <1>2, MarkOf DEF Starts
<1>4. /\ Mark(i + 1) \in Nat /\ Mark(i + 1) = LastUnit(i) + lead + 2
  <2>1. FirstUnit(i + 1) = LastUnit(i) + 1 /\ i + 1 \in Nat /\ i + 1 >= 1
    BY Sizes DEF FirstUnit, LastUnit
  <2> QED
    BY <2>1, Frames, <1>1 DEF Mark
<1>5. ASSUME NEW t \in Starts(first, last), t[1] > b
      PROVE  /\ t[1] >= Mark(i + 1) - 2
             /\ Mark(i + 1) <= last
  <2>1. /\ t \in (first..last) \X (first..last) /\ IsMark(t[2])
        /\ t[1] \in Begins(t[2], first)
    BY DEF Starts
  <2>2. t[2] \in Nat /\ t[2] >= 1 /\ t[2] >= first /\ t[2] <= last /\ t[1] \in Nat
    BY <2>1
  <2>3. PICK j \in Nat : /\ j = FrameOf(t[2]) /\ j >= 1 /\ t[2] = Mark(j)
    BY <2>1, <2>2, Position, Marks
  <2>4. /\ Mark(j) \in Nat /\ FirstUnit(j) \in Nat /\ LastUnit(j) \in Nat
        /\ FirstUnit(j) < Mark(j) /\ Mark(j) < LastUnit(j)
        /\ FirstUnit(i) \in Nat /\ FirstUnit(i) < Mark(i)
    BY <2>3, Frames
  <2>5. i # j
    <3> SUFFICES ASSUME i = j PROVE FALSE
      OBVIOUS
    <3>1. t[1] \in Begins(Mark(i), first)
      BY <2>1, <2>3
    <3> QED
      BY <3>1, <1>1, <1>2, <1>5 DEF Begins
  <2>6. ~ (j < i)
    <3> SUFFICES ASSUME j < i PROVE FALSE
      OBVIOUS
    <3>1. t[1] = Mark(j) - 2 \/ t[1] = Mark(j) - 1
      BY <2>1, <2>3 DEF Begins
    <3>2. LastUnit(j) < FirstUnit(i) /\ Mark(i) = FirstUnit(i) + lead + 1
      BY FramesApart DEF Mark
    <3>3. b >= Mark(i) - 2
      BY <1>1, <1>2 DEF Begins
    <3> QED
      BY <3>1, <3>2, <3>3, <2>4, <1>1, <1>2, <1>5
  <2>7. Mark(j) >= Mark(i + 1)
    <3>1. CASE j = i + 1
      BY <3>1, <2>4
    <3>2. CASE i + 1 < j
      <4>1. /\ LastUnit(i + 1) < FirstUnit(j) /\ Mark(i + 1) < LastUnit(i + 1)
            /\ LastUnit(i + 1) \in Nat
        BY <3>2, FramesApart, Frames
      <4> QED
        BY <4>1, <2>4, <1>4
    <3> QED
      BY <3>1, <3>2, <2>5, <2>6
  <2>8. t[1] = Mark(j) - 2
    <3>1. Mark(j) - 2 >= first
      BY <2>4, <2>7, <1>1, <1>4
    <3>2. Begins(Mark(j), first) = {Mark(j) - 2}
      BY <3>1 DEF Begins
    <3> QED
      BY <3>2, <2>1, <2>3
  <2> QED
    BY <2>2, <2>3, <2>4, <2>7, <2>8, <1>4
<1>6. CASE Mark(i + 1) <= last
  <2> DEFINE e == Mark(i + 1) - 3
  <2>1. e >= LastUnit(i) \/ (lead = 0 /\ e >= LastUnit(i) - 1)
    BY <1>1, <1>2, <1>4, <1>6
  <2>2. e \in Nat /\ e \in b..last
    BY <1>1, <1>2, <1>4, <1>6
  <2>3. <<Mark(i + 1) - 2, Mark(i + 1)>> \in Starts(first, last)
    <3>1. i + 1 \in Nat /\ i < i + 1 /\ first <= Mark(i)
      BY <1>1
    <3> QED
      BY <3>1, <1>6, LaterStart
  <2>4. \E t \in Starts(first, last) : t[1] = e + 1
    <3>1. Mark(i + 1) - 2 = e + 1
      BY <1>4
    <3> QED
      BY <2>3, <3>1
  <2>5. \A t \in Starts(first, last) : t[1] > b => t[1] > e
    <3> SUFFICES ASSUME NEW t \in Starts(first, last), t[1] > b PROVE t[1] > e
      OBVIOUS
    <3>1. t[1] >= Mark(i + 1) - 2 /\ t[1] \in Nat
      BY <1>5 DEF Starts
    <3> QED
      BY <3>1, <1>4
  <2>6. e \in Ends(b, Starts(first, last), last)
    BY <2>2, <2>4, <2>5 DEF Ends
  <2>7. [from |-> b, mark |-> Mark(i), to |-> e] \in IterFrames(first, last)
    <3>1. [from |-> b, mark |-> Mark(i), to |-> e] \in
              {[from |-> s[1], mark |-> s[2], to |-> d] :
                  d \in Ends(s[1], Starts(first, last), last)}
      BY <2>6, <1>3
    <3> QED
      BY <3>1, <1>3 DEF IterFrames
  <2> HIDE DEF e
  <2> QED
    BY <2>1, <2>2, <2>7
<1>7. CASE ~ (Mark(i + 1) <= last)
  <2>1. \A t \in Starts(first, last) : ~ (t[1] > b)
    BY <1>5, <1>7
  <2>2. last \in Ends(b, Starts(first, last), last)
    <3>1. last \in b..last
      BY <1>2
    <3> QED
      BY <2>1, <3>1 DEF Ends
  <2>3. [from |-> b, mark |-> Mark(i), to |-> last] \in IterFrames(first, last)
    <3>1. [from |-> b, mark |-> Mark(i), to |-> last] \in
              {[from |-> s[1], mark |-> s[2], to |-> d] :
                  d \in Ends(s[1], Starts(first, last), last)}
      BY <2>2, <1>3
    <3> QED
      BY <3>1, <1>3 DEF IterFrames
  <2> QED
    BY <2>3
<1> QED
  BY <1>6, <1>7

-----------------------------------------------------------------------------
(* A packet body of whole frames.                                          *)

\* Frames j of the packet begin where the camera's do and are found.
LEMMA PacketStart ==
    ASSUME lead \in Leads, lead = 1, NEW k \in Nat, NEW i \in Nat, NEW j \in Nat,
           k < j, j <= i
    PROVE  /\ <<FirstUnit(j), Mark(j)>> \in Starts(LastUnit(k) + 1, LastUnit(i))
           /\ LastUnit(k) < FirstUnit(j) /\ LastUnit(j) <= LastUnit(i)
<1>1. LastUnit(k) < FirstUnit(j) /\ LastUnit(k) \in Nat
  <2>1. k * FrameSize \in Nat
    BY Sizes
  <2> QED
    BY <2>1, FramesApart DEF LastUnit
<1>2. /\ FirstUnit(j) \in Nat /\ Mark(j) \in Nat /\ LastUnit(j) \in Nat
      /\ FirstUnit(j) < Mark(j) /\ Mark(j) < LastUnit(j)
      /\ LastUnit(i) \in Nat /\ FirstUnit(i) \in Nat /\ FirstUnit(i) < LastUnit(i)
  <2>1. j >= 1 /\ i >= 1
    OBVIOUS
  <2>2. /\ FirstUnit(j) \in Nat /\ Mark(j) \in Nat /\ LastUnit(j) \in Nat
        /\ FirstUnit(j) < Mark(j) /\ Mark(j) < LastUnit(j)
    BY <2>1, Frames
  <2>3. /\ LastUnit(i) \in Nat /\ FirstUnit(i) \in Nat
        /\ FirstUnit(i) < Mark(i) /\ Mark(i) < LastUnit(i) /\ Mark(i) \in Nat
    BY <2>1, Frames
  <2> QED
    BY <2>2, <2>3
<1>3. LastUnit(j) <= LastUnit(i)
  <2>1. CASE j = i
    BY <2>1, <1>2
  <2>2. CASE j < i
    <3>1. LastUnit(j) < FirstUnit(i)
      BY <2>2, FramesApart
    <3> QED
      BY <3>1, <1>2
  <2> QED
    BY <2>1, <2>2
<1>4. /\ FirstUnit(j) \in (LastUnit(k) + 1)..LastUnit(i)
      /\ Mark(j) \in (LastUnit(k) + 1)..LastUnit(i)
  BY <1>1, <1>2, <1>3
<1>5. IsMark(Mark(j))
  BY MarkOf
<1>6. FirstUnit(j) = Mark(j) - 2
  BY <1>2 DEF Mark
<1>7. FirstUnit(j) \in Begins(Mark(j), LastUnit(k) + 1)
  BY <1>4, <1>6 DEF Begins
<1> QED
  BY <1>1, <1>3, <1>4, <1>5, <1>7 DEF Starts

\* Nothing else is found to begin in it.
LEMMA OnlyPacketStarts ==
    ASSUME lead \in Leads, lead = 1, NEW k \in Nat, NEW i \in Nat, k < i,
           NEW s \in Starts(LastUnit(k) + 1, LastUnit(i))
    PROVE  \E j \in Nat : k < j /\ j <= i /\ s = <<FirstUnit(j), Mark(j)>>
<1> DEFINE first == LastUnit(k) + 1
           last == LastUnit(i)
<1>1. LastUnit(k) = k * FrameSize /\ LastUnit(k) \in Nat /\ first \in Nat /\ first >= 1
  BY Sizes DEF LastUnit
<1>2. last \in Nat
  <2>1. i >= 1
    OBVIOUS
  <2> QED
    BY <2>1, Frames
<1>3. /\ s \in (first..last) \X (first..last) /\ IsMark(s[2])
      /\ s[1] \in Begins(s[2], first)
  BY DEF Starts
<1>4. s[2] \in Nat /\ first <= s[2] /\ s[2] <= last /\ s[2] >= 1
  BY <1>1, <1>2, <1>3
<1>5. PICK j \in Nat : /\ j = FrameOf(s[2]) /\ j >= 1 /\ s[2] = Mark(j)
                       /\ FirstUnit(j) <= s[2] /\ s[2] <= LastUnit(j)
  BY <1>3, <1>4, Position, Marks, InOwnFrame
<1>6. FirstUnit(j) \in Nat /\ LastUnit(j) \in Nat /\ FirstUnit(j) = Mark(j) - 2
  BY <1>5, Frames DEF Mark
<1>7. ~ (j <= k)
  <2> SUFFICES ASSUME j <= k PROVE FALSE
    OBVIOUS
  <2>1. j = k \/ j < k
    BY <1>5
  <2>2. CASE j = k
    BY <2>2, <1>1, <1>4, <1>5, <1>6
  <2>3. CASE j < k
    <3>1. LastUnit(j) < FirstUnit(k)
      BY <2>3, FramesApart
    <3>2. k >= 1 /\ FirstUnit(k) \in Nat /\ LastUnit(k) \in Nat /\ FirstUnit(k) < Mark(k)
          /\ Mark(k) < LastUnit(k) /\ Mark(k) \in Nat
      BY <2>3, Frames
    <3> QED
      BY <3>1, <3>2, <1>4, <1>5, <1>6
  <2> QED
    BY <2>1, <2>2, <2>3
<1>8. ~ (i < j)
  <2> SUFFICES ASSUME i < j PROVE FALSE
    OBVIOUS
  <2>1. LastUnit(i) < FirstUnit(j)
    BY FramesApart
  <2> QED
    BY <2>1, <1>2, <1>4, <1>5, <1>6
<1>9. LastUnit(k) < FirstUnit(j)
  BY <1>7, FramesApart
<1>10. s[1] = FirstUnit(j)
  <2>1. s[2] - 2 >= first /\ s[2] - 2 = FirstUnit(j)
    BY <1>1, <1>4, <1>5, <1>6, <1>9
  <2>2. Begins(s[2], first) = {s[2] - 2}
    BY <2>1 DEF Begins
  <2> QED
    BY <2>1, <2>2, <1>3
<1>11. s = <<s[1], s[2]>>
  BY <1>3
<1>12. s = <<FirstUnit(j), Mark(j)>>
  BY <1>5, <1>10, <1>11
<1> QED
  BY <1>5, <1>7, <1>8, <1>12

\* So a frame ends where the camera's does.
LEMMA PacketEnds ==
    ASSUME lead \in Leads, lead = 1, NEW k \in Nat, NEW i \in Nat, NEW j \in Nat,
           k < j, j <= i
    PROVE  Ends(FirstUnit(j), Starts(LastUnit(k) + 1, LastUnit(i)), LastUnit(i))
               = {LastUnit(j)}
<1> DEFINE starts == Starts(LastUnit(k) + 1, LastUnit(i))
<1>1. /\ FirstUnit(j) \in Nat /\ LastUnit(j) \in Nat /\ FirstUnit(j) < LastUnit(j)
      /\ LastUnit(j) <= LastUnit(i) /\ LastUnit(i) \in Nat
  <2>1. j >= 1 /\ i >= 1
    OBVIOUS
  <2>2. /\ FirstUnit(j) \in Nat /\ Mark(j) \in Nat /\ LastUnit(j) \in Nat
        /\ FirstUnit(j) < Mark(j) /\ Mark(j) < LastUnit(j)
    BY <2>1, Frames
  <2>3. LastUnit(i) \in Nat
    BY <2>1, Frames
  <2>4. <<FirstUnit(j), Mark(j)>> \in starts /\ LastUnit(j) <= LastUnit(i)
    BY PacketStart
  <2> QED
    BY <2>2, <2>3, <2>4
<1>2. \A t \in starts : t[1] > FirstUnit(j) => t[1] > LastUnit(j)
  <2> SUFFICES ASSUME NEW t \in starts, t[1] > FirstUnit(j)
               PROVE  t[1] > LastUnit(j)
    OBVIOUS
  <2>1. PICK h \in Nat : k < h /\ h <= i /\ t = <<FirstUnit(h), Mark(h)>>
    BY OnlyPacketStarts
  <2>2. FirstUnit(h) \in Nat /\ t[1] = FirstUnit(h)
    BY <2>1, Frames
  <2>3. ~ (h < j)
    <3> SUFFICES ASSUME h < j PROVE FALSE
      OBVIOUS
    <3>1. /\ LastUnit(h) < FirstUnit(j) /\ FirstUnit(h) < Mark(h) /\ Mark(h) < LastUnit(h)
          /\ LastUnit(h) \in Nat /\ Mark(h) \in Nat
      BY <2>1, FramesApart, Frames
    <3> QED
      BY <3>1, <2>2, <1>1
  <2>4. h # j
    BY <2>2, <1>1
  <2>5. LastUnit(j) < FirstUnit(h)
    BY <2>3, <2>4, FramesApart
  <2> QED
    BY <2>2, <2>5, <1>1
<1>3. LastUnit(j) = LastUnit(i) \/ \E t \in starts : t[1] = LastUnit(j) + 1
  <2>1. CASE j = i
    BY <2>1
  <2>2. CASE j < i
    <3>1. <<FirstUnit(j + 1), Mark(j + 1)>> \in starts
      <4>1. j + 1 \in Nat /\ k < j + 1 /\ j + 1 <= i
        BY <2>2
      <4> QED
        BY <4>1, PacketStart
    <3>2. FirstUnit(j + 1) = LastUnit(j) + 1
      BY Sizes DEF FirstUnit, LastUnit
    <3> QED
      BY <3>1, <3>2
  <2> QED
    BY <2>1, <2>2
<1>4. LastUnit(j) \in Ends(FirstUnit(j), starts, LastUnit(i))
  BY <1>1, <1>2, <1>3 DEF Ends
<1>5. ASSUME NEW e \in Ends(FirstUnit(j), starts, LastUnit(i))
      PROVE  e = LastUnit(j)
  <2>1. /\ e \in FirstUnit(j)..LastUnit(i)
        /\ e = LastUnit(i) \/ \E t \in starts : t[1] = e + 1
        /\ \A t \in starts : t[1] > FirstUnit(j) => t[1] > e
    BY DEF Ends
  <2>2. e \in Nat /\ FirstUnit(j) <= e /\ e <= LastUnit(i)
    BY <2>1, <1>1
  <2>3. e <= LastUnit(j)
    <3>1. CASE LastUnit(j) = LastUnit(i)
      BY <3>1, <2>2
    <3>2. CASE \E t \in starts : t[1] = LastUnit(j) + 1
      BY <3>2, <2>1, <2>2, <1>1
    <3> QED
      BY <3>1, <3>2, <1>3
  <2>4. e >= LastUnit(j)
    <3>1. CASE e = LastUnit(i)
      BY <3>1, <1>1
    <3>2. CASE \E t \in starts : t[1] = e + 1
      BY <3>2, <2>2, <1>1, <1>2
    <3> QED
      BY <3>1, <3>2, <2>1
  <2> QED
    BY <2>2, <2>3, <2>4, <1>1
<1> QED
  BY <1>4, <1>5

\* The frames of a packet are the camera's.
LEMMA PacketFrames ==
    ASSUME lead \in Leads, lead = 1, NEW k \in Nat, NEW i \in Nat, k < i
    PROVE  IterFrames(LastUnit(k) + 1, LastUnit(i)) =
               {[from |-> FirstUnit(j), mark |-> Mark(j), to |-> LastUnit(j)] :
                   j \in (k + 1)..i}
<1> DEFINE first == LastUnit(k) + 1
           last == LastUnit(i)
           record(j) == [from |-> FirstUnit(j), mark |-> Mark(j), to |-> LastUnit(j)]
<1>1. ASSUME NEW f \in IterFrames(first, last)
      PROVE  \E j \in (k + 1)..i : f = record(j)
  <2>1. PICK s \in Starts(first, last) :
            f \in {[from |-> s[1], mark |-> s[2], to |-> e] :
                      e \in Ends(s[1], Starts(first, last), last)}
    BY DEF IterFrames
  <2>2. PICK j \in Nat : k < j /\ j <= i /\ s = <<FirstUnit(j), Mark(j)>>
    BY OnlyPacketStarts
  <2>3. Ends(FirstUnit(j), Starts(first, last), last) = {LastUnit(j)}
    BY <2>2, PacketEnds
  <2>4. s[1] = FirstUnit(j) /\ s[2] = Mark(j)
    BY <2>2
  <2>5. f = record(j)
    BY <2>1, <2>3, <2>4
  <2> QED
    BY <2>2, <2>5
<1>2. ASSUME NEW j \in (k + 1)..i
      PROVE  record(j) \in IterFrames(first, last)
  <2>1. j \in Nat /\ k < j /\ j <= i
    OBVIOUS
  <2> DEFINE s == <<FirstUnit(j), Mark(j)>>
  <2>2. s \in Starts(first, last) /\ s[1] = FirstUnit(j) /\ s[2] = Mark(j)
    BY <2>1, PacketStart
  <2>3. Ends(FirstUnit(j), Starts(first, last), last) = {LastUnit(j)}
    BY <2>1, PacketEnds
  <2>4. record(j) \in {[from |-> s[1], mark |-> s[2], to |-> e] :
                          e \in Ends(s[1], Starts(first, last), last)}
    BY <2>2, <2>3
  <2> QED
    BY <2>2, <2>4 DEF IterFrames
<1> QED
  BY <1>1, <1>2

-----------------------------------------------------------------------------
(* The inductive invariant.                                                *)

\* Packets leave the decoder between two frames of the camera.
BetweenFrames ==
    source = "packets" => \E k \in 0..MaxFrames : fed = LastUnit(k)

\* The decoder stands where the last piece ended.
AtCut == fed = 0 \/ fed \in cuts

\* What was found was fed, and a sentinel has one frame.
OnePerMark ==
    /\ \A f \in found : IsMark(f.mark) /\ f.mark <= fed
    /\ \A f, g \in found : f.mark = g.mark => f = g

\* The frame of sentinel i was found with its data, but the last unit at offset 8.
Given(i) ==
    \E f \in found :
        /\ f.mark = Mark(i)
        /\ f.to >= LastUnit(i) \/ (lead = 0 /\ f.to >= LastUnit(i) - 1)

UncutGiven == \A i \in 1..MaxFrames : Uncut(i) => Given(i)

IInv ==
    /\ TypeOK
    /\ NoForeignData
    /\ PacketsAreExact
    /\ BetweenFrames
    /\ AtCut
    /\ OnePerMark
    /\ UncutGiven

\* The camera's stream stays what it is.
LEMMA SameStream ==
    ASSUME lead' = lead
    PROVE  /\ Units' = Units /\ Length' = Length /\ FrameRecord' = FrameRecord
           /\ \A u : FrameOf(u)' = FrameOf(u) /\ IsData(u)' = IsData(u)
           /\ \A i : /\ FirstUnit(i)' = FirstUnit(i) /\ LastUnit(i)' = LastUnit(i)
                     /\ Mark(i)' = Mark(i) /\ IsMark(i)' = IsMark(i)
BY DEF Units, Length, FrameRecord, FrameOf, IsData, IsMark, FirstUnit, LastUnit, Mark, FrameSize

THEOREM Initialized == Init => IInv
<1> SUFFICES ASSUME Init PROVE IInv
  OBVIOUS
<1>1. Length \in Nat /\ lead \in Leads
  BY Sizes DEF Init
<1>2. TypeOK
  BY <1>1 DEF Init, TypeOK
<1>3. NoForeignData
  BY DEF Init, NoForeignData
<1>4. PacketsAreExact
  <2>1. ASSUME NEW j \in 1..MaxFrames PROVE ~ (LastUnit(j) <= fed)
    <3>1. j \in Nat /\ j >= 1
      OBVIOUS
    <3>2. LastUnit(j) \in Nat /\ FirstUnit(j) \in Nat /\ FirstUnit(j) < Mark(j)
          /\ Mark(j) < LastUnit(j) /\ Mark(j) \in Nat
      BY <1>1, <3>1, Frames
    <3> QED
      BY <3>2 DEF Init
  <2> QED
    BY <2>1 DEF Init, PacketsAreExact
<1>5. BetweenFrames
  <2>1. LastUnit(0) = 0 /\ 0 \in 0..MaxFrames
    BY <1>1, Sizes DEF LastUnit
  <2> QED
    BY <2>1 DEF Init, BetweenFrames
<1>6. AtCut /\ OnePerMark
  BY DEF Init, AtCut, OnePerMark
<1>7. UncutGiven
  <2>1. ASSUME NEW j \in 1..MaxFrames PROVE ~ (LastUnit(j) <= fed)
    <3>1. j \in Nat /\ j >= 1
      OBVIOUS
    <3>2. LastUnit(j) \in Nat /\ FirstUnit(j) \in Nat /\ FirstUnit(j) < Mark(j)
          /\ Mark(j) < LastUnit(j) /\ Mark(j) \in Nat
      BY <1>1, <3>1, Frames
    <3> QED
      BY <3>2 DEF Init
  <2> QED
    BY <2>1 DEF UncutGiven, Uncut
<1> QED
  BY <1>2, <1>3, <1>4, <1>5, <1>6, <1>7 DEF IInv

\* Whatever piece is fed.
LEMMA UpdateKeeps ==
    ASSUME TypeOK, NoForeignData, AtCut, OnePerMark, UncutGiven,
           NEW last \in Units, last > fed, Update(last)
    PROVE  TypeOK' /\ NoForeignData' /\ AtCut' /\ OnePerMark' /\ UncutGiven'
<1>1. lead \in Leads /\ lead' = lead /\ fed \in Nat /\ Length \in Nat /\ last \in Nat
      /\ last <= Length /\ last >= 1
  BY Sizes DEF TypeOK, Update, Units
<1>2. IterFrames(fed + 1, last) \subseteq FrameRecord
  BY <1>1, Typed
<1>3. TypeOK'
  BY <1>1, <1>2, SameStream DEF TypeOK, Update
<1>4. ASSUME NEW f \in found', NEW u \in Units, Holds(f, u), IsData(u)
      PROVE  FrameOf(u) = FrameOf(f.mark)
  <2>1. CASE f \in found
    BY <1>4, <2>1 DEF NoForeignData
  <2>2. CASE f \in IterFrames(fed + 1, last)
    BY <1>1, <1>4, <2>2, OwnData DEF Units
  <2> QED
    BY <2>1, <2>2 DEF Update
<1>5. NoForeignData'
  BY <1>1, <1>4, SameStream DEF NoForeignData, Holds
<1>6. AtCut'
  BY DEF AtCut, Update
<1>7. \A f \in IterFrames(fed + 1, last) : IsMark(f.mark) /\ fed < f.mark /\ f.mark <= last
  <2> SUFFICES ASSUME NEW f \in IterFrames(fed + 1, last)
               PROVE  IsMark(f.mark) /\ fed < f.mark /\ f.mark <= last
    OBVIOUS
  <2>1. fed + 1 \in Nat
    BY <1>1
  <2>2. f.mark \in (fed + 1)..last /\ IsMark(f.mark)
    BY <1>1, <2>1, Found
  <2> QED
    BY <1>1, <2>2
<1>8. OnePerMark'
  <2>1. ASSUME NEW f \in found' PROVE IsMark(f.mark) /\ f.mark <= fed'
    <3>1. CASE f \in found
      <4>1. f.mark \in Nat
        BY <3>1 DEF TypeOK, FrameRecord, Units
      <4> QED
        BY <1>1, <3>1, <4>1 DEF OnePerMark, Update
    <3>2. CASE f \in IterFrames(fed + 1, last)
      BY <1>7, <3>2 DEF Update
    <3> QED
      BY <3>1, <3>2 DEF Update
  <2>2. ASSUME NEW f \in found', NEW g \in found', f.mark = g.mark PROVE f = g
    <3>1. CASE f \in found /\ g \in found
      BY <2>2, <3>1 DEF OnePerMark
    <3>2. CASE f \in IterFrames(fed + 1, last) /\ g \in IterFrames(fed + 1, last)
      BY <1>1, <2>2, <3>2, OneFrame
    <3>3. ASSUME NEW d \in found, NEW e \in IterFrames(fed + 1, last) PROVE d.mark # e.mark
      <4>1. d.mark \in Nat /\ d.mark <= fed
        BY DEF TypeOK, FrameRecord, Units, OnePerMark
      <4>2. fed < e.mark
        BY <1>7
      <4> QED
        BY <1>1, <4>1, <4>2
    <3> QED
      BY <2>2, <3>1, <3>2, <3>3 DEF Update
  <2> QED
    BY <1>1, <2>1, <2>2, SameStream DEF OnePerMark
<1>9. UncutGiven'
  <2>1. ASSUME NEW i \in 1..MaxFrames, LastUnit(i) <= last,
               \A c \in cuts' : ~ (FirstUnit(i) + lead <= c /\ c < LastUnit(i))
        PROVE  \E f \in found' :
                  /\ f.mark = Mark(i)
                  /\ f.to >= LastUnit(i) \/ (lead = 0 /\ f.to >= LastUnit(i) - 1)
    <3>1. cuts \subseteq cuts' /\ found \subseteq found'
          /\ IterFrames(fed + 1, last) \subseteq found'
      BY DEF Update
    <3>2. CASE LastUnit(i) <= fed
      <4>1. Given(i)
        BY <2>1, <3>1, <3>2 DEF UncutGiven, Uncut
      <4> QED
        BY <3>1, <4>1 DEF Given
    <3>3. CASE ~ (LastUnit(i) <= fed)
      <4>1. /\ i \in Nat /\ i >= 1 /\ FirstUnit(i) \in Nat /\ FirstUnit(i) >= 1
            /\ LastUnit(i) \in Nat /\ lead \in {0, 1}
        BY <1>1, Frames, Sizes
      <4>2. fed < FirstUnit(i) + lead
        BY <1>1, <2>1, <3>1, <3>3, <4>1 DEF AtCut
      <4>3. fed + 1 \in Nat /\ fed + 1 >= 1 /\ fed + 1 < Mark(i)
        BY <1>1, <4>1, <4>2 DEF Mark
      <4>4. \E f \in IterFrames(fed + 1, last) :
               /\ f.mark = Mark(i)
               /\ f.to >= LastUnit(i) \/ (lead = 0 /\ f.to >= LastUnit(i) - 1)
        BY <1>1, <2>1, <4>1, <4>3, WholeFound
      <4> QED
        BY <3>1, <4>4
    <3> QED
      BY <3>2, <3>3
  <2>2. fed' = last
    BY DEF Update
  <2> QED
    BY <1>1, <2>1, <2>2, SameStream DEF UncutGiven, Uncut, Given
<1> QED
  BY <1>3, <1>5, <1>6, <1>8, <1>9

THEOREM Preserved == IInv /\ [Next]_vars => IInv'
<1> SUFFICES ASSUME IInv, [Next]_vars PROVE IInv'
  OBVIOUS
<1> USE DEF IInv
<1>1. CASE PacketArrives
  <2>1. PICK i \in 1..MaxFrames : LastUnit(i) > fed /\ Update(LastUnit(i))
    BY <1>1 DEF PacketArrives
  <2>2. source = "packets" /\ source' = source /\ lead' = lead /\ lead \in Leads
        /\ fed \in Nat /\ fed' = LastUnit(i)
    BY <1>1, <2>1, Sizes DEF PacketArrives, Update, TypeOK
  <2>3. LastUnit(i) \in Units
    <3>1. i * FrameSize <= MaxFrames * FrameSize
      BY Sizes, <2>2
    <3>2. LastUnit(i) \in Nat /\ LastUnit(i) >= 1
      BY Frames, <2>2
    <3> QED
      BY <3>1, <3>2 DEF Units, LastUnit, Length
  <2>4. TypeOK' /\ NoForeignData' /\ AtCut' /\ OnePerMark' /\ UncutGiven'
    BY <2>1, <2>3, UpdateKeeps
  <2>5. BetweenFrames'
    BY <2>2, SameStream DEF BetweenFrames
  <2>6. PacketsAreExact'
    <3> SUFFICES ASSUME lead = 1
                 PROVE  found' = {[from |-> FirstUnit(j), mark |-> FirstUnit(j) + lead + 1,
                                   to |-> LastUnit(j)] :
                                      j \in {h \in 1..MaxFrames : LastUnit(h) <= fed'}}
      BY <2>2, SameStream DEF PacketsAreExact
    <3>1. PICK k \in 0..MaxFrames : fed = LastUnit(k)
      BY <2>2 DEF BetweenFrames
    <3>2. k < i
      <4>1. ASSUME i < k PROVE LastUnit(i) < fed
        <5>1. LastUnit(i) < FirstUnit(k) /\ FirstUnit(k) < Mark(k) /\ Mark(k) < LastUnit(k)
              /\ FirstUnit(k) \in Nat /\ Mark(k) \in Nat /\ LastUnit(k) \in Nat
              /\ LastUnit(i) \in Nat
          BY <2>2, <4>1, Frames, FramesApart
        <5> QED
          BY <5>1, <3>1
      <4> QED
        BY <2>1, <2>2, <2>3, <3>1, <4>1 DEF Units
    <3>3. found' = found \cup
              {[from |-> FirstUnit(j), mark |-> Mark(j), to |-> LastUnit(j)] :
                  j \in (k + 1)..i}
      <4>1. k \in Nat /\ i \in Nat
        OBVIOUS
      <4> QED
        BY <2>1, <2>2, <3>1, <3>2, <4>1, PacketFrames DEF Update
    <3>4. \A j \in 1..MaxFrames : LastUnit(j) <= fed' <=> LastUnit(j) <= fed \/ j \in (k + 1)..i
      <4> SUFFICES ASSUME NEW j \in 1..MaxFrames
                   PROVE  /\ LastUnit(j) <= fed <=> j <= k
                          /\ LastUnit(j) <= fed' <=> j <= i
        BY <3>2
      <4>1. ASSUME NEW h \in 0..MaxFrames
            PROVE  LastUnit(j) <= LastUnit(h) <=> j <= h
        <5>1. LastUnit(j) = j * FrameSize /\ LastUnit(h) = h * FrameSize
              /\ FrameSize \in Nat /\ FrameSize > 0
          BY Sizes, <2>2 DEF LastUnit
        <5>2. j <= h => j * FrameSize <= h * FrameSize
          BY <5>1
        <5>3. j > h => j * FrameSize > h * FrameSize
          BY <5>1
        <5>4. j * FrameSize \in Nat /\ h * FrameSize \in Nat
          BY <5>1
        <5> QED
          BY <5>1, <5>2, <5>3, <5>4
      <4> QED
        BY <4>1, <2>2, <3>1
    <3>5. found = {[from |-> FirstUnit(j), mark |-> FirstUnit(j) + lead + 1,
                    to |-> LastUnit(j)] : j \in {h \in 1..MaxFrames : LastUnit(h) <= fed}}
      BY <2>2 DEF PacketsAreExact
    <3>6. (k + 1)..i \subseteq 1..MaxFrames
      OBVIOUS
    <3> HIDE <2>2
    <3> QED
      BY <3>3, <3>4, <3>5, <3>6 DEF Mark
  <2> QED
    BY <2>4, <2>5, <2>6
<1>2. CASE ReadReturns
  <2>1. PICK last \in Units : last > fed /\ Update(last)
    BY <1>2 DEF ReadReturns
  <2>2. TypeOK' /\ NoForeignData' /\ AtCut' /\ OnePerMark' /\ UncutGiven'
    BY <2>1, UpdateKeeps
  <2>3. source' # "packets"
    BY <1>2, <2>1 DEF ReadReturns, Update
  <2> QED
    BY <2>2, <2>3 DEF PacketsAreExact, BetweenFrames
<1>3. CASE UNCHANGED vars
  <2>1. lead' = lead /\ source' = source /\ fed' = fed /\ cuts' = cuts /\ found' = found
    BY <1>3 DEF vars
  <2>2. TypeOK'
    BY <2>1, SameStream DEF TypeOK
  <2>3. NoForeignData'
    BY <2>1, SameStream DEF NoForeignData, Holds
  <2>4. PacketsAreExact'
    BY <2>1, SameStream DEF PacketsAreExact
  <2>5. BetweenFrames'
    BY <2>1, SameStream DEF BetweenFrames
  <2>6. AtCut'
    BY <2>1 DEF AtCut
  <2>7. OnePerMark'
    BY <2>1, SameStream DEF OnePerMark
  <2>8. UncutGiven'
    BY <2>1, SameStream DEF UncutGiven, Uncut, Given
  <2> QED
    BY <2>2, <2>3, <2>4, <2>5, <2>6, <2>7, <2>8
<1> QED
  BY <1>1, <1>2, <1>3 DEF Next

-----------------------------------------------------------------------------
(* The theorems.                                                           *)

\* The inductive invariant holds throughout.
THEOREM Invariance == Spec => []IInv
<1> QED
  BY Initialized, Preserved, PTL DEF Spec

\* Every frame found is made of units of the stream (iter_frames).
THEOREM TypeCorrect == Spec => []TypeOK
<1>1. IInv => TypeOK
  BY DEF IInv
<1> QED
  BY <1>1, Invariance, PTL

\* However the stream is cut, iter_frames() gives no frame data of another one.
THEOREM OwnDataOnly == Spec => []NoForeignData
<1>1. IInv => NoForeignData
  BY DEF IInv
<1> QED
  BY <1>1, Invariance, PTL

\* Packets of any number of whole frames are cut into exactly the camera's frames.
THEOREM PacketsCutExactly == Spec => []PacketsAreExact
<1>1. IInv => PacketsAreExact
  BY DEF IInv
<1> QED
  BY <1>1, Invariance, PTL

\* A frame that lies in one piece is found once and with its data.
LEMMA Local == IInv => CutsAreLocal
<1> SUFFICES ASSUME IInv, NEW i \in 1..MaxFrames
             PROVE  LET of == {f \in found : FrameOf(f.mark) = i} IN
                    /\ Cardinality(of) <= 1
                    /\ Uncut(i) =>
                          \E f \in of : \A u \in FirstUnit(i)..LastUnit(i) :
                              IsData(u) /\ (lead = 0 => u # LastUnit(i)) => Holds(f, u)
  BY DEF CutsAreLocal
<1> DEFINE of == {f \in found : FrameOf(f.mark) = i}
<1>1. /\ lead \in Leads /\ i \in Nat /\ i >= 1
      /\ FirstUnit(i) \in Nat /\ FirstUnit(i) >= 1 /\ LastUnit(i) \in Nat
  BY Frames DEF IInv, TypeOK
<1>2. \A f \in of : f.mark = Mark(i)
  <2> SUFFICES ASSUME NEW f \in of PROVE f.mark = Mark(i)
    OBVIOUS
  <2>1. f \in found /\ FrameOf(f.mark) = i
    OBVIOUS
  <2>2. f \in FrameRecord /\ Length \in Nat
    BY <1>1, <2>1, Sizes DEF IInv, TypeOK
  <2>3. f.mark \in Nat /\ f.mark >= 1
    BY <2>2 DEF FrameRecord, Units
  <2>4. IsMark(f.mark)
    BY <2>1 DEF IInv, OnePerMark
  <2> QED
    BY <1>1, <2>1, <2>3, <2>4, Marks
<1>3. \A f, g \in of : f = g
  BY <1>2 DEF IInv, OnePerMark
<1>4. Cardinality(of) <= 1
  <2>1. CASE of = {}
    BY <2>1, FS_EmptySet
  <2>2. CASE of # {}
    <3>1. PICK f : of = {f}
      BY <1>3, <2>2
    <3> QED
      BY <3>1, FS_Singleton
  <2> QED
    BY <2>1, <2>2
<1>5. ASSUME Uncut(i)
      PROVE  \E f \in of : \A u \in FirstUnit(i)..LastUnit(i) :
                 IsData(u) /\ (lead = 0 => u # LastUnit(i)) => Holds(f, u)
  <2>1. PICK f \in found : /\ f.mark = Mark(i)
                           /\ f.to >= LastUnit(i) \/ (lead = 0 /\ f.to >= LastUnit(i) - 1)
    BY <1>5 DEF IInv, UncutGiven, Given
  <2>2. f \in of /\ f.to \in Nat
    BY <1>1, <2>1, MarkOf DEF IInv, TypeOK, FrameRecord, Units
  <2>3. ASSUME NEW u \in FirstUnit(i)..LastUnit(i), IsData(u), lead = 0 => u # LastUnit(i)
        PROVE  Holds(f, u)
    <3>1. u \in Nat /\ u >= 1 /\ u <= LastUnit(i) /\ FrameOf(u) = i
      BY <1>1, InFrame
    <3>2. u > Mark(i)
      BY <1>1, <2>3, <3>1, Marks
    <3>3. u <= f.to
      BY <1>1, <2>1, <2>2, <2>3, <3>1
    <3> QED
      BY <2>1, <3>2, <3>3, <1>1, Frames DEF Holds
  <2> QED
    BY <2>2, <2>3
<1> QED
  BY <1>4, <1>5

\* A cut costs at most the frame it goes through: every frame that lies in one piece is
\* found once, with its data (the loop of iter_frames and its two sentinel offsets).
THEOREM OnlyCutFramesLost == Spec => []CutsAreLocal
<1> QED
  BY Invariance, Local, PTL
=============================================================================
