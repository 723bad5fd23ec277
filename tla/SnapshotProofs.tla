---------------------------- MODULE SnapshotProofs ----------------------------
(* Theorems about modules Transcript and Snapshot: what is derived from a     *)
(* transcript in several reads while a session appends to it, and what a      *)
(* snapshot makes of it later, for transcripts of any length, any tools and   *)
(* any window, threshold and time to live that the assumptions allow.         *)
EXTENDS Snapshot, SequenceTheorems, WellFoundedInduction, TLAPS

\* What a session leaves in its transcript: a result comes after its call, and
\* a turn ends when every call before it has its result.
LinesOK ==
  /\ \A i, j \in DOMAIN lines :
       lines[i].kind = "use" /\ lines[j].kind = "result" /\ lines[i].tool = lines[j].tool =>
         i < j
  /\ Answered(lines) \subseteq Used(lines)
  /\ \A i, m \in DOMAIN lines :
       lines[i].kind = "use" /\ lines[m].kind = "end" /\ i < m =>
         lines[i].tool \in Answered(lines)
  /\ partial # NoLine => Possible(partial)

\* The tail ends in a finished turn and no tool is open.
Settled ==
  /\ LastAssistantTurn(TailLines(lines)) = "end"
  /\ PendingToolUses(lines) = {}

\* Whatever was read, derived, cached or handed to a snapshot is still so if
\* the last write is older than that: the three clocks are compared with the
\* age of the file.  (A read that failed found no turn and no question.)
ReaderOK ==
  reader.step \in 2..3 /\ reader.last = "end" /\ age > reader.spent =>
    LastAssistantTurn(TailLines(lines)) = "end"
VerdictOK ==
  verdict = "awaiting_user_input" /\ cacheAge < CacheTTL /\ age > cacheAge => Settled
SnapOK ==
  snap.status = "awaiting_user_input" /\ age >= CacheTTL + snap.spent =>
    Settled /\ (snap.asks => LastAsks(TailLines(lines)))

SnapInv == SnapshotTypeOK /\ LinesOK /\ ReaderOK /\ VerdictOK /\ SnapOK
-----------------------------------------------------------------------------
(* The operators on the lines of a transcript.                               *)

\* A set of places in a sequence that is not empty has a last one.
LEMMA MaxIsLast ==
  ASSUME NEW n \in Nat, NEW S \in SUBSET (1..n), S # {}
  PROVE  Max(S) \in S /\ \A i \in S : i <= Max(S)
<1> DEFINE D == {d \in Nat : n - d \in S}
<1>1. \A i \in S : i \in Int /\ n - i \in Nat /\ n - (n - i) = i
  OBVIOUS
<1>2. D \subseteq Nat /\ D # {}
  BY <1>1
<1>3. \A d \in D : d \in Nat /\ n - d \in S
  OBVIOUS
<1>4. \A i \in S : n - i \in D
  BY <1>1
<1> HIDE DEF D
<1>5. PICK d \in D : \A e \in D : ~ (<<e, d>> \in OpToRel(<, Nat))
  BY <1>2, NatLessThanWellFounded, WFMin
<1>6. \A e \in D : ~(e < d)
  BY <1>2, <1>5 DEF OpToRel
<1>7. \A i \in S : ~(n - i < d) /\ i <= n - d
  BY <1>1, <1>3, <1>4, <1>6
<1>8. \E x \in S : \A y \in S : x >= y
  <2>1. n - d \in S /\ \A y \in S : n - d >= y
    BY <1>1, <1>3, <1>7
  <2>2. QED
    BY <2>1
<1>9. Max(S) \in S /\ \A y \in S : Max(S) >= y
  BY <1>8 DEF Max
<1>10. QED
  BY <1>1, <1>9

\* The ids of the tools that are called, and of those that have a result.
LEMMA ToolsOf ==
  ASSUME NEW s
  PROVE  /\ \A x : x \in Used(s) <=>
                     \E i \in DOMAIN s : s[i].kind = "use" /\ s[i].tool = x
         /\ \A x : x \in Answered(s) <=>
                     \E i \in DOMAIN s : s[i].kind = "result" /\ s[i].tool = x
BY DEF Used, Answered, ToSet

\* The tail is the end of the file.
LEMMA TailIsSuffix ==
  ASSUME NEW s \in Seq(Line)
  PROVE  \E d \in 0..Len(s) :
           /\ TailLines(s) \in Seq(Line) /\ Len(TailLines(s)) = Len(s) - d
           /\ DOMAIN TailLines(s) = 1..(Len(s) - d)
           /\ \A i \in 1..(Len(s) - d) : d + i \in DOMAIN s /\ TailLines(s)[i] = s[d + i]
           /\ Len(s) - d <= Window
<1>1. Len(s) \in Nat /\ Window \in Nat /\ Window > 0 /\ DOMAIN s = 1..Len(s)
  BY WindowAssumption
<1> DEFINE first == IF Len(s) < Window THEN 1 ELSE Len(s) - Window + 1
           d == first - 1
<1>2. first \in 1..(Len(s) + 1) /\ d \in 0..Len(s) /\ first = d + 1 /\ Len(s) - d <= Window
  BY <1>1
<1>3. TailLines(s) = SubSeq(s, first, Len(s))
  BY DEF TailLines
<1> HIDE DEF first, d
<1>4. /\ SubSeq(s, first, Len(s)) \in Seq(Line)
      /\ Len(SubSeq(s, first, Len(s))) = Len(s) - d
      /\ DOMAIN SubSeq(s, first, Len(s)) = 1..(Len(s) - d)
      /\ \A i \in 1..(Len(s) - d) : SubSeq(s, first, Len(s))[i] = s[d + i]
  <2> DEFINE t == SubSeq(s, first, Len(s))
  <2>1. first \in Int /\ Len(s) \in Int /\ \A i \in first..Len(s) : s[i] \in Line
    BY <1>1, <1>2
  <2>2. /\ t \in Seq(Line) /\ Len(t) = IF first <= Len(s) THEN Len(s) - first + 1 ELSE 0
        /\ \A i \in 1..(Len(s) - first + 1) : t[i] = s[first + i - 1]
    BY <2>1, SubSeqProperties
  <2> HIDE DEF t
  <2>3. Len(t) = Len(s) - d /\ Len(s) - first + 1 = Len(s) - d
    <3>1. /\ first <= Len(s) => Len(s) - first + 1 = Len(s) - d
          /\ ~(first <= Len(s)) => Len(s) - d = 0
          /\ Len(s) - first + 1 = Len(s) - d
      <4>1. \A n \in Nat, e, f \in Int : e \in 0..n /\ f = e + 1 =>
              /\ f <= n => n - f + 1 = n - e
              /\ ~(f <= n) => n - e = 0
              /\ n - f + 1 = n - e
        OBVIOUS
      <4>2. first \in Int /\ d \in Int
        BY <1>2
      <4>3. QED
        BY <1>1, <1>2, <4>1, <4>2
    <3>2. QED
      BY <2>2, <3>1
  <2>4. \A i \in 1..(Len(s) - d) : first + i - 1 = d + i
    BY <1>1, <1>2
  <2>5. DOMAIN t = 1..Len(t)
    BY <2>2
  <2>6. QED
    BY <2>2, <2>3, <2>4, <2>5 DEF t
<1>5. \A i \in 1..(Len(s) - d) : d + i \in DOMAIN s
  BY <1>1, <1>2
<1>6. QED
  BY <1>2, <1>3, <1>4, <1>5

\* A last turn in the tail is the last one of the file.
LEMMA LastOfTail ==
  ASSUME NEW s \in Seq(Line), Turns(TailLines(s)) # {}
  PROVE  /\ Turns(s) # {}
         /\ TailLines(s)[Max(Turns(TailLines(s)))] = s[Max(Turns(s))]
<1> DEFINE t == TailLines(s)
           m == Max(Turns(t))
           n == Max(Turns(s))
<1>1. PICK d \in 0..Len(s) :
        /\ t \in Seq(Line) /\ Len(t) = Len(s) - d
        /\ DOMAIN t = 1..(Len(s) - d)
        /\ \A i \in 1..(Len(s) - d) : d + i \in DOMAIN s /\ t[i] = s[d + i]
  BY TailIsSuffix
<1>2. Len(s) \in Nat /\ DOMAIN s = 1..Len(s) /\ Len(s) - d \in Nat
  BY <1>1
<1> HIDE DEF t
<1>3. Turns(t) \in SUBSET (1..(Len(s) - d)) /\ Turns(s) \in SUBSET (1..Len(s))
  BY <1>1, <1>2 DEF Turns
<1>4. m \in Turns(t) /\ \A i \in Turns(t) : i <= m
  BY <1>2, <1>3, MaxIsLast DEF t
<1>5. d + m \in Turns(s)
  BY <1>1, <1>3, <1>4 DEF Turns
<1>6. n \in Turns(s) /\ \A i \in Turns(s) : i <= n
  BY <1>2, <1>3, <1>5, MaxIsLast
<1> HIDE DEF m, n
<1>7. d + m <= n /\ n <= Len(s) /\ m >= 1 /\ m \in Nat /\ n \in Nat
  BY <1>2, <1>3, <1>4, <1>5, <1>6
<1>8. n - d \in 1..(Len(s) - d) /\ d + (n - d) = n
  BY <1>2, <1>7
<1>9. n - d \in Turns(t)
  BY <1>1, <1>6, <1>8 DEF Turns
<1>10. n - d <= m
  BY <1>4, <1>9
<1>11. n = d + m
  BY <1>7, <1>8, <1>10
<1>12. t[m] = s[n]
  BY <1>1, <1>3, <1>4, <1>11
<1>13. QED
  BY <1>6, <1>12 DEF t, m, n

\* So a finished turn at the end of the tail is one at the end of the file.
LEMMA EndOfTail ==
  ASSUME NEW s \in Seq(Line), LastAssistantTurn(TailLines(s)) = "end"
  PROVE  LastAssistantTurn(s) = "end"
<1>1. Turns(TailLines(s)) # {}
  BY DEF LastAssistantTurn
<1>2. QED
  BY <1>1, LastOfTail DEF LastAssistantTurn

\* When the last turn is finished no tool is open.
LEMMA EndSettles ==
  ASSUME LinesOK, lines \in Seq(Line), LastAssistantTurn(lines) = "end"
  PROVE  PendingToolUses(lines) = {}
<1> DEFINE m == Max(Turns(lines))
<1>1. Len(lines) \in Nat /\ Turns(lines) \in SUBSET (1..Len(lines)) /\ Turns(lines) # {}
  BY DEF Turns, LastAssistantTurn
<1>2. m \in Turns(lines) /\ \A i \in Turns(lines) : i <= m
  BY <1>1, MaxIsLast
<1>3. lines[m].kind = "end"
  BY <1>1 DEF LastAssistantTurn, StopReason
<1> HIDE DEF m
<1>4. ASSUME NEW i \in DOMAIN lines, lines[i].kind = "use"
      PROVE  lines[i].tool \in Answered(lines)
  <2>1. i \in Turns(lines) /\ i # m
    BY <1>3, <1>4 DEF Turns
  <2>2. i < m
    BY <1>1, <1>2, <2>1
  <2>3. m \in DOMAIN lines
    BY <1>2 DEF Turns
  <2>4. QED
    BY <1>3, <1>4, <2>2, <2>3 DEF LinesOK
<1>5. Used(lines) \subseteq Answered(lines)
  BY <1>4, ToolsOf
<1>6. QED
  BY <1>5 DEF PendingToolUses

\* A call that is open in the tail is open in the file.
LEMMA PendingOfTail ==
  ASSUME LinesOK, lines \in Seq(Line)
  PROVE  PendingToolUses(TailLines(lines)) \subseteq PendingToolUses(lines)
<1> DEFINE t == TailLines(lines)
<1>1. PICK d \in 0..Len(lines) :
        /\ DOMAIN t = 1..(Len(lines) - d)
        /\ \A i \in 1..(Len(lines) - d) : d + i \in DOMAIN lines /\ t[i] = lines[d + i]
  BY TailIsSuffix
<1>2. Len(lines) \in Nat /\ DOMAIN lines = 1..Len(lines)
  OBVIOUS
<1> HIDE DEF t
<1>3. SUFFICES ASSUME NEW x \in Used(t), x \notin Answered(t)
               PROVE  x \in Used(lines) /\ x \notin Answered(lines)
  BY DEF PendingToolUses, t
<1>4. PICK i \in DOMAIN t : t[i].kind = "use" /\ t[i].tool = x
  BY ToolsOf
<1>5. d + i \in DOMAIN lines /\ lines[d + i].kind = "use" /\ lines[d + i].tool = x
  BY <1>1, <1>4
<1>6. x \in Used(lines)
  BY <1>5, ToolsOf
<1>7. ASSUME NEW j \in DOMAIN lines, lines[j].kind = "result", lines[j].tool = x
      PROVE  FALSE
  <2>1. d + i < j
    BY <1>5, <1>7 DEF LinesOK
  <2>2. j - d \in 1..(Len(lines) - d) /\ d + (j - d) = j
    BY <1>1, <1>2, <2>1
  <2>3. t[j - d] = lines[j] /\ j - d \in DOMAIN t
    BY <1>1, <2>2
  <2>4. x \in Answered(t)
    BY <1>7, <2>3, ToolsOf
  <2>5. QED
    BY <1>3, <2>4
<1>8. x \notin Answered(lines)
  BY <1>7, ToolsOf
<1>9. QED
  BY <1>6, <1>8

-----------------------------------------------------------------------------
(* The session writes.                                                       *)

\* One more line that the session may write keeps the file in order.
LEMMA LinesAppend ==
  ASSUME LinesOK, lines \in Seq(Line), NEW l \in Line, Possible(l),
         lines' = Append(lines, l), partial' = NoLine
  PROVE  LinesOK' /\ lines' \in Seq(Line)
<1> DEFINE n == Len(lines) + 1
<1>1. /\ n \in Nat /\ DOMAIN lines = 1..Len(lines) /\ DOMAIN lines' = 1..n
      /\ DOMAIN lines' = DOMAIN lines \union {n} /\ lines'[n] = l
      /\ lines' \in Seq(Line) /\ n \notin DOMAIN lines
      /\ \A i \in DOMAIN lines : i < n /\ lines'[i] = lines[i]
  OBVIOUS
<1> HIDE DEF n
<1>2. /\ Used(lines) \subseteq Used(lines') /\ Answered(lines) \subseteq Answered(lines')
      /\ l.kind = "result" => l.tool \in Answered(lines')
      /\ \A x \in Answered(lines') : x \in Answered(lines) \/ (l.kind = "result" /\ l.tool = x)
  <2>1. /\ \A x : x \in Used(lines) <=>
                    \E i \in DOMAIN lines : lines[i].kind = "use" /\ lines[i].tool = x
        /\ \A x : x \in Used(lines') <=>
                    \E i \in DOMAIN lines' : lines'[i].kind = "use" /\ lines'[i].tool = x
    BY DEF Used, Answered, ToSet
  <2>2. /\ \A x : x \in Answered(lines) <=>
                    \E i \in DOMAIN lines : lines[i].kind = "result" /\ lines[i].tool = x
        /\ \A x : x \in Answered(lines') <=>
                    \E i \in DOMAIN lines' : lines'[i].kind = "result" /\ lines'[i].tool = x
    BY DEF Used, Answered, ToSet
  <2>3. Used(lines) \subseteq Used(lines')
    BY <1>1, <2>1
  <2>4. Answered(lines) \subseteq Answered(lines')
    BY <1>1, <2>2
  <2>5. l.kind = "result" => l.tool \in Answered(lines')
    BY <1>1, <2>2
  <2>6. ASSUME NEW x \in Answered(lines')
        PROVE  x \in Answered(lines) \/ (l.kind = "result" /\ l.tool = x)
    BY <1>1, <2>2, <2>6
  <2>7. QED
    BY <2>3, <2>4, <2>5, <2>6
<1>3. \A i \in DOMAIN lines : /\ lines[i].kind = "use" => lines[i].tool \in Used(lines)
                              /\ lines[i].kind = "result" => lines[i].tool \in Answered(lines)
  BY ToolsOf
<1>4. ASSUME NEW i \in DOMAIN lines', NEW j \in DOMAIN lines', lines'[i].kind = "use",
             lines'[j].kind = "result", lines'[i].tool = lines'[j].tool
      PROVE  i < j
  <2>1. CASE i \in DOMAIN lines /\ j \in DOMAIN lines
    BY <1>1, <1>4, <2>1 DEF LinesOK
  <2>2. CASE i = n /\ j \in DOMAIN lines
    <3>1. l.kind = "use" /\ l.tool \in Answered(lines)
      BY <1>1, <1>3, <1>4, <2>2
    <3>2. l.tool \notin Used(lines)
      BY <3>1 DEF Possible
    <3>3. QED
      BY <3>1, <3>2 DEF LinesOK
  <2>3. CASE i \in DOMAIN lines /\ j = n
    BY <1>1, <2>3
  <2>4. CASE i = n /\ j = n
    BY <1>1, <1>4, <2>4
  <2>5. QED
    BY <1>1, <2>1, <2>2, <2>3, <2>4
<1>5. Answered(lines') \subseteq Used(lines')
  <2>1. l.kind = "result" => l.tool \in Used(lines)
    BY DEF Possible
  <2>2. QED
    BY <1>2, <2>1 DEF LinesOK
<1>6. ASSUME NEW i \in DOMAIN lines', NEW m \in DOMAIN lines', lines'[i].kind = "use",
             lines'[m].kind = "end", i < m
      PROVE  lines'[i].tool \in Answered(lines')
  <2>1. i \in DOMAIN lines
    BY <1>1, <1>6
  <2>2. CASE m \in DOMAIN lines
    BY <1>1, <1>2, <1>6, <2>1, <2>2 DEF LinesOK
  <2>3. CASE m = n
    <3>1. l.kind = "end" /\ lines[i].tool \in Used(lines)
      BY <1>1, <1>3, <1>6, <2>1, <2>3
    <3>2. Used(lines) \subseteq Answered(lines)
      BY <3>1 DEF Possible
    <3>3. QED
      BY <1>1, <1>2, <2>1, <3>1, <3>2
  <2>4. QED
    BY <1>1, <2>2, <2>3
<1>7. QED
  BY <1>1, <1>4, <1>5, <1>6 DEF LinesOK

\* A write, at one go or the first or second half of one.
LEMMA LinesWrite ==
  ASSUME TypeOK, LinesOK, Write
  PROVE  /\ LinesOK' /\ lines' \in Seq(Line) /\ partial' \in Line \union {NoLine}
         /\ age' = 0 /\ UNCHANGED <<reader, verdict, failures>>
<1>1. lines \in Seq(Line) /\ partial \in Line \union {NoLine}
  BY DEF TypeOK
<1>2. age' = 0 /\ UNCHANGED <<reader, verdict, failures>>
  BY DEF Write
<1>3. ASSUME NEW l \in Line, Possible(l), lines' = Append(lines, l), partial' = NoLine
      PROVE  LinesOK' /\ lines' \in Seq(Line) /\ partial' \in Line \union {NoLine}
  BY <1>1, <1>3, LinesAppend
<1>4. ASSUME NEW l \in Line, Possible(l), partial' = l, lines' = lines
      PROVE  LinesOK' /\ lines' \in Seq(Line) /\ partial' \in Line \union {NoLine}
  BY <1>1, <1>4 DEF LinesOK, Possible
<1>5. partial # NoLine => partial \in Line /\ Possible(partial)
  BY <1>1 DEF LinesOK
<1>6. QED
  BY <1>2, <1>3, <1>4, <1>5 DEF Write

\* What was read before a write is as old as the file at least.
LEMMA WriteStep ==
  ASSUME SnapInv, SnapshotWrite
  PROVE  SnapInv'
<1>1. /\ LinesOK' /\ lines' \in Seq(Line) /\ partial' \in Line \union {NoLine}
      /\ age' = 0 /\ UNCHANGED <<reader, verdict, failures, cacheAge, snap, suggested>>
  BY LinesWrite DEF SnapInv, SnapshotTypeOK, SnapshotWrite
<1>2. 0 \in 0..Threshold
  BY TimeAssumption
<1>3. SnapshotTypeOK'
  BY <1>1, <1>2 DEF SnapInv, SnapshotTypeOK, TypeOK, Composing
<1>4. reader.spent \in Nat /\ cacheAge \in Nat /\ snap.spent \in Nat /\ CacheTTL \in Nat \ {0}
  BY ComposeAssumption, TimeAssumption DEF SnapInv, SnapshotTypeOK, TypeOK, Reader, Snap
<1>5. ~(0 > reader.spent) /\ ~(0 > cacheAge) /\ ~(0 >= CacheTTL + snap.spent)
  BY <1>4
<1>6. ReaderOK' /\ VerdictOK' /\ SnapOK'
  BY <1>1, <1>5 DEF ReaderOK, VerdictOK, SnapOK
<1>7. QED
  BY <1>1, <1>3, <1>6 DEF SnapInv

-----------------------------------------------------------------------------
(* Time passes.                                                              *)

\* The clocks go on together, so that what is older than the last write was so
\* before.
LEMMA TickStep ==
  ASSUME SnapInv, SnapshotTick
  PROVE  SnapInv'
<1>1. UNCHANGED <<lines, partial, verdict, failures, suggested>>
  BY DEF SnapshotTick, Tick, vars
<1>2. /\ age \in 0..Threshold /\ Threshold \in Nat /\ MaxDerive \in Nat
      /\ cacheAge \in 0..CacheTTL /\ CacheTTL \in Nat /\ MaxCompose \in Nat
      /\ reader \in Reader /\ snap \in Snap /\ (reader.step = 0 => reader = Rest)
  BY TimeAssumption, ComposeAssumption DEF SnapInv, SnapshotTypeOK, TypeOK
<1>3. reader.step \in 0..3 /\ reader.spent \in 0..MaxDerive /\ snap.spent \in 0..MaxCompose
  BY <1>2 DEF Reader, Snap
<1>4. age' \in 0..Threshold /\ age' <= age + 1
  <2>1. age' = (IF age < Threshold THEN age + 1 ELSE age) \/ age' = age
    BY DEF SnapshotTick, Tick, vars
  <2>2. QED
    BY <1>2, <2>1
<1>5. \/ reader.step = 0 /\ reader' = reader
      \/ reader.spent < MaxDerive /\ reader' = [reader EXCEPT !.spent = @ + 1]
  BY DEF SnapshotTick, Tick, vars
<1>6. /\ reader' \in Reader /\ reader'.step = reader.step /\ reader'.last = reader.last
      /\ reader.step # 0 => reader'.spent = reader.spent + 1
      /\ reader'.step = 0 => reader' = Rest
  <2>1. CASE reader.step = 0 /\ reader' = reader
    BY <1>2, <2>1
  <2>2. CASE reader.step # 0 /\ reader.spent < MaxDerive
             /\ reader' = [reader EXCEPT !.spent = @ + 1]
    <3>1. reader.spent + 1 \in 0..MaxDerive
      BY <1>2, <1>3, <2>2
    <3>2. QED
      BY <1>2, <2>2, <3>1 DEF Reader
  <2>3. reader.step = 0 => reader' = reader
    BY <1>5 DEF SnapshotTick, Tick, vars
  <2>4. QED
    BY <1>5, <2>1, <2>2, <2>3
<1>7. /\ cacheAge' \in 0..CacheTTL
      /\ cacheAge' < CacheTTL => cacheAge < CacheTTL /\ cacheAge' = cacheAge + 1
  <2>1. cacheAge' = IF cacheAge < CacheTTL THEN cacheAge + 1 ELSE cacheAge
    BY DEF SnapshotTick
  <2>2. QED
    BY <1>2, <2>1
<1>8. /\ snap' \in Snap /\ snap'.step = snap.step /\ snap'.status = snap.status
      /\ snap'.asks = snap.asks
      /\ snap.status # "none" => snap'.spent = snap.spent + 1
  <2>1. CASE Composing
    <3>1. snap' = [snap EXCEPT !.spent = @ + 1] /\ snap.spent < MaxCompose
      BY <2>1 DEF SnapshotTick
    <3>2. snap.spent + 1 \in 0..MaxCompose
      BY <1>2, <1>3, <3>1
    <3>3. QED
      BY <1>2, <3>1, <3>2 DEF Snap
  <2>2. CASE ~Composing
    <3>1. snap' = snap /\ snap.status = "none"
      BY <2>2 DEF SnapshotTick, SnapInv, SnapshotTypeOK
    <3>2. QED
      BY <1>2, <3>1
  <2>3. QED
    BY <2>1, <2>2
<1>9. SnapshotTypeOK'
  BY <1>1, <1>4, <1>6, <1>7, <1>8 DEF SnapInv, SnapshotTypeOK, TypeOK, Composing
<1>10. LinesOK' /\ (Settled => Settled')
  BY <1>1 DEF SnapInv, LinesOK, Settled, Possible
<1>11. ReaderOK'
  <2>1. reader.step # 0 /\ age' > reader.spent + 1 => age > reader.spent
    BY <1>2, <1>3, <1>4
  <2>2. reader'.step \in 2..3 => reader.step \in 2..3 /\ reader.step # 0
    BY <1>6
  <2>3. QED
    BY <1>1, <1>6, <2>1, <2>2 DEF SnapInv, ReaderOK
<1>12. VerdictOK'
  <2>1. age' > cacheAge + 1 => age > cacheAge
    BY <1>2, <1>4
  <2>2. QED
    BY <1>1, <1>7, <1>10, <2>1 DEF SnapInv, VerdictOK
<1>13. SnapOK'
  <2>1. age' >= CacheTTL + (snap.spent + 1) => age >= CacheTTL + snap.spent
    BY <1>2, <1>3, <1>4
  <2>2. LastAsks(TailLines(lines))' = LastAsks(TailLines(lines))
    BY <1>1
  <2>3. QED
    BY <1>8, <1>10, <2>1, <2>2 DEF SnapInv, SnapOK
<1>14. QED
  BY <1>9, <1>10, <1>11, <1>12, <1>13 DEF SnapInv

-----------------------------------------------------------------------------
(* The derivation and the snapshot.                                          *)

\* What the reads return has the type of what is kept of it.
LEMMA ReadTypes ==
  ASSUME NEW s \in Seq(Line)
  PROVE  LastAssistantTurn(s) \in {"none", "end", "other"} /\ PendingToolUses(s) \subseteq Tools
<1>1. LastAssistantTurn(s) \in {"none", "end", "other"}
  BY DEF LastAssistantTurn, StopReason
<1>2. \A l \in Line : l.kind = "use" => l.tool \in Tools
  BY DEF Line
<1>3. \A i \in DOMAIN s : s[i] \in Line
  OBVIOUS
<1>4. \A x \in Used(s) : x \in Tools
  BY <1>2, <1>3, ToolsOf
<1>5. QED
  BY <1>1, <1>4 DEF PendingToolUses

\* A file that cannot be read has no turn, no open tool and no question.
LEMMA NothingRead ==
  LastAssistantTurn(<<>>) = "none" /\ PendingToolUses(<<>>) = {} /\ ~LastAsks(<<>>)
<1>1. DOMAIN <<>> = {} /\ Turns(<<>>) = {}
  BY DEF Turns
<1>2. Used(<<>>) = {}
  BY <1>1, ToolsOf
<1>3. QED
  BY <1>1, <1>2 DEF LastAssistantTurn, PendingToolUses, LastAsks

\* A read that fails is counted.
LEMMA FailureCounted ==
  ASSUME failures \in 0..MaxFailures, NEW t, ReadTail(t)
  PROVE  failures' \in 0..MaxFailures
BY BoundAssumption DEF ReadTail

\* A derivation begins with nothing read.
LEMMA DeriveShape ==
  ASSUME SnapInv, Derive
  PROVE  /\ reader' \in Reader /\ reader'.step = 1 /\ reader'.pending = {}
         /\ UNCHANGED <<lines, partial, age, verdict, failures>>
<1>1. Rest \in Reader
  BY TimeAssumption DEF Rest, Reader
<1>2. reader' = [Rest EXCEPT !.step = 1]
  BY DEF Derive
<1>3. Rest.pending = {}
  BY DEF Rest
<1>4. reader' \in Reader /\ reader'.step = 1 /\ reader'.pending = Rest.pending
  <2> HIDE DEF Rest
  <2>1. QED
    BY <1>1, <1>2 DEF Reader
<1>5. QED
  BY <1>3, <1>4 DEF Derive

\* A read of a derivation: the last turn, the open tools, or the verdict.
LEMMA ReadShape ==
  ASSUME SnapInv, ReadLast \/ ReadPending \/ ReturnPending \/ ReadStat
  PROVE  /\ UNCHANGED <<lines, partial, age>> /\ failures' \in 0..MaxFailures
         /\ reader' \in Reader
         /\ \/ /\ reader.step = 1 /\ reader'.step = 2 /\ verdict' = verdict
               /\ reader'.last \in {"none", LastAssistantTurn(TailLines(lines))}
               /\ reader'.pending = reader.pending /\ reader'.spent = reader.spent
            \/ /\ reader.step = 2 /\ reader'.step = 3 /\ verdict' = verdict
               /\ reader'.pending \in {{}, PendingToolUses(TailLines(lines))}
               /\ reader'.last = reader.last /\ reader'.spent = reader.spent
            \/ /\ reader.step = 3 /\ reader' = Rest /\ verdict' \in Status
               /\ verdict' = "awaiting_user_input" =>
                    reader.last = "end" /\ age = Threshold
<1>1. UNCHANGED <<lines, partial, age>> /\ failures' \in 0..MaxFailures
  BY FailureCounted
     DEF ReadLast, ReadPending, ReturnPending, ReadStat, SnapInv, SnapshotTypeOK, TypeOK
<1>2. /\ Len(Order) = 3 /\ Order[1] = "last" /\ Order[2] = "pending" /\ Order[3] = "stat"
      /\ reader \in Reader /\ reader.step \in 0..3
      /\ reader.step \in {0, 1, 2, 3}
      /\ age \in 0..Threshold /\ Threshold \in Nat
  BY TimeAssumption DEF Order, SnapInv, SnapshotTypeOK, TypeOK, Reader
<1>3. /\ At("last") => reader.step = 1
      /\ At("pending") => reader.step = 2
      /\ At("stat") => reader.step = 3
  BY <1>2 DEF At
<1> DEFINE turn(t) == LastAssistantTurn(t)
           open(t) == PendingToolUses(t)
<1>9. /\ \A t \in Tails : turn(t) \in {"none", "end", "other"} /\ open(t) \in SUBSET Tools
      /\ \A t \in Tails : turn(t) \in {"none", turn(TailLines(lines))}
      /\ \A t \in Tails : open(t) \in {{}, open(TailLines(lines))}
      /\ Rest \in Reader
  <2>1. TailLines(lines) \in Seq(Line) /\ <<>> \in Seq(Line)
    BY TailIsSuffix DEF SnapInv, SnapshotTypeOK, TypeOK
  <2>2. Rest \in Reader
    BY TimeAssumption DEF Rest, Reader
  <2>3. turn(<<>>) = "none" /\ open(<<>>) = {}
    BY NothingRead
  <2>4. QED
    BY <2>1, <2>2, <2>3, ReadTypes DEF Tails
<1>4. CASE ReadLast
  <2>1. PICK t \in Tails : reader.step = 1 /\ Advance([reader EXCEPT !.last = turn(t)])
    BY <1>3, <1>4 DEF ReadLast
  <2> HIDE DEF turn, open
  <2> DEFINE r == [reader EXCEPT !.last = turn(t)]
  <2>2. /\ r \in Reader /\ r.step = 1 /\ r.last = turn(t)
        /\ r.pending = reader.pending /\ r.spent = reader.spent
    BY <1>2, <1>9, <2>1 DEF Reader
  <2>3. Advance(r)
    BY <2>1
  <2> HIDE DEF r
  <2>4. reader' = [r EXCEPT !.step = 2] /\ verdict' = verdict
    BY <1>2, <2>2, <2>3 DEF Advance
  <2>5. /\ reader' \in Reader /\ reader'.step = 2 /\ reader'.last = turn(t)
        /\ reader'.pending = reader.pending /\ reader'.spent = reader.spent
    BY <2>2, <2>4 DEF Reader
  <2>6. QED
    BY <1>1, <1>9, <2>1, <2>4, <2>5 DEF turn
<1>5. CASE ReadPending
  <2>1. PICK t \in Tails : reader.step = 2 /\ Advance([reader EXCEPT !.pending = open(t)])
    BY <1>3, <1>5 DEF ReadPending
  <2> HIDE DEF turn, open
  <2> DEFINE r == [reader EXCEPT !.pending = open(t)]
  <2>2. /\ r \in Reader /\ r.step = 2 /\ r.pending = open(t)
        /\ r.last = reader.last /\ r.spent = reader.spent
    BY <1>2, <1>9, <2>1 DEF Reader
  <2>3. Advance(r)
    BY <2>1
  <2> HIDE DEF r
  <2>4. reader' = [r EXCEPT !.step = 3] /\ verdict' = verdict
    BY <1>2, <2>2, <2>3 DEF Advance
  <2>5. /\ reader' \in Reader /\ reader'.step = 3 /\ reader'.pending = open(t)
        /\ reader'.last = reader.last /\ reader'.spent = reader.spent
    BY <2>2, <2>4 DEF Reader
  <2>6. QED
    BY <1>1, <1>9, <2>1, <2>4, <2>5 DEF open
<1>6. CASE ReturnPending
  BY <1>1, <1>3, <1>6, <1>9 DEF ReturnPending, ClearedAfter, Status
<1>7. CASE ReadStat
  <2>1. reader.step = 3 /\ reader.pending = {}
    BY <1>3, <1>7 DEF ReadStat
  <2> DEFINE r == [reader EXCEPT !.fresh = age < Threshold]
  <2>2. r.step = 3 /\ r.last = reader.last /\ r.fresh = (age < Threshold) /\ Advance(r)
    BY <1>2, <1>7, <2>1 DEF ReadStat, Reader
  <2>3. reader' = Rest /\ verdict' = Verdict(r)
    <3> HIDE DEF r
    <3>1. QED
      BY <1>2, <2>2 DEF Advance, ClearedAfter
  <2>4. /\ Verdict(r) \in Status
        /\ Verdict(r) = "awaiting_user_input" => reader.last = "end" /\ ~(age < Threshold)
    <3> HIDE DEF r
    <3>1. QED
      BY <2>2 DEF Verdict, Status
  <2>5. ~(age < Threshold) => age = Threshold
    BY <1>2
  <2>6. QED
    BY <1>1, <1>9, <2>1, <2>3, <2>4, <2>5
<1>8. QED
  BY <1>4, <1>5, <1>6, <1>7

\* A last read that finds the file quiet finds it as the first one did.
LEMMA QuietSettles ==
  ASSUME SnapInv, reader.step = 3, reader.last = "end", age = Threshold
  PROVE  Settled /\ LastAssistantTurn(lines) = "end"
<1>1. age > reader.spent
  <2>1. reader.spent \in 0..MaxDerive
    BY DEF SnapInv, SnapshotTypeOK, TypeOK, Reader
  <2>2. QED
    BY <2>1, TimeAssumption
<1>2. LastAssistantTurn(TailLines(lines)) = "end"
  <2>1. reader.step \in 2..3
    OBVIOUS
  <2>2. QED
    BY <1>1, <2>1 DEF SnapInv, ReaderOK
<1>3. lines \in Seq(Line)
  BY DEF SnapInv, SnapshotTypeOK, TypeOK
<1>4. LastAssistantTurn(lines) = "end"
  BY <1>2, <1>3, EndOfTail
<1>5. QED
  BY <1>2, <1>3, <1>4, EndSettles DEF SnapInv, Settled

\* A read, the verdict of the last one going to the cache and to the snapshot.
LEMMA ReadStep ==
  ASSUME SnapInv, DeriveStep
  PROVE  SnapInv'
<1>1. /\ UNCHANGED <<lines, partial, age, suggested>> /\ reader' \in Reader
      /\ failures' \in 0..MaxFailures
      /\ ReadLast \/ ReadPending \/ ReturnPending \/ ReadStat
  BY ReadShape DEF DeriveStep
<1>2. /\ lines \in Seq(Line) /\ reader \in Reader /\ snap \in Snap
      /\ CacheTTL \in Nat \ {0} /\ 0 \in 0..CacheTTL
  BY ComposeAssumption DEF SnapInv, SnapshotTypeOK, TypeOK
<1>5. /\ LinesOK' /\ (Settled => Settled')
      /\ LastAsks(TailLines(lines))' = LastAsks(TailLines(lines))
  BY <1>1 DEF SnapInv, LinesOK, Settled, Possible
<1>6. CASE /\ reader.step = 1 /\ reader'.step = 2 /\ verdict' = verdict
           /\ reader'.last \in {"none", LastAssistantTurn(TailLines(lines))}
  <2>2. UNCHANGED <<cacheAge, snap>>
    BY <1>6 DEF DeriveStep
  <2>3. SnapshotTypeOK'
    BY <1>1, <1>6, <2>2 DEF SnapInv, SnapshotTypeOK, TypeOK, Composing
  <2>4. ReaderOK'
    BY <1>1, <1>6 DEF ReaderOK
  <2>5. VerdictOK' /\ SnapOK'
    BY <1>1, <1>5, <1>6, <2>2 DEF SnapInv, VerdictOK, SnapOK
  <2>6. QED
    BY <1>5, <2>3, <2>4, <2>5 DEF SnapInv
<1>7. CASE /\ reader.step = 2 /\ reader'.step = 3 /\ verdict' = verdict
           /\ reader'.last = reader.last /\ reader'.spent = reader.spent
  <2>2. UNCHANGED <<cacheAge, snap>>
    BY <1>7 DEF DeriveStep
  <2>3. SnapshotTypeOK'
    BY <1>1, <1>7, <2>2 DEF SnapInv, SnapshotTypeOK, TypeOK, Composing
  <2>4. ReaderOK'
    <3>1. reader.step \in 2..3
      BY <1>7
    <3>2. QED
      BY <1>1, <1>7, <3>1 DEF SnapInv, ReaderOK
  <2>5. VerdictOK' /\ SnapOK'
    BY <1>1, <1>5, <1>7, <2>2 DEF SnapInv, VerdictOK, SnapOK
  <2>6. QED
    BY <1>5, <2>3, <2>4, <2>5 DEF SnapInv
<1>8. CASE /\ reader.step = 3 /\ reader' = Rest /\ verdict' \in Status
           /\ verdict' = "awaiting_user_input" => reader.last = "end" /\ age = Threshold
  <2>1. Rest \in Reader /\ Rest.step = 0
    BY TimeAssumption DEF Rest, Reader
  <2>2. /\ cacheAge' = 0
        /\ snap' = IF snap.step = "deriving"
                   THEN [snap EXCEPT !.step = "text", !.status = verdict'] ELSE snap
    BY <1>8, <2>1 DEF DeriveStep
  <2>3. verdict' = "awaiting_user_input" => Settled'
    BY <1>5, <1>8, QuietSettles
  <2>4. /\ snap' \in Snap /\ snap'.step # "deriving"
        /\ snap'.step \in {"text", "compose"} <=> snap'.status # "none"
        /\ snap'.asks => snap'.step = "compose"
        /\ \/ snap' = snap
           \/ snap'.status = verdict' /\ ~snap'.asks
    <3>1. CASE snap.step = "deriving"
      <4>1. /\ snap' = [snap EXCEPT !.step = "text", !.status = verdict']
            /\ verdict' # "none" /\ ~snap.asks
        BY <1>8, <2>2, <3>1 DEF Status, SnapInv, SnapshotTypeOK
      <4>2. QED
        BY <1>2, <1>8, <4>1 DEF Snap
    <3>2. CASE snap.step # "deriving"
      BY <1>2, <2>2, <3>2 DEF SnapInv, SnapshotTypeOK, Composing
    <3>3. QED
      BY <3>1, <3>2
  <2>5. SnapshotTypeOK'
    BY <1>1, <1>2, <1>8, <2>1, <2>2, <2>4 DEF SnapInv, SnapshotTypeOK, TypeOK, Composing
  <2>6. ReaderOK'
    BY <1>8, <2>1 DEF ReaderOK
  <2>7. VerdictOK'
    BY <2>3 DEF VerdictOK
  <2>8. SnapOK'
    BY <1>1, <1>5, <2>3, <2>4 DEF SnapInv, SnapOK
  <2>9. QED
    BY <1>5, <2>5, <2>6, <2>7, <2>8 DEF SnapInv
<1>9. QED
  BY <1>1, <1>6, <1>7, <1>8, ReadShape

\* Somebody asks while nothing is cached; or a snapshot begins, with what is
\* cached or with a derivation of its own.
LEMMA AskStep ==
  ASSUME SnapInv, OthersAsk \/ BeginSnapshot
  PROVE  SnapInv'
<1>1. /\ \/ reader' = reader
         \/ reader.step = 0 /\ reader' \in Reader /\ reader'.step = 1
      /\ UNCHANGED <<lines, partial, age, verdict, failures, cacheAge>>
  BY DeriveShape DEF OthersAsk, BeginSnapshot, Derive, vars
<1>2. /\ LinesOK' /\ (Settled => Settled')
      /\ LastAsks(TailLines(lines))' = LastAsks(TailLines(lines))
  BY <1>1 DEF SnapInv, LinesOK, Settled, Possible
<1>3. TypeOK'
  BY <1>1 DEF SnapInv, SnapshotTypeOK, TypeOK
<1>4. ReaderOK'
  BY <1>1 DEF SnapInv, ReaderOK
<1>5. VerdictOK'
  BY <1>1, <1>2 DEF SnapInv, VerdictOK
<1>6. CASE OthersAsk
  <2>1. UNCHANGED <<snap, suggested>> /\ reader'.step # 0
    BY <1>6, DeriveShape DEF OthersAsk
  <2>2. SnapshotTypeOK'
    BY <1>1, <1>3, <2>1 DEF SnapInv, SnapshotTypeOK, Composing
  <2>3. SnapOK'
    BY <1>1, <1>2, <2>1 DEF SnapInv, SnapOK
  <2>4. QED
    BY <1>2, <1>4, <1>5, <2>2, <2>3 DEF SnapInv
<1>7. CASE BeginSnapshot
  <2>1. NoSnap \in Snap /\ NoSnap.status = "none" /\ NoSnap.spent = 0 /\ ~NoSnap.asks
    BY ComposeAssumption DEF NoSnap, Snap
  <2>2. NoSuggestion \in Suggestion /\ suggested' = NoSuggestion
    BY <1>7 DEF NoSuggestion, Suggestion, BeginSnapshot
  <2>3. CASE CacheHeld /\ snap' = [NoSnap EXCEPT !.step = "text", !.status = verdict]
    <3>1. /\ verdict \in Status /\ verdict # "none" /\ cacheAge < CacheTTL
      BY <2>3 DEF CacheHeld, SnapInv, SnapshotTypeOK, TypeOK
    <3>2. /\ snap' \in Snap /\ snap'.step = "text" /\ snap'.status = verdict /\ snap'.spent = 0
          /\ ~snap'.asks
      BY <2>1, <2>3, <3>1 DEF Snap
    <3>3. SnapshotTypeOK'
      BY <1>1, <1>3, <2>2, <3>1, <3>2 DEF SnapInv, SnapshotTypeOK, Composing
    <3>4. age >= CacheTTL + 0 => age > cacheAge
      <4>1. age \in Nat /\ cacheAge \in Nat /\ CacheTTL \in Nat
        BY TimeAssumption, ComposeAssumption DEF SnapInv, SnapshotTypeOK, TypeOK
      <4>2. QED
        BY <3>1, <4>1
    <3>5. SnapOK'
      BY <1>1, <1>2, <3>1, <3>2, <3>4 DEF SnapInv, VerdictOK, SnapOK
    <3>6. QED
      BY <1>2, <1>4, <1>5, <3>3, <3>5 DEF SnapInv
  <2>4. CASE Derive /\ snap' = [NoSnap EXCEPT !.step = "deriving"]
    <3>1. /\ snap' \in Snap /\ snap'.step = "deriving" /\ snap'.status = "none" /\ ~snap'.asks
      BY <2>1, <2>4 DEF Snap
    <3>2. reader'.step # 0
      BY <2>4, DeriveShape
    <3>3. SnapshotTypeOK'
      BY <1>1, <1>3, <2>2, <3>1, <3>2 DEF SnapInv, SnapshotTypeOK, Composing
    <3>4. SnapOK'
      BY <3>1 DEF SnapOK
    <3>5. QED
      BY <1>2, <1>4, <1>5, <3>3, <3>4 DEF SnapInv
  <2>5. QED
    BY <1>7, <2>3, <2>4 DEF BeginSnapshot
<1>8. QED
  BY <1>6, <1>7

\* What suggestNext makes of a status: an approval only of one that awaits.
LEMMA SuggestShape ==
  ASSUME NEW status \in Status, NEW asks
  PROVE  /\ SuggestNext(status, asks) \in Suggestion
         /\ SuggestNext(status, asks).action = "inject y" =>
              /\ status = "awaiting_user_input" /\ asks
              /\ SuggestNext(status, asks).confidence = "high"
<1>1. CASE status = "awaiting_user_input"
  BY <1>1 DEF SuggestNext, Suggestion
<1>2. CASE status \in {"tool_pending", "working"}
  BY <1>2 DEF SuggestNext, Suggestion
<1>3. CASE status = "idle"
  BY <1>3 DEF SuggestNext, Suggestion, NoSuggestion
<1>4. QED
  BY <1>1, <1>2, <1>3 DEF Status

\* The text is read: a question that is found is there.
LEMMA TextStep ==
  ASSUME SnapInv, ReadText
  PROVE  SnapInv'
<1>1. PICK t \in Tails :
        ReadTail(t) /\ snap' = [snap EXCEPT !.step = "compose", !.asks = LastAsks(t)]
  BY DEF ReadText
<1>2. UNCHANGED <<lines, partial, age, reader, verdict, cacheAge, suggested>>
      /\ snap.step = "text" /\ snap \in Snap
  BY DEF ReadText, SnapInv, SnapshotTypeOK
<1>3. failures' \in 0..MaxFailures
  BY <1>1, FailureCounted DEF SnapInv, SnapshotTypeOK, TypeOK
<1>4. LastAsks(t) \in BOOLEAN /\ (LastAsks(t) => LastAsks(TailLines(lines)))
  <2>1. t = TailLines(lines) \/ t = <<>>
    BY <1>1 DEF Tails
  <2>2. LastAsks(TailLines(lines)) \in BOOLEAN
    <3> DEFINE s == TailLines(lines)
    <3>1. s \in Seq(Line)
      BY TailIsSuffix DEF SnapInv, SnapshotTypeOK, TypeOK
    <3> HIDE DEF s
    <3>2. CASE Turns(s) # {}
      <4>1. Len(s) \in Nat /\ Turns(s) \in SUBSET (1..Len(s))
        BY <3>1 DEF Turns
      <4>2. Max(Turns(s)) \in Turns(s)
        BY <3>2, <4>1, MaxIsLast
      <4>3. s[Max(Turns(s))] \in Line /\ s[Max(Turns(s))].kind \in {"use", "end", "more"}
        BY <3>1, <4>1, <4>2 DEF Turns
      <4>4. \A l \in Line : l.kind \in {"end", "more"} => l.asks \in BOOLEAN
        BY DEF Line
      <4>5. QED
        BY <4>3, <4>4 DEF LastAsks
    <3>3. CASE Turns(s) = {}
      BY <3>3 DEF LastAsks
    <3>4. QED
      BY <3>2, <3>3 DEF s
  <2>3. CASE t = TailLines(lines)
    BY <2>2, <2>3
  <2>4. CASE t = <<>>
    <3>1. Turns(<<>>) = {}
      BY DEF Turns
    <3>2. LastAsks(<<>>) = FALSE
      BY <3>1, Zenon DEF LastAsks
    <3>3. QED
      BY <2>4, <3>2
  <2>5. QED
    BY <2>1, <2>3, <2>4
<1>5. /\ snap' \in Snap /\ snap'.step = "compose" /\ snap'.asks = LastAsks(t)
      /\ snap'.status = snap.status /\ snap'.spent = snap.spent
  BY <1>1, <1>2, <1>4 DEF Snap
<1>6. SnapshotTypeOK'
  BY <1>2, <1>3, <1>5 DEF SnapInv, SnapshotTypeOK, TypeOK, Composing
<1>7. /\ LinesOK' /\ (Settled => Settled')
      /\ LastAsks(TailLines(lines))' = LastAsks(TailLines(lines))
  BY <1>2 DEF SnapInv, LinesOK, Settled, Possible
<1>8. ReaderOK' /\ VerdictOK'
  BY <1>2, <1>7 DEF SnapInv, ReaderOK, VerdictOK
<1>9. SnapOK'
  BY <1>2, <1>4, <1>5, <1>7 DEF SnapInv, SnapOK
<1>10. QED
  BY <1>6, <1>7, <1>8, <1>9 DEF SnapInv

\* The snapshot is done.
LEMMA ComposeStep ==
  ASSUME SnapInv, Compose
  PROVE  SnapInv'
<1>1. /\ snap' = NoSnap /\ snap.step = "compose"
      /\ UNCHANGED <<lines, partial, age, reader, verdict, failures, cacheAge>>
      /\ suggested' = SuggestNext(snap.status, snap.asks)
  BY DEF Compose, vars
<1>2. NoSnap \in Snap /\ NoSnap.step = "none" /\ NoSnap.status = "none" /\ ~NoSnap.asks
  BY ComposeAssumption DEF NoSnap, Snap
<1>3. snap.status \in Status
  BY <1>1 DEF SnapInv, SnapshotTypeOK, Snap, Composing
<1>4. suggested' \in Suggestion
  BY <1>1, <1>3, SuggestShape
<1>5. SnapshotTypeOK'
  BY <1>1, <1>2, <1>4 DEF SnapInv, SnapshotTypeOK, TypeOK, Composing
<1>6. LinesOK' /\ (Settled => Settled')
  BY <1>1 DEF SnapInv, LinesOK, Settled, Possible
<1>7. ReaderOK' /\ VerdictOK' /\ SnapOK'
  BY <1>1, <1>2, <1>6 DEF SnapInv, ReaderOK, VerdictOK, SnapOK
<1>8. QED
  BY <1>5, <1>6, <1>7 DEF SnapInv

\* The file is empty and nothing has been read.
LEMMA SnapStart == SnapshotInit => SnapInv
<1> SUFFICES ASSUME SnapshotInit
             PROVE  SnapInv
  OBVIOUS
<1>1. /\ Rest \in Reader /\ Rest.step = 0 /\ NoSnap \in Snap /\ NoSnap.step = "none"
      /\ NoSnap.status = "none" /\ ~NoSnap.asks /\ NoSuggestion \in Suggestion
      /\ 0 \in 0..Threshold /\ CacheTTL \in 0..CacheTTL /\ 0 \in 0..MaxFailures
  BY TimeAssumption, ComposeAssumption, BoundAssumption DEF Rest, Reader, NoSnap, Snap, NoSuggestion, Suggestion
<1>2. SnapshotTypeOK
  BY <1>1 DEF SnapshotInit, Init, SnapshotTypeOK, TypeOK, Composing
<1>3. lines = <<>> /\ partial = NoLine
  BY DEF SnapshotInit, Init
<1>4. LinesOK
  BY <1>3, ToolsOf DEF LinesOK
<1>5. ReaderOK /\ VerdictOK /\ SnapOK
  BY <1>1 DEF SnapshotInit, Init, ReaderOK, VerdictOK, SnapOK
<1>6. QED
  BY <1>2, <1>4, <1>5 DEF SnapInv

\* Every step keeps the invariant.
LEMMA SnapStep == SnapInv /\ [SnapshotNext]_snapshotVars => SnapInv'
<1>1. ASSUME SnapInv, UNCHANGED snapshotVars
      PROVE  SnapInv'
  <2>1. UNCHANGED <<lines, partial, age, reader, verdict, failures, cacheAge, snap, suggested>>
    BY <1>1 DEF snapshotVars, vars
  <2>2. SnapshotTypeOK'
    BY <1>1, <2>1 DEF SnapInv, SnapshotTypeOK, TypeOK, Composing
  <2>3. LinesOK' /\ (Settled => Settled')
    BY <1>1, <2>1 DEF SnapInv, LinesOK, Settled, Possible
  <2>4. ReaderOK' /\ VerdictOK' /\ SnapOK'
    BY <1>1, <2>1, <2>3 DEF SnapInv, ReaderOK, VerdictOK, SnapOK
  <2>5. QED
    BY <2>2, <2>3, <2>4 DEF SnapInv
<1>2. QED
  BY <1>1, WriteStep, TickStep, AskStep, ReadStep, TextStep, ComposeStep DEF SnapshotNext

-----------------------------------------------------------------------------
(* The theorems.                                                             *)

\* The inductive invariant of the derivation and the snapshot.
THEOREM SnapshotInvariant == SnapshotSpec => []SnapInv
BY SnapStart, SnapStep, PTL DEF SnapshotSpec

\* The shapes of the transcript, of the derivation and of the snapshot; a
\* derivation leaves nothing behind.
THEOREM SnapshotTypeCorrect == SnapshotSpec => []SnapshotTypeOK
<1>1. SnapInv => SnapshotTypeOK
  BY DEF SnapInv
<1>2. QED
  BY <1>1, SnapshotInvariant, PTL

\* A session is derived as waiting for its user only if its transcript ends in
\* a finished turn, with no tool open, at that very moment, although it was
\* read in three steps while the session may have been writing.
THEOREM WaitingIsCurrent == SnapshotSpec => AwaitingIsCurrent
<1> DEFINE A == reader.step # 0 /\ reader'.step = 0 /\ verdict' = "awaiting_user_input" =>
                  /\ LastAssistantTurn(lines) = "end"
                  /\ PendingToolUses(lines) = {}
<1>1. SnapInv /\ [SnapshotNext]_snapshotVars => [A]_vars
  <2> SUFFICES ASSUME SnapInv, SnapshotNext, reader.step # 0, reader'.step = 0,
                      verdict' = "awaiting_user_input"
               PROVE  LastAssistantTurn(lines) = "end" /\ PendingToolUses(lines) = {}
    BY DEF snapshotVars, vars
  <2>1. DeriveStep
    <3>1. SnapshotWrite \/ BeginSnapshot \/ OthersAsk \/ ReadText \/ Compose =>
            reader' = reader \/ reader.step = 0
      BY DEF SnapshotWrite, Write, BeginSnapshot, OthersAsk, Derive, ReadText, Compose, vars
    <3>2. SnapshotTick => reader'.step = reader.step
      BY DEF SnapshotTick, Tick, vars, SnapInv, SnapshotTypeOK, TypeOK, Reader
    <3>3. QED
      BY <3>1, <3>2 DEF SnapshotNext
  <2>2. ReadLast \/ ReadPending \/ ReturnPending \/ ReadStat
    BY <2>1 DEF DeriveStep
  <2>3. reader.step = 3 /\ reader.last = "end" /\ age = Threshold
    BY <2>2, ReadShape
  <2>4. QED
    BY <2>3, QuietSettles DEF Settled
<1>2. QED
  BY <1>1, SnapshotInvariant, PTL DEF SnapshotSpec, AwaitingIsCurrent

\* A tool that is found pending really is: neither the window nor a line that
\* is half written makes an answered call look open.
THEOREM PendingIsOpen == SnapshotSpec => PendingIsReal
<1> DEFINE A == reader'.pending # reader.pending =>
                  reader'.pending \subseteq PendingToolUses(lines)
<1>1. SnapInv /\ [SnapshotNext]_snapshotVars => [A]_vars
  <2> SUFFICES ASSUME SnapInv, SnapshotNext, reader'.pending # reader.pending
               PROVE  reader'.pending \subseteq PendingToolUses(lines)
    BY DEF snapshotVars, vars
  <2>1. reader \in Reader /\ lines \in Seq(Line)
    BY DEF SnapInv, SnapshotTypeOK, TypeOK
  <2>2. CASE DeriveStep
    <3>1. ReadLast \/ ReadPending \/ ReturnPending \/ ReadStat
      BY <2>2 DEF DeriveStep
    <3>3. reader'.pending \in {reader.pending, {}, PendingToolUses(TailLines(lines))}
      BY <3>1, ReadShape DEF Rest
    <3>4. QED
      BY <2>1, <3>3, PendingOfTail DEF SnapInv
  <2>3. CASE OthersAsk \/ BeginSnapshot
    <3>1. reader' = reader \/ reader' = [Rest EXCEPT !.step = 1]
      BY <2>3 DEF OthersAsk, BeginSnapshot, Derive, vars
    <3>2. reader'.pending = {}
      BY <3>1 DEF Rest
    <3>3. QED
      BY <3>2
  <2>4. CASE SnapshotWrite \/ SnapshotTick \/ ReadText \/ Compose
    BY <2>1, <2>4 DEF SnapshotWrite, Write, SnapshotTick, Tick, ReadText, Compose, vars, Reader
  <2>5. QED
    BY <2>2, <2>3, <2>4 DEF SnapshotNext
<1>2. QED
  BY <1>1, SnapshotInvariant, PTL DEF SnapshotSpec, PendingIsReal

\* A snapshot whose file is quiet all the time began with a quiet file.
LEMMA ComposeInTime ==
  ASSUME NEW n \in 0..MaxCompose
  PROVE  Threshold >= CacheTTL + n
BY TimeAssumption, ComposeAssumption

\* The last `Window` turns of the tail are the tail.
LEMMA WholeTail ==
  ASSUME NEW s \in Seq(Line)
  PROVE  BuildTranscript(s, Window) = TailLines(s)
<1> DEFINE t == TailLines(s)
<1>1. BuildTranscript(s, Window) =
        SubSeq(t, IF Len(t) < Window THEN 1 ELSE Len(t) - Window + 1, Len(t))
  BY DEF BuildTranscript
<1>2. t \in Seq(Line) /\ Len(t) <= Window
  BY TailIsSuffix
<1> HIDE DEF t
<1>3. Len(t) \in Nat /\ Window \in Nat
  BY <1>2, WindowAssumption
<1>4. (IF Len(t) < Window THEN 1 ELSE Len(t) - Window + 1) = 1
  BY <1>2, <1>3
<1>5. SubSeq(t, 1, Len(t)) = t
  BY <1>2, SubSeqFull
<1>6. QED
  BY <1>1, <1>4, <1>5 DEF t

\* suggest.ts:9-10: what an auto-pilot may inject answers a question, although
\* the status may be as old as the cache and the text was read later, if the
\* file is quiet when the suggestion is made.
THEOREM ApprovalIsRight == SnapshotSpec => QuietApprovalIsRight
<1> DEFINE A == snap.step = "compose" /\ snap'.step = "none" /\ suggested'.action = "inject y"
                  /\ age = Threshold =>
                  /\ suggested'.confidence = "high"
                  /\ LastAssistantTurn(BuildTranscript(lines, Window)) = "end"
                  /\ LastAsks(BuildTranscript(lines, Window))
                  /\ PendingToolUses(lines) = {}
<1>1. SnapInv /\ [SnapshotNext]_snapshotVars => [A]_snapshotVars
  <2> SUFFICES ASSUME SnapInv, SnapshotNext, snap.step = "compose", snap'.step = "none",
                      suggested'.action = "inject y", age = Threshold
               PROVE  /\ suggested'.confidence = "high"
                      /\ LastAssistantTurn(BuildTranscript(lines, Window)) = "end"
                      /\ LastAsks(BuildTranscript(lines, Window))
                      /\ PendingToolUses(lines) = {}
    OBVIOUS
  <2>1. Compose
    <3>1. SnapshotWrite \/ OthersAsk \/ DeriveStep => snap' = snap
      BY DEF SnapshotWrite, OthersAsk, DeriveStep
    <3>2. SnapshotTick => snap'.step = snap.step
      BY DEF SnapshotTick, SnapInv, SnapshotTypeOK, Snap
    <3>3. ~BeginSnapshot /\ ~ReadText
      BY DEF BeginSnapshot, ReadText
    <3>4. QED
      BY <3>1, <3>2, <3>3 DEF SnapshotNext
  <2>2. snap.status \in Status
    BY DEF SnapInv, SnapshotTypeOK, Snap, Composing
  <2>3. suggested' = SuggestNext(snap.status, snap.asks)
    BY <2>1 DEF Compose
  <2>4. snap.status = "awaiting_user_input" /\ snap.asks /\ suggested'.confidence = "high"
    BY <2>2, <2>3, SuggestShape
  <2>5. age >= CacheTTL + snap.spent
    <3>1. snap.spent \in 0..MaxCompose
      BY DEF SnapInv, SnapshotTypeOK, Snap
    <3>2. QED
      BY <3>1, ComposeInTime
  <2>6. Settled /\ LastAsks(TailLines(lines))
    BY <2>4, <2>5 DEF SnapInv, SnapOK
  <2>7. BuildTranscript(lines, Window) = TailLines(lines)
    BY WholeTail DEF SnapInv, SnapshotTypeOK, TypeOK
  <2>8. QED
    BY <2>4, <2>6, <2>7 DEF Settled
<1>2. QED
  BY <1>1, SnapshotInvariant, PTL DEF SnapshotSpec, QuietApprovalIsRight
===============================================================================
