---------------------------- MODULE ConsoleProofs ----------------------------
(***************************************************************************)
(* Proofs about the console sinks and their formatters: what a line says   *)
(* of its message, for every pattern, width, clock and calendar, whatever  *)
(* was formatted before.  A line is built field by field, so that each     *)
(* proof is an induction along a sequence, which is stated of the set of   *)
(* positions that it has reached.                                          *)
(***************************************************************************)
EXTENDS ConsoleSinks, FiniteSetTheorems, SequenceTheorems, TLAPS

----------------------------------------------------------------------------
(* Induction along a sequence. *)

(* Induction up to a number, as a fact about sets: the numbers up to which *)
(* all are in S are as many as there are up to the largest of them.        *)
LEMMA UpTo ==
  ASSUME NEW n \in Nat, NEW S, 0 \in S, \A k \in 0 .. n - 1 : k \in S => k + 1 \in S
  PROVE  0 .. n \subseteq S
<1>1. PICK D : D = {k \in 0 .. n : 0 .. k \subseteq S}
  OBVIOUS
<1>2. PICK c : c = Cardinality(D)
  OBVIOUS
<1>3. IsFiniteSet(D) /\ c \in Nat /\ c # 0
  <2>1. IsFiniteSet(0 .. n)
    BY FS_Interval
  <2>2. IsFiniteSet(D)
    BY <1>1, <2>1, FS_Subset
  <2>3. 0 \in D
    BY <1>1
  <2> QED
    BY <1>2, <2>2, <2>3, FS_CardinalityType, FS_EmptySet
<1>4. ASSUME NEW k \in D PROVE k <= c - 1
  <2>1. k \in Nat /\ 0 .. k \subseteq D
    BY <1>1
  <2>2. Cardinality(0 .. k) = IF 0 > k THEN 0 ELSE k - 0 + 1
    BY <2>1, FS_Interval
  <2>3. Cardinality(0 .. k) <= c
    BY <1>2, <1>3, <2>1, FS_Subset
  <2> QED
    BY <1>3, <2>1, <2>2, <2>3
<1>5. c - 1 \in D
  <2> SUFFICES ASSUME c - 1 \notin D PROVE FALSE
    OBVIOUS
  <2>1. ASSUME NEW k \in D PROVE k \in 0 .. c - 2
    <3>1. k \in Nat /\ k <= c - 1 /\ k # c - 1
      BY <1>1, <1>4
    <3> QED
      BY <1>3, <3>1
  <2>2. c - 2 \in Int
    BY <1>3
  <2>3. IsFiniteSet(0 .. c - 2) /\ Cardinality(0 .. c - 2) = IF 0 > c - 2 THEN 0 ELSE c - 2 - 0 + 1
    BY <2>2, FS_Interval
  <2>4. c <= Cardinality(0 .. c - 2)
    BY <1>2, <2>1, <2>3, FS_Subset
  <2> QED
    BY <1>3, <2>3, <2>4
<1>6. c - 1 = n
  <2> SUFFICES ASSUME c - 1 # n PROVE FALSE
    OBVIOUS
  <2>1. c - 1 \in 0 .. n - 1 /\ 0 .. c - 1 \subseteq S
    BY <1>1, <1>3, <1>5
  <2>2. c - 1 \in S /\ (c - 1) + 1 = c
    BY <1>3, <2>1
  <2>3. c \in S /\ c \in 0 .. n
    BY <2>1, <2>2
  <2>4. 0 .. c \subseteq S
    BY <1>3, <2>1, <2>3
  <2>5. c \in D
    BY <1>1, <2>3, <2>4
  <2> QED
    BY <1>3, <1>4, <2>5
<1> QED
  BY <1>1, <1>5, <1>6

(* The steps of a recursion along a sequence, as functions from a set to   *)
(* itself, and the values that they lead to.                               *)
StepsOf(n, Values) == [1 .. n -> [Values -> Values]]

IsRun(t, n, Values, first, step) ==
  t \in [0 .. n -> Values] /\ t[0] = first /\ \A k \in 1 .. n : t[k] = step[k][t[k - 1]]

Follows(t, n, Values, first, step) ==
  t[0] = first /\ \A k \in 1 .. n : t[k - 1] \in Values => t[k] = step[k][t[k - 1]]

(* A recursion along a sequence has values, if each of its steps has one:  *)
(* the steps are functions from a set to itself.                           *)
LEMMA RunExists ==
  ASSUME NEW n, NEW Values, NEW first, NEW step,
         n \in Nat, first \in Values, step \in StepsOf(n, Values)
  PROVE  \E t : IsRun(t, n, Values, first, step)
<1>0. step \in [1 .. n -> [Values -> Values]]
  BY DEF StepsOf
<1>1. PICK S : S = {j \in 0 .. n : \E f \in [0 .. j -> Values] :
                      f[0] = first /\ \A k \in 1 .. j : f[k] = step[k][f[k - 1]]}
  OBVIOUS
<1>2. 0 \in S
  <2>1. PICK f : f = [k \in 0 .. 0 |-> first]
    OBVIOUS
  <2>2. f \in [0 .. 0 -> Values] /\ f[0] = first /\ \A k \in 1 .. 0 : f[k] = step[k][f[k - 1]]
    BY <2>1
  <2>3. 0 \in 0 .. n
    OBVIOUS
  <2> QED
    BY <1>1, <2>2, <2>3, Zenon
<1>3. ASSUME NEW j \in 0 .. n - 1, j \in S PROVE j + 1 \in S
  <2>1. PICK f \in [0 .. j -> Values] : f[0] = first /\ \A k \in 1 .. j : f[k] = step[k][f[k - 1]]
    BY <1>1, <1>3
  <2>2. PICK x : x = step[j + 1][f[j]]
    OBVIOUS
  <2>3. x \in Values
    <3>1. step[j + 1] \in [Values -> Values] /\ f[j] \in Values
      BY <1>0, <2>1
    <3> QED
      BY <2>2, <3>1
  <2>4. PICK g : g = [k \in 0 .. j + 1 |-> IF k <= j THEN f[k] ELSE x]
    OBVIOUS
  <2>5. g \in [0 .. j + 1 -> Values]
    BY <2>3, <2>4
  <2>6. g[0] = first
    BY <2>1, <2>4
  <2>7. ASSUME NEW k \in 1 .. j + 1 PROVE g[k] = step[k][g[k - 1]]
    <3>1. CASE k <= j
      BY <2>1, <2>4, <3>1
    <3>2. CASE k = j + 1
      <4>1. g[k] = x /\ g[k - 1] = f[j]
        BY <2>4, <3>2
      <4> QED
        BY <2>2, <3>2, <4>1
    <3> QED
      BY <3>1, <3>2
  <2>8. j + 1 \in 0 .. n
    OBVIOUS
  <2> QED
    BY <1>1, <2>5, <2>6, <2>7, <2>8
<1>4. n \in S
  <2>1. 0 .. n \subseteq S
    BY <1>2, <1>3, UpTo
  <2> QED
    BY <2>1
<1>5. PICK f \in [0 .. n -> Values] : f[0] = first /\ \A k \in 1 .. n : f[k] = step[k][f[k - 1]]
  BY <1>1, <1>4
<1>6. IsRun(f, n, Values, first, step)
  BY <1>5 DEF IsRun
<1> QED
  BY <1>6

(* A recursion that has values stays in their set.                         *)
LEMMA RunStays ==
  ASSUME NEW n, NEW Values, NEW first, NEW step, NEW t,
         n \in Nat, first \in Values, step \in StepsOf(n, Values),
         Follows(t, n, Values, first, step)
  PROVE  t[n] \in Values
<1>0. /\ step \in [1 .. n -> [Values -> Values]]
      /\ t[0] = first /\ \A k \in 1 .. n : t[k - 1] \in Values => t[k] = step[k][t[k - 1]]
  BY DEF StepsOf, Follows
<1>1. PICK S : S = {k \in 0 .. n : t[k] \in Values}
  OBVIOUS
<1>2. 0 \in S
  BY <1>0, <1>1
<1>3. ASSUME NEW k \in 0 .. n - 1, k \in S PROVE k + 1 \in S
  <2>1. k + 1 \in 1 .. n /\ (k + 1) - 1 = k /\ t[k] \in Values
    BY <1>1, <1>3
  <2>2. t[k + 1] = step[k + 1][t[k]]
    BY <1>0, <2>1
  <2>3. step[k + 1] \in [Values -> Values]
    BY <1>0, <2>1
  <2>4. t[k + 1] \in Values
    BY <2>1, <2>2, <2>3
  <2> QED
    BY <1>1, <2>1, <2>4
<1>4. 0 .. n \subseteq S
  BY <1>2, <1>3, UpTo
<1> QED
  BY <1>1, <1>4

(* The digits of a number: a recursion that steps back to a tenth.         *)
LEMMA DigitsOf ==
  ASSUME NEW n \in Nat
  PROVE  Digits(n) \in Nat
<1>1. PICK S : S = {j \in 0 .. n : \E f \in [0 .. j -> Nat] :
                      \A k \in 0 .. j : f[k] = IF k < 10 THEN 1 ELSE f[k \div 10] + 1}
  OBVIOUS
<1>2. 0 \in S
  <2>1. PICK f : f = [k \in 0 .. 0 |-> 1]
    OBVIOUS
  <2>2. f \in [0 .. 0 -> Nat] /\ \A k \in 0 .. 0 : f[k] = IF k < 10 THEN 1 ELSE f[k \div 10] + 1
    BY <2>1
  <2>3. 0 \in 0 .. n
    OBVIOUS
  <2> QED
    BY <1>1, <2>2, <2>3, Zenon
<1>3. ASSUME NEW j \in 0 .. n - 1, j \in S PROVE j + 1 \in S
  <2>1. PICK f \in [0 .. j -> Nat] : \A k \in 0 .. j : f[k] = IF k < 10 THEN 1 ELSE f[k \div 10] + 1
    BY <1>1, <1>3
  <2>2. PICK x : x = IF j + 1 < 10 THEN 1 ELSE f[(j + 1) \div 10] + 1
    OBVIOUS
  <2>3. j + 1 >= 10 => (j + 1) \div 10 \in 0 .. j
    OBVIOUS
  <2>4. x \in Nat
    BY <2>1, <2>2, <2>3
  <2>5. PICK g : g = [k \in 0 .. j + 1 |-> IF k <= j THEN f[k] ELSE x]
    OBVIOUS
  <2>6. g \in [0 .. j + 1 -> Nat]
    BY <2>4, <2>5
  <2>7. ASSUME NEW k \in 0 .. j + 1 PROVE g[k] = IF k < 10 THEN 1 ELSE g[k \div 10] + 1
    <3>1. k >= 10 => k \div 10 \in 0 .. j
      OBVIOUS
    <3>2. k >= 10 => g[k \div 10] = f[k \div 10]
      BY <2>5, <3>1
    <3>3. CASE k <= j
      <4>1. g[k] = f[k]
        BY <2>5, <3>3
      <4> QED
        BY <2>1, <3>2, <3>3, <4>1
    <3>4. CASE k = j + 1
      <4>1. g[k] = x
        BY <2>5, <3>4
      <4> QED
        BY <2>2, <3>2, <3>4, <4>1
    <3> QED
      BY <3>3, <3>4
  <2>8. j + 1 \in 0 .. n
    OBVIOUS
  <2> QED
    BY <1>1, <2>6, <2>7, <2>8
<1>4. n \in S
  <2>1. 0 .. n \subseteq S
    BY <1>2, <1>3, UpTo
  <2> QED
    BY <2>1
<1>5. PICK f \in [0 .. n -> Nat] : \A k \in 0 .. n : f[k] = IF k < 10 THEN 1 ELSE f[k \div 10] + 1
  BY <1>1, <1>4
<1>6. f = [k \in 0 .. n |-> IF k < 10 THEN 1 ELSE f[k \div 10] + 1]
  BY <1>5
<1>7. PICK t : t = CHOOSE g : g = [k \in 0 .. n |-> IF k < 10 THEN 1 ELSE g[k \div 10] + 1]
  OBVIOUS
<1>8. t = [k \in 0 .. n |-> IF k < 10 THEN 1 ELSE t[k \div 10] + 1]
  BY <1>6, <1>7, Zenon
<1>9. Digits(n) = t[n]
  BY <1>7, Zenon DEF Digits
<1>10. PICK T : T = {j \in 0 .. n : \A k \in 0 .. j : t[k] \in Nat}
  OBVIOUS
<1>11. 0 \in T
  BY <1>8, <1>10
<1>12. ASSUME NEW j \in 0 .. n - 1, j \in T PROVE j + 1 \in T
  <2>1. j + 1 \in 0 .. n /\ \A k \in 0 .. j : t[k] \in Nat
    BY <1>10, <1>12
  <2>2. t[j + 1] = IF j + 1 < 10 THEN 1 ELSE t[(j + 1) \div 10] + 1
    BY <1>8, <2>1
  <2>3. j + 1 >= 10 => (j + 1) \div 10 \in 0 .. j
    OBVIOUS
  <2>4. t[j + 1] \in Nat
    BY <2>1, <2>2, <2>3
  <2>5. \A k \in 0 .. j + 1 : k \in 0 .. j \/ k = j + 1
    OBVIOUS
  <2> QED
    BY <1>10, <2>1, <2>4, <2>5
<1>13. n \in T
  <2>1. 0 .. n \subseteq T
    BY <1>11, <1>12, UpTo
  <2> QED
    BY <2>1
<1> QED
  BY <1>9, <1>10, <1>13

----------------------------------------------------------------------------
(* The sizes of the fields. *)

Tells == Int \cup CalendarTimes

Messages ==
  [id : Nat, time : Times, logger : Nat, level : DOMAIN LevelSize, thread : Nat, size : Nat,
   source : Sources, mdc : Seq(Nat)]

FlagNames == Builtin \cup {"raw", "*"}

(* On the first nine days of a month %c claims one more than it writes.    *)
Short(flag, now) == flag = "c" /\ now.mday < 10

(* What a field may be written from, of which the flags that are dated     *)
(* have only the calendar time of the message.                             *)
PiecesOf(flag, now, dated) ==
  {p \in [from : Tells, claims : Nat, has : Nat] :
     /\ flag \in dated => p.from = now
     /\ Short(flag, now) \/ p.has = p.claims}

(* The fields of a line that are padded as they should, and dated.         *)
FieldsOfLine(now, dated) ==
  {f \in [flag : FlagNames, pad : Paddings, from : Tells, first : Nat, last : Nat] :
     /\ f.flag \in dated => f.from = now
     /\ f.pad.enabled /\ ~Short(f.flag, now) =>
          f.last - f.first >= f.pad.width /\ (f.pad.truncate => f.last - f.first = f.pad.width)}

(* The range to colour is marked by fields of the line.                    *)
RangeMarked(l) ==
  \/ \E k \in DOMAIN l.fields : l.fields[k].flag = "+"
  \/ /\ l.range[2] = 0 \/ \E k \in DOMAIN l.fields :
                            l.fields[k].flag = "$" /\ l.fields[k].first = l.range[2]
     /\ l.range[1] = 0 \/ \E k \in DOMAIN l.fields :
                            l.fields[k].flag = "^" /\ l.fields[k].first = l.range[1]

LinesOf(now, dated) ==
  {l \in [fields : Seq(FieldsOfLine(now, dated)), size : Nat, range : Nat \X Nat] : RangeMarked(l)}

(* A flag formatter.                                                       *)
FormattersOf(type) ==
  {f \in [flag : FlagNames, pad : Paddings, time : Int, memo : Tells] :
     /\ f.flag \in Elapsed \cup {"raw"} => f.memo \in Nat
     /\ f.flag = "+" => f.memo = ZeroTm \/ f.memo = Calendar(type, f.time)}

(* A padding.                                                              *)
LEMMA PaddingFields ==
  ASSUME NEW pad \in Paddings
  PROVE  /\ pad.enabled \in BOOLEAN /\ pad.width \in Nat /\ pad.truncate \in BOOLEAN
         /\ pad.side = "left" \/ pad.side = "center" \/ pad.side = "right"
<1> QED
  BY DEF Paddings

(* What is added on both sides is what was missing.                        *)
LEMMA PadsAddUp ==
  ASSUME NEW remaining \in Nat, NEW side, side = "left" \/ side = "center" \/ side = "right"
  PROVE  /\ PadBefore(side, remaining) \in Nat /\ PadAfter(side, remaining) \in Nat
         /\ PadBefore(side, remaining) + PadAfter(side, remaining) = remaining
<1>1. CASE side = "left"
  <2>1. PadBefore(side, remaining) = remaining /\ PadAfter(side, remaining) = 0
    BY <1>1 DEF PadBefore, PadAfter
  <2> QED
    BY <2>1
<1>2. CASE side = "center"
  <2>1. PadBefore(side, remaining) = remaining \div 2
    BY <1>2 DEF PadBefore
  <2>2. PadAfter(side, remaining) = (remaining \div 2) + (remaining % 2)
    BY <1>2 DEF PadAfter, HalfPad
  <2>3. remaining \div 2 \in Nat /\ remaining % 2 \in Nat
        /\ (remaining \div 2) + ((remaining \div 2) + (remaining % 2)) = remaining
    OBVIOUS
  <2> QED
    BY <2>1, <2>2, <2>3
<1>3. CASE side = "right"
  <2>1. PadBefore(side, remaining) = 0 /\ PadAfter(side, remaining) = remaining
    BY <1>3 DEF PadBefore, PadAfter
  <2> QED
    BY <2>1
<1> QED
  BY <1>1, <1>2, <1>3

(* A piece that has the size it claims is as wide as its padding asks.     *)
LEMMA SizeAfterIs ==
  ASSUME NEW size \in Nat, NEW pad \in Paddings,
         NEW piece \in [from : Tells, claims : Nat, has : Nat]
  PROVE  /\ SizeAfter(size, pad, piece) \in Nat
         /\ pad.enabled /\ piece.has = piece.claims =>
              /\ SizeAfter(size, pad, piece) - size >= pad.width
              /\ pad.truncate => SizeAfter(size, pad, piece) - size = pad.width
<1>1. PICK n : n = SizeAfter(size, pad, piece)
  OBVIOUS
<1>2. PICK rest : rest = Missing(pad, piece)
  OBVIOUS
<1>3. PICK width, claims, has : width = pad.width /\ claims = piece.claims /\ has = piece.has
  OBVIOUS
<1>4. width \in Nat /\ claims \in Nat /\ has \in Nat
  BY <1>3, PaddingFields
<1>5. pad.enabled => rest = width - claims
  BY <1>2, <1>3 DEF Missing
<1>6. ~pad.enabled => rest = 0
  BY <1>2 DEF Missing
<1>7. rest \in Int
  BY <1>4, <1>5, <1>6
<1>8. CASE rest >= 0
  <2>1. n = size + PadBefore(pad.side, rest) + has + PadAfter(pad.side, rest)
    BY <1>1, <1>2, <1>3, <1>8 DEF SizeAfter
  <2>2. /\ PadBefore(pad.side, rest) \in Nat /\ PadAfter(pad.side, rest) \in Nat
        /\ PadBefore(pad.side, rest) + PadAfter(pad.side, rest) = rest
    <3>1. rest \in Nat
      BY <1>7, <1>8
    <3>2. pad.side = "left" \/ pad.side = "center" \/ pad.side = "right"
      BY PaddingFields
    <3> QED
      BY <3>1, <3>2, PadsAddUp
  <2>3. n = size + rest + has
    BY <1>4, <1>7, <2>1, <2>2
  <2>4. n \in Nat
    BY <1>4, <1>7, <1>8, <2>3
  <2>5. pad.enabled /\ has = claims => n - size = width
    BY <1>4, <1>5, <2>3
  <2> QED
    BY <1>1, <1>3, <1>4, <2>4, <2>5
<1>9. CASE rest < 0 /\ pad.truncate
  <2>1. n = Larger(size + has + rest, 0)
    BY <1>1, <1>2, <1>3, <1>7, <1>9 DEF SizeAfter
  <2>2. n = IF size + has + rest > 0 THEN size + has + rest ELSE 0
    BY <2>1 DEF Larger
  <2>3. n \in Nat
    BY <1>4, <1>7, <2>2
  <2>4. pad.enabled /\ has = claims => n - size = width
    BY <1>4, <1>5, <2>2
  <2> QED
    BY <1>1, <1>3, <1>4, <2>3, <2>4
<1>10. CASE rest < 0 /\ ~pad.truncate
  <2>1. n = size + has
    BY <1>1, <1>2, <1>3, <1>7, <1>10 DEF SizeAfter
  <2>2. n \in Nat
    BY <1>4, <2>1
  <2>3. pad.enabled /\ has = claims => n - size >= width
    BY <1>4, <1>5, <1>10, <2>1
  <2> QED
    BY <1>1, <1>3, <1>10, <2>2, <2>3
<1> QED
  BY <1>7, <1>8, <1>9, <1>10

(* Only a piece that tells what the field may be written from.             *)
LEMMA ExactlyOne ==
  ASSUME NEW flag, NEW now, NEW dated, NEW from \in Tells, NEW size \in Nat,
         flag \in dated => from = now
  PROVE  Exactly(from, size) \in Seq(PiecesOf(flag, now, dated))
<1>1. PICK p : p = Piece(from, size, size)
  OBVIOUS
<1>2. p \in PiecesOf(flag, now, dated)
  BY <1>1 DEF PiecesOf, Piece
<1>3. Exactly(from, size) = <<p>>
  BY <1>1 DEF Exactly
<1> QED
  BY <1>2, <1>3

(* The flags of each table of sizes.                                       *)
LEMMA Tables ==
  ASSUME NEW tm, NEW msg
  PROVE  /\ DOMAIN DayAndMonthSize(tm) = {"a", "A", "b", "h", "B"}
         /\ DOMAIN DateSize = {"c", "C", "D", "x", "Y", "m", "d"}
         /\ DOMAIN HourSize = {"H", "I", "M", "S"}
         /\ DOMAIN ClockSize = {"p", "r", "R", "T", "X"}
         /\ DOMAIN FractionSize = {"e", "f", "F", "E"}
         /\ DOMAIN NameSize(msg) = {"n", "l", "L"}
         /\ DOMAIN TextSize(msg) = {"t", "P", "v"}
<1>1. DOMAIN DayAndMonthSize(tm) = {"a", "A", "b", "h", "B"}
  BY DEF DayAndMonthSize
<1>2. DOMAIN DateSize = {"c", "C", "D", "x", "Y", "m", "d"}
  BY DEF DateSize
<1>3. DOMAIN HourSize = {"H", "I", "M", "S"} /\ DOMAIN ClockSize = {"p", "r", "R", "T", "X"}
  BY DEF HourSize, ClockSize
<1>4. DOMAIN FractionSize = {"e", "f", "F", "E"}
  BY DEF FractionSize
<1>5. DOMAIN NameSize(msg) = {"n", "l", "L"} /\ DOMAIN TextSize(msg) = {"t", "P", "v"}
  BY DEF NameSize, TextSize
<1> QED
  BY <1>1, <1>2, <1>3, <1>4, <1>5

(* The assumption on the clock and the calendar.                           *)
LEMMA Clocks ==
  /\ Times \subseteq Nat /\ (\A t \in Times : t >= Second) /\ Births \subseteq Int
  /\ \A type \in Types \cup {"local"}, t \in Times : Calendar(type, SecondOf(t)) \in CalendarTimes
<1>1. Times \subseteq Nat /\ (\A t \in Times : t >= Refresh /\ t >= Second)
  BY ConsoleAssumption, Zenon DEF ConsoleAssumption
<1>2. Births \subseteq Int
  BY ConsoleAssumption, Zenon DEF ConsoleAssumption
<1>3. \A type \in Types \cup {"local"}, t \in Times : Calendar(type, SecondOf(t)) \in CalendarTimes
  BY ConsoleAssumption, Zenon DEF ConsoleAssumption
<1> QED
  BY <1>1, <1>2, <1>3, Zenon

(* The fields of a message.                                                *)
LEMMA MessageFields ==
  ASSUME NEW msg \in Messages
  PROVE  /\ msg.id \in Nat /\ msg.time \in Int /\ msg.logger \in Nat /\ LevelSize[msg.level] \in Nat
         /\ msg.thread \in Nat /\ msg.size \in Nat /\ msg.mdc \in Seq(Nat)
         /\ \A flag \in {"@", "g", "s", "#", "!"} : SourceSize(flag, msg.source) \in Nat
<1>1. /\ msg.id \in Nat /\ msg.time \in Times /\ msg.logger \in Nat /\ msg.level \in DOMAIN LevelSize
      /\ msg.thread \in Nat /\ msg.size \in Nat /\ msg.mdc \in Seq(Nat) /\ msg.source \in Sources
  BY DEF Messages
<1>2. msg.time \in Int
  <2>1. Times \subseteq Nat
    BY Clocks
  <2>2. msg.time \in Times
    BY <1>1
  <2>3. PICK time : time = msg.time
    OBVIOUS
  <2>4. time \in Nat
    BY <2>1, <2>2, <2>3
  <2>5. time \in Int
    BY <2>4
  <2> QED
    BY <2>3, <2>5, Zenon
<1>3. LevelSize[msg.level] \in Nat
  BY <1>1 DEF LevelSize
<1>4. ASSUME NEW flag \in {"@", "g", "s", "#", "!"} PROVE SourceSize(flag, msg.source) \in Nat
  <2>1. PICK source : source = msg.source
    OBVIOUS
  <2>2. source.file \in Nat /\ source.base \in Nat /\ source.line \in Nat /\ source.func \in Nat
    BY <1>1, <2>1 DEF Sources
  <2>3. SourceSize(flag, source) \in Nat
    BY <1>4, <2>2 DEF SourceSize, LocationSize
  <2> QED
    BY <2>1, <2>3
<1> QED
  BY <1>1, <1>2, <1>3, <1>4

(* The sizes in the tables.                                                *)
LEMMA TableSizes ==
  ASSUME NEW tm \in CalendarTimes, NEW msg \in Messages
  PROVE  /\ \A flag \in {"a", "A", "b", "h", "B"} : DayAndMonthSize(tm)[flag] \in Nat
         /\ \A flag \in {"c", "C", "D", "x", "Y", "m", "d"} : DateSize[flag] \in Nat
         /\ \A flag \in {"H", "I", "M", "S"} : HourSize[flag] \in Nat
         /\ \A flag \in {"p", "r", "R", "T", "X"} : ClockSize[flag] \in Nat
         /\ \A flag \in {"e", "f", "F", "E"} : FractionSize[flag] \in Nat
         /\ \A flag \in {"n", "l", "L"} : NameSize(msg)[flag] \in Nat
         /\ \A flag \in {"t", "P", "v"} : TextSize(msg)[flag] \in Nat
<1>1. ASSUME NEW flag \in {"a", "A", "b", "h", "B"} PROVE DayAndMonthSize(tm)[flag] \in Nat
  <2>1. tm.wday + 1 \in 1 .. 7 /\ tm.mon + 1 \in 1 .. 12
    <3>1. tm.wday \in 0 .. 6 /\ tm.mon \in 0 .. 11
      BY DEF CalendarTimes
    <3> QED
      BY <3>1
  <2>2. \A k \in 1 .. 7 : <<6, 6, 7, 9, 8, 6, 8>>[k] \in Nat
    OBVIOUS
  <2>3. \A k \in 1 .. 12 : <<7, 8, 5, 5, 3, 4, 4, 6, 9, 7, 8, 8>>[k] \in Nat
    OBVIOUS
  <2>4. PICK day, month : /\ day = <<6, 6, 7, 9, 8, 6, 8>>[tm.wday + 1]
                          /\ month = <<7, 8, 5, 5, 3, 4, 4, 6, 9, 7, 8, 8>>[tm.mon + 1]
    OBVIOUS
  <2>5. day \in Nat /\ month \in Nat
    BY <2>1, <2>2, <2>3, <2>4
  <2>6. DayAndMonthSize(tm) = [a |-> 3, A |-> day, b |-> 3, h |-> 3, B |-> month]
    BY <2>4, Zenon DEF DayAndMonthSize
  <2> QED
    BY <1>1, <2>5, <2>6
<1>2. \A flag \in {"c", "C", "D", "x", "Y", "m", "d"} : DateSize[flag] \in Nat
  BY DEF DateSize
<1>3. \A flag \in {"H", "I", "M", "S"} : HourSize[flag] \in Nat
  BY DEF HourSize
<1>4. \A flag \in {"p", "r", "R", "T", "X"} : ClockSize[flag] \in Nat
  BY DEF ClockSize
<1>5. \A flag \in {"e", "f", "F", "E"} : FractionSize[flag] \in Nat
  BY DEF FractionSize
<1>6. ASSUME NEW flag \in {"n", "l", "L"} PROVE NameSize(msg)[flag] \in Nat
  <2>1. PICK name, level : name = msg.logger /\ level = LevelSize[msg.level]
    OBVIOUS
  <2>2. NameSize(msg) = [n |-> name, l |-> level, L |-> 1]
    BY <2>1, Zenon DEF NameSize
  <2>3. name \in Nat /\ level \in Nat
    BY <2>1, MessageFields
  <2> QED
    BY <1>6, <2>2, <2>3
<1>7. ASSUME NEW flag \in {"t", "P", "v"} PROVE TextSize(msg)[flag] \in Nat
  <2>1. PICK thread, size : thread = msg.thread /\ size = msg.size
    OBVIOUS
  <2>2. TextSize(msg) = [t |-> thread, P |-> 3, v |-> size]
    BY <2>1, Zenon DEF TextSize
  <2>3. thread \in Nat /\ size \in Nat
    BY <2>1, MessageFields
  <2> QED
    BY <1>7, <2>2, <2>3
<1> QED
  BY <1>1, <1>2, <1>3, <1>4, <1>5, <1>6, <1>7

(* Each pair of the context claims what it has.                            *)
LEMMA ContextPiecesAre ==
  ASSUME NEW flag, NEW now, NEW dated, NEW msg \in Messages, flag \notin dated
  PROVE  ContextPieces(msg) \in Seq(PiecesOf(flag, now, dated))
<1>1. PICK n, mdc, id : n = Len(msg.mdc) /\ mdc = msg.mdc /\ id = msg.id
  OBVIOUS
<1>2. mdc \in Seq(Nat) /\ n = Len(mdc) /\ n \in Nat /\ id \in Nat /\ id \in Tells
  <2>1. mdc \in Seq(Nat) /\ id \in Nat
    BY <1>1, MessageFields
  <2> QED
    BY <1>1, <2>1 DEF Tells
<1>3. CASE n = 0
  <2>1. ContextPieces(msg) = Exactly(id, 0)
    BY <1>1, <1>3 DEF ContextPieces
  <2>2. 0 \in Nat
    OBVIOUS
  <2> QED
    BY <1>2, <2>1, <2>2, ExactlyOne
<1>4. CASE n # 0
  <2>1. PICK s : s = [k \in 1 .. n |-> Piece(id, mdc[k] + IF k < n THEN 1 ELSE 0,
                                                 mdc[k] + IF k < n THEN 1 ELSE 0)]
    OBVIOUS
  <2>2. ContextPieces(msg) = s
    BY <1>1, <1>4, <2>1 DEF ContextPieces
  <2>3. ASSUME NEW k \in 1 .. n PROVE s[k] \in PiecesOf(flag, now, dated)
    <3>1. PICK size : size = mdc[k] + IF k < n THEN 1 ELSE 0
      OBVIOUS
    <3>2. mdc[k] \in Nat
      BY <1>2
    <3>3. size \in Nat
      BY <3>1, <3>2
    <3>4. s[k] = Piece(id, size, size)
      BY <2>1, <3>1
    <3> QED
      BY <1>2, <3>3, <3>4 DEF PiecesOf, Piece
  <2>4. s \in Seq(PiecesOf(flag, now, dated))
    BY <1>2, <2>1, <2>3
  <2> QED
    BY <2>2, <2>4
<1> QED
  BY <1>3, <1>4

(* The flags of which the field is made from the message, or is text.      *)
Undated == {"raw", "e", "f", "F", "E", "z", "n", "l", "L", "t", "P", "v", "@", "g", "s", "#", "!", "&"}
             \cup Elapsed

(* What each flag writes is of the message it is told of.                  *)
LEMMA PiecesAre ==
  ASSUME NEW type, NEW f \in FormattersOf(type), NEW tm \in CalendarTimes, NEW msg \in Messages,
         NEW now, NEW dated, dated \subseteq (LocalFlags \ {"z"}) \cup {"*"},
         f.flag \in LocalFlags \cup dated => tm = now,
         f.flag \notin {"^", "$", "+"}
  PROVE  Pieces(f, tm, msg) \in Seq(PiecesOf(f.flag, now, dated))
<1>1. PICK flag, memo, t : flag = f.flag /\ memo = f.memo /\ t = Pieces(f, tm, msg)
  OBVIOUS
<1>2. /\ flag \in FlagNames \ {"^", "$", "+"} /\ memo \in Tells
      /\ flag \in Elapsed \cup {"raw"} => memo \in Nat
  BY <1>1 DEF FormattersOf
<1>3. tm \in Tells /\ msg.id \in Tells /\ msg.time \in Tells /\ 0 \in Tells
  <2>1. msg.id \in Int /\ msg.time \in Int
    BY MessageFields
  <2> QED
    BY <2>1 DEF Tells
<1>4. PICK e1, e2, e3, e4, e5, e6, e7, e8, e9, e10, e11, e12, e13, e14 :
        /\ e1 = Exactly(0, memo)
        /\ e2 = <<Piece(tm, DateSize.c, LongDateSize(tm))>>
        /\ e3 = Exactly(tm, DayAndMonthSize(tm)[flag])
        /\ e4 = Exactly(tm, DateSize[flag])
        /\ e5 = Exactly(tm, HourSize[flag])
        /\ e6 = Exactly(tm, ClockSize[flag])
        /\ e7 = Exactly(msg.time, FractionSize[flag])
        /\ e8 = Exactly(memo, OffsetSize)
        /\ e9 = Exactly(memo, Digits(memo))
        /\ e10 = Exactly(msg.id, NameSize(msg)[flag])
        /\ e11 = Exactly(msg.id, TextSize(msg)[flag])
        /\ e12 = Exactly(msg.id, SourceSize(flag, msg.source))
        /\ e13 = ContextPieces(msg)
        /\ e14 = Exactly(tm, 2)
  OBVIOUS
<1>10. t = CASE flag = "raw" -> e1
             [] flag = "c" -> e2
             [] flag \in {"a", "A", "b", "h", "B"} -> e3
             [] flag \in {"c", "C", "D", "x", "Y", "m", "d"} \ {"c"} -> e4
             [] flag \in {"H", "I", "M", "S"} -> e5
             [] flag \in {"p", "r", "R", "T", "X"} -> e6
             [] flag \in {"e", "f", "F", "E"} -> e7
             [] flag = "z" -> e8
             [] flag \in Elapsed -> e9
             [] flag \in {"n", "l", "L"} -> e10
             [] flag \in {"t", "P", "v"} -> e11
             [] flag \in {"@", "g", "s", "#", "!"} -> e12
             [] flag = "&" -> e13
             [] flag = "*" -> e14
  BY <1>1, <1>4, Tables, Zenon DEF Pieces
<1>5. flag \in Undated \/ flag \in {"c"} \cup {"a", "A", "b", "h", "B"} \cup {"C", "D", "x", "Y", "m", "d"}
                                  \cup {"H", "I", "M", "S"} \cup {"p", "r", "R", "T", "X"} \/ flag = "*"
  BY <1>2, Tables DEF FlagNames, Builtin, LocalFlags, Elapsed, Undated
<1>6. CASE flag \in Undated
  <2>1. flag \notin dated
    BY <1>6 DEF Undated, Elapsed, LocalFlags
  <2>2. flag = "raw" => t = Exactly(0, memo)
    BY <1>4, <1>10 DEF Elapsed
  <2>3. flag \in {"e", "f", "F", "E"} => t = Exactly(msg.time, FractionSize[flag])
    BY <1>4, <1>10 DEF Elapsed
  <2>4. flag = "z" => t = Exactly(memo, OffsetSize)
    BY <1>4, <1>10 DEF Elapsed
  <2>5. flag \in Elapsed => t = Exactly(memo, Digits(memo))
    BY <1>4, <1>10 DEF Elapsed
  <2>6. flag \in {"n", "l", "L"} => t = Exactly(msg.id, NameSize(msg)[flag])
    BY <1>4, <1>10 DEF Elapsed
  <2>7. flag \in {"t", "P", "v"} => t = Exactly(msg.id, TextSize(msg)[flag])
    BY <1>4, <1>10 DEF Elapsed
  <2>8. flag \in {"@", "g", "s", "#", "!"} => t = Exactly(msg.id, SourceSize(flag, msg.source))
    BY <1>4, <1>10 DEF Elapsed
  <2>9. flag = "&" => t = ContextPieces(msg)
    BY <1>4, <1>10 DEF Elapsed
  <2>10. flag = "raw" => t \in Seq(PiecesOf(flag, now, dated))
    BY <1>2, <1>3, <2>1, <2>2, ExactlyOne
  <2>11. ASSUME flag \in {"e", "f", "F", "E"} PROVE t \in Seq(PiecesOf(flag, now, dated))
    <3>1. PICK from, size : from = msg.time /\ size = FractionSize[flag]
      OBVIOUS
    <3>2. size \in Nat
      BY <2>11, <3>1, TableSizes
    <3>3. from \in Tells /\ (flag \in dated => from = now)
      BY <1>3, <2>1, <3>1
    <3>4. t = Exactly(from, size)
      BY <2>11, <2>3, <3>1
    <3> QED
      BY <3>2, <3>3, <3>4, ExactlyOne
  <2>12. flag = "z" => t \in Seq(PiecesOf(flag, now, dated))
    <3>1. OffsetSize \in Nat
      BY DEF OffsetSize
    <3> QED
      BY <1>2, <2>1, <2>4, <3>1, ExactlyOne
  <2>13. flag \in Elapsed => t \in Seq(PiecesOf(flag, now, dated))
    <3>1. flag \in Elapsed => Digits(memo) \in Nat
      BY <1>2, DigitsOf
    <3> QED
      BY <1>2, <2>1, <2>5, <3>1, ExactlyOne
  <2>14. ASSUME flag \in {"n", "l", "L"} PROVE t \in Seq(PiecesOf(flag, now, dated))
    <3>1. PICK from, size : from = msg.id /\ size = NameSize(msg)[flag]
      OBVIOUS
    <3>2. size \in Nat
      BY <2>14, <3>1, TableSizes
    <3>3. from \in Tells /\ (flag \in dated => from = now)
      BY <1>3, <2>1, <3>1
    <3>4. t = Exactly(from, size)
      BY <2>14, <2>6, <3>1
    <3> QED
      BY <3>2, <3>3, <3>4, ExactlyOne
  <2>15. ASSUME flag \in {"t", "P", "v"} PROVE t \in Seq(PiecesOf(flag, now, dated))
    <3>1. PICK from, size : from = msg.id /\ size = TextSize(msg)[flag]
      OBVIOUS
    <3>2. size \in Nat
      BY <2>15, <3>1, TableSizes
    <3>3. from \in Tells /\ (flag \in dated => from = now)
      BY <1>3, <2>1, <3>1
    <3>4. t = Exactly(from, size)
      BY <2>15, <2>7, <3>1
    <3> QED
      BY <3>2, <3>3, <3>4, ExactlyOne
  <2>16. ASSUME flag \in {"@", "g", "s", "#", "!"} PROVE t \in Seq(PiecesOf(flag, now, dated))
    <3>1. PICK from, size : from = msg.id /\ size = SourceSize(flag, msg.source)
      OBVIOUS
    <3>2. size \in Nat
      BY <2>16, <3>1, MessageFields
    <3>3. from \in Tells /\ (flag \in dated => from = now)
      BY <1>3, <2>1, <3>1
    <3>4. t = Exactly(from, size)
      BY <2>16, <2>8, <3>1
    <3> QED
      BY <3>2, <3>3, <3>4, ExactlyOne
  <2>17. flag = "&" => t \in Seq(PiecesOf(flag, now, dated))
    BY <2>1, <2>9, ContextPiecesAre
  <2> QED
    BY <1>1, <1>6, <2>10, <2>11, <2>12, <2>13, <2>14, <2>15, <2>16, <2>17 DEF Undated
<1>7. CASE flag = "c"
  <2>1. t = <<Piece(tm, DateSize.c, LongDateSize(tm))>>
    BY <1>4, <1>7, <1>10 DEF Elapsed
  <2>2. tm = now
    BY <1>1, <1>7 DEF LocalFlags
  <2>3. PICK p : p = Piece(tm, 24, LongDateSize(tm))
    OBVIOUS
  <2>4. DateSize.c = 24
    BY DEF DateSize
  <2>5. p \in PiecesOf(flag, now, dated)
    <3>1. tm.mday \in Int
      BY DEF CalendarTimes
    <3>2. LongDateSize(tm) \in Nat /\ (LongDateSize(tm) = 24 \/ tm.mday < 10)
      BY <3>1 DEF LongDateSize
    <3> QED
      BY <1>3, <1>7, <2>2, <2>3, <3>2 DEF PiecesOf, Piece, Short
  <2>6. t = <<p>>
    BY <2>1, <2>3, <2>4
  <2> QED
    BY <1>1, <2>5, <2>6
<1>8. CASE flag \in {"a", "A", "b", "h", "B"} \cup {"C", "D", "x", "Y", "m", "d"}
                       \cup {"H", "I", "M", "S"} \cup {"p", "r", "R", "T", "X"}
  <2>1. tm = now
    BY <1>1, <1>8 DEF LocalFlags
  <2>2. flag \in {"a", "A", "b", "h", "B"} => t = Exactly(tm, DayAndMonthSize(tm)[flag])
    BY <1>4, <1>10 DEF Elapsed
  <2>3. flag \in {"C", "D", "x", "Y", "m", "d"} => t = Exactly(tm, DateSize[flag])
    BY <1>4, <1>10 DEF Elapsed
  <2>4. flag \in {"H", "I", "M", "S"} => t = Exactly(tm, HourSize[flag])
    BY <1>4, <1>10 DEF Elapsed
  <2>5. flag \in {"p", "r", "R", "T", "X"} => t = Exactly(tm, ClockSize[flag])
    BY <1>4, <1>10 DEF Elapsed
  <2>6. ASSUME flag \in {"a", "A", "b", "h", "B"} PROVE t \in Seq(PiecesOf(flag, now, dated))
    <3>1. PICK from, size : from = tm /\ size = DayAndMonthSize(tm)[flag]
      OBVIOUS
    <3>2. size \in Nat
      BY <2>6, <3>1, TableSizes
    <3>3. from \in Tells /\ (flag \in dated => from = now)
      BY <1>3, <2>1, <3>1
    <3>4. t = Exactly(from, size)
      BY <2>6, <2>2, <3>1
    <3> QED
      BY <3>2, <3>3, <3>4, ExactlyOne
  <2>7. ASSUME flag \in {"C", "D", "x", "Y", "m", "d"} PROVE t \in Seq(PiecesOf(flag, now, dated))
    <3>1. PICK from, size : from = tm /\ size = DateSize[flag]
      OBVIOUS
    <3>2. size \in Nat
      BY <2>7, <3>1, TableSizes
    <3>3. from \in Tells /\ (flag \in dated => from = now)
      BY <1>3, <2>1, <3>1
    <3>4. t = Exactly(from, size)
      BY <2>7, <2>3, <3>1
    <3> QED
      BY <3>2, <3>3, <3>4, ExactlyOne
  <2>8. ASSUME flag \in {"H", "I", "M", "S"} PROVE t \in Seq(PiecesOf(flag, now, dated))
    <3>1. PICK from, size : from = tm /\ size = HourSize[flag]
      OBVIOUS
    <3>2. size \in Nat
      BY <2>8, <3>1, TableSizes
    <3>3. from \in Tells /\ (flag \in dated => from = now)
      BY <1>3, <2>1, <3>1
    <3>4. t = Exactly(from, size)
      BY <2>8, <2>4, <3>1
    <3> QED
      BY <3>2, <3>3, <3>4, ExactlyOne
  <2>9. ASSUME flag \in {"p", "r", "R", "T", "X"} PROVE t \in Seq(PiecesOf(flag, now, dated))
    <3>1. PICK from, size : from = tm /\ size = ClockSize[flag]
      OBVIOUS
    <3>2. size \in Nat
      BY <2>9, <3>1, TableSizes
    <3>3. from \in Tells /\ (flag \in dated => from = now)
      BY <1>3, <2>1, <3>1
    <3>4. t = Exactly(from, size)
      BY <2>9, <2>5, <3>1
    <3> QED
      BY <3>2, <3>3, <3>4, ExactlyOne
  <2> QED
    BY <1>1, <1>8, <2>6, <2>7, <2>8, <2>9
<1>9. CASE flag = "*"
  <2>1. t = Exactly(tm, 2)
    BY <1>4, <1>9, <1>10 DEF Elapsed
  <2>2. 2 \in Nat
    OBVIOUS
  <2>3. flag \in dated => tm = now
    BY <1>1
  <2> QED
    BY <1>1, <1>3, <2>1, <2>2, <2>3, ExactlyOne
<1> QED
  BY <1>5, <1>6, <1>7, <1>8, <1>9

----------------------------------------------------------------------------
(* A line in the making. *)

(* A line's record, by its fields.                                         *)
LEMMA LineFields ==
  ASSUME NEW now, NEW dated, NEW l \in LinesOf(now, dated)
  PROVE  /\ l = [fields |-> l.fields, size |-> l.size, range |-> l.range]
         /\ l.fields \in Seq(FieldsOfLine(now, dated)) /\ l.size \in Nat
         /\ l.range = <<l.range[1], l.range[2]>> /\ l.range[1] \in Nat /\ l.range[2] \in Nat
         /\ RangeMarked(l)
<1>1. RangeMarked(l) /\ l \in [fields : Seq(FieldsOfLine(now, dated)), size : Nat, range : Nat \X Nat]
  BY Zenon DEF LinesOf
<1>2. /\ l = [fields |-> l.fields, size |-> l.size, range |-> l.range]
      /\ l.fields \in Seq(FieldsOfLine(now, dated)) /\ l.size \in Nat /\ l.range \in Nat \X Nat
  BY <1>1
<1>3. PICK r : r = l.range
  OBVIOUS
<1>4. r \in Nat \X Nat
  BY <1>2, <1>3
<1>5. r = <<r[1], r[2]>> /\ r[1] \in Nat /\ r[2] \in Nat
  BY <1>4
<1> QED
  BY <1>1, <1>2, <1>3, <1>5, Zenon

(* What makes a record a line.                                             *)
LEMMA IsLine ==
  ASSUME NEW now, NEW dated, NEW fields \in Seq(FieldsOfLine(now, dated)), NEW size \in Nat,
         NEW r1 \in Nat, NEW r2 \in Nat,
         NEW l, l = [fields |-> fields, size |-> size, range |-> <<r1, r2>>], RangeMarked(l)
  PROVE  l \in LinesOf(now, dated)
<1>1. PICK r : r = <<r1, r2>>
  OBVIOUS
<1>2. r \in Nat \X Nat
  BY <1>1
<1>3. l \in [fields : Seq(FieldsOfLine(now, dated)), size : Nat, range : Nat \X Nat]
  BY <1>1, <1>2
<1> QED
  BY <1>3 DEF LinesOf

(* A field behind the others.                                              *)
LEMMA Behind ==
  ASSUME NEW S, NEW s \in Seq(S), NEW x \in S
  PROVE  /\ Append(s, x) \in Seq(S) /\ DOMAIN s = 1 .. Len(s) /\ Len(s) \in Nat
         /\ DOMAIN Append(s, x) = 1 .. Len(s) + 1
         /\ Append(s, x)[Len(s) + 1] = x
         /\ \A k \in DOMAIN s : k \in DOMAIN Append(s, x) /\ Append(s, x)[k] = s[k]
<1> QED
  OBVIOUS

(* A line with a field more, and the same range.                           *)
LEMMA FieldAdded ==
  ASSUME NEW now, NEW dated, NEW out \in LinesOf(now, dated), NEW x \in FieldsOfLine(now, dated),
         NEW size \in Nat, NEW l,
         l = [fields |-> Append(out.fields, x), size |-> size, range |-> out.range]
  PROVE  l \in LinesOf(now, dated)
<1>1. PICK s, t, r1, r2 : s = out.fields /\ t = Append(s, x) /\ r1 = out.range[1] /\ r2 = out.range[2]
  OBVIOUS
<1>2. s \in Seq(FieldsOfLine(now, dated)) /\ r1 \in Nat /\ r2 \in Nat /\ out.range = <<r1, r2>>
      /\ RangeMarked(out)
  BY <1>1, LineFields
<1>3. t \in Seq(FieldsOfLine(now, dated)) /\ \A k \in DOMAIN s : k \in DOMAIN t /\ t[k] = s[k]
  BY <1>1, <1>2, Behind
<1>4. l = [fields |-> t, size |-> size, range |-> <<r1, r2>>]
  BY <1>1, <1>2
<1>5. l.fields = t /\ l.range = <<r1, r2>> /\ l.range[1] = r1 /\ l.range[2] = r2
  BY <1>4
<1>6. RangeMarked(l)
  <2>1. \/ \E k \in DOMAIN s : s[k].flag = "+"
        \/ /\ r2 = 0 \/ \E k \in DOMAIN s : s[k].flag = "$" /\ s[k].first = r2
           /\ r1 = 0 \/ \E k \in DOMAIN s : s[k].flag = "^" /\ s[k].first = r1
    BY <1>1, <1>2, Zenon DEF RangeMarked
  <2>2. \/ \E k \in DOMAIN t : t[k].flag = "+"
        \/ /\ r2 = 0 \/ \E k \in DOMAIN t : t[k].flag = "$" /\ t[k].first = r2
           /\ r1 = 0 \/ \E k \in DOMAIN t : t[k].flag = "^" /\ t[k].first = r1
    BY <1>3, <2>1, Zenon
  <2> QED
    BY <1>5, <2>2, Zenon DEF RangeMarked
<1> QED
  BY <1>2, <1>3, <1>4, <1>6, IsLine

(* A formatter's fields.                                                   *)
LEMMA FormatterFields ==
  ASSUME NEW type, NEW f \in FormattersOf(type)
  PROVE  /\ f.flag \in FlagNames /\ f.pad \in Paddings /\ f.time \in Int
         /\ f.memo \in Tells /\ (f.flag \in Elapsed \cup {"raw"} => f.memo \in Nat)
         /\ f.flag = "+" => f.memo = ZeroTm \/ f.memo = Calendar(type, f.time)
<1> QED
  BY DEF FormattersOf

(* A line with a piece more.                                               *)
LEMMA ExtendedIsLine ==
  ASSUME NEW type, NEW f \in FormattersOf(type), NEW now, NEW dated,
         NEW out \in LinesOf(now, dated), NEW piece \in PiecesOf(f.flag, now, dated)
  PROVE  Extended(out, f, piece) \in LinesOf(now, dated)
<1>1. PICK size, first, flag, pad, from :
        size = SizeAfter(out.size, f.pad, piece) /\ first = out.size /\ flag = f.flag /\ pad = f.pad
        /\ from = piece.from
  OBVIOUS
<1>2. first \in Nat /\ flag \in FlagNames /\ pad \in Paddings
  BY <1>1, LineFields, FormatterFields
<1>3. /\ piece \in [from : Tells, claims : Nat, has : Nat] /\ from \in Tells
      /\ flag \in dated => from = now
      /\ Short(flag, now) \/ piece.has = piece.claims
  BY <1>1 DEF PiecesOf
<1>4. /\ size \in Nat
      /\ pad.enabled /\ piece.has = piece.claims =>
           size - first >= pad.width /\ (pad.truncate => size - first = pad.width)
  BY <1>1, <1>2, <1>3, SizeAfterIs
<1>5. PICK x : x = Field(flag, pad, from, first, size)
  OBVIOUS
<1>6. x = [flag |-> flag, pad |-> pad, from |-> from, first |-> first, last |-> size]
  BY <1>5 DEF Field
<1>7. x \in FieldsOfLine(now, dated)
  <2>1. x \in [flag : FlagNames, pad : Paddings, from : Tells, first : Nat, last : Nat]
    BY <1>2, <1>3, <1>4, <1>6
  <2>2. x.flag \in dated => x.from = now
    BY <1>3, <1>6
  <2>3. x.pad.enabled /\ ~Short(x.flag, now) =>
          x.last - x.first >= x.pad.width /\ (x.pad.truncate => x.last - x.first = x.pad.width)
    BY <1>3, <1>4, <1>6
  <2> QED
    BY <2>1, <2>2, <2>3, Zenon DEF FieldsOfLine
<1>8. PICK l : l = [fields |-> Append(out.fields, x), size |-> size, range |-> out.range]
  OBVIOUS
<1>9. Extended(out, f, piece) = [out EXCEPT !.fields = Append(@, x), !.size = size]
  BY <1>1, <1>5, Zenon DEF Extended
<1>10. out = [fields |-> out.fields, size |-> out.size, range |-> out.range]
  BY LineFields
<1>11. Extended(out, f, piece) = l
  BY <1>8, <1>9, <1>10
<1> QED
  BY <1>4, <1>7, <1>8, <1>11, FieldAdded

(* A line with all the pieces of a field.                                  *)
LEMMA WithPiecesIsLine ==
  ASSUME NEW type, NEW f \in FormattersOf(type), NEW now, NEW dated,
         NEW out \in LinesOf(now, dated), NEW pieces \in Seq(PiecesOf(f.flag, now, dated))
  PROVE  WithPieces(out, f, pieces) \in LinesOf(now, dated)
<1>1. PICK n, Values : n = Len(pieces) /\ Values = LinesOf(now, dated)
  OBVIOUS
<1>2. n \in Nat /\ out \in Values /\ \A k \in 1 .. n : pieces[k] \in PiecesOf(f.flag, now, dated)
  BY <1>1
<1>3. \A k \in 1 .. n, l \in Values : Extended(l, f, pieces[k]) \in Values
  BY <1>1, <1>2, ExtendedIsLine
<1>4. PICK step : step = [k \in 1 .. n |-> [l \in Values |-> Extended(l, f, pieces[k])]]
  OBVIOUS
<1>5. 0 \in 0 .. n /\ n \in 0 .. n
  BY <1>2
<1>14. step \in StepsOf(n, Values)
  BY <1>3, <1>4 DEF StepsOf
<1>15. n \in Nat /\ out \in Values
  BY <1>2
<1>16. PICK g : IsRun(g, n, Values, out, step)
  BY <1>14, <1>15, RunExists
<1>6. g \in [0 .. n -> Values] /\ g[0] = out /\ \A k \in 1 .. n : g[k] = step[k][g[k - 1]]
  BY <1>16 DEF IsRun
<1>7. g = [k \in 0 .. n |-> IF k = 0 THEN out ELSE Extended(g[k - 1], f, pieces[k])]
  <2>1. ASSUME NEW k \in 0 .. n PROVE g[k] = IF k = 0 THEN out ELSE Extended(g[k - 1], f, pieces[k])
    <3>1. CASE k = 0
      BY <1>6, <3>1
    <3>2. CASE k # 0
      <4>1. k \in 1 .. n /\ k - 1 \in 0 .. n
        BY <1>2, <3>2
      <4>2. g[k - 1] \in Values /\ g[k] = step[k][g[k - 1]]
        BY <1>6, <4>1
      <4>3. step[k][g[k - 1]] = Extended(g[k - 1], f, pieces[k])
        BY <1>4, <4>1, <4>2
      <4> QED
        BY <3>2, <4>2, <4>3
    <3> QED
      BY <3>1, <3>2
  <2> QED
    BY <1>6, <2>1
<1>8. PICK t : t = CHOOSE h : h = [k \in 0 .. n |-> IF k = 0 THEN out
                                                   ELSE Extended(h[k - 1], f, pieces[k])]
  OBVIOUS
<1>9. t = [k \in 0 .. n |-> IF k = 0 THEN out ELSE Extended(t[k - 1], f, pieces[k])]
  BY <1>7, <1>8, Zenon
<1>10. WithPieces(out, f, pieces) = t[n]
  BY <1>1, <1>8, Zenon DEF WithPieces
<1>11. t[0] = out
  BY <1>5, <1>9
<1>12. ASSUME NEW k \in 1 .. n, t[k - 1] \in Values PROVE t[k] = step[k][t[k - 1]]
  <2>1. k \in 0 .. n /\ k # 0
    BY <1>2
  <2>2. t[k] = Extended(t[k - 1], f, pieces[k])
    BY <1>9, <2>1
  <2>3. step[k][t[k - 1]] = Extended(t[k - 1], f, pieces[k])
    BY <1>4, <1>12
  <2> QED
    BY <2>2, <2>3
<1>17. Follows(t, n, Values, out, step)
  BY <1>11, <1>12 DEF Follows
<1>13. t[n] \in Values
  BY <1>14, <1>15, <1>17, RunStays
<1> QED
  BY <1>1, <1>10, <1>13

(* The pairs of a context have a size.                                     *)
LEMMA PairsHaveASize ==
  ASSUME NEW mdc \in Seq(Nat), NEW t,
         t = CHOOSE h : h = [k \in 0 .. Len(mdc) |-> IF k = 0 THEN 2 ELSE h[k - 1] + mdc[k] + 1]
  PROVE  Len(mdc) \in Nat /\ t[Len(mdc)] \in Nat
<1>10. PICK n : n = Len(mdc)
  OBVIOUS
<1>1. n \in Nat /\ \A k \in 1 .. n : mdc[k] \in Nat
  BY <1>10
<1>2. PICK step : step = [k \in 1 .. n |-> [size \in Nat |-> size + mdc[k] + 1]]
  OBVIOUS
<1>3. 0 \in 0 .. n /\ n \in 0 .. n /\ 2 \in Nat /\ n \in Nat
  BY <1>1
<1>11. step \in StepsOf(n, Nat)
  <2>1. \A k \in 1 .. n, size \in Nat : size + mdc[k] + 1 \in Nat
    BY <1>1
  <2> QED
    BY <1>2, <2>1 DEF StepsOf
<1>12. PICK g : IsRun(g, n, Nat, 2, step)
  BY <1>3, <1>11, RunExists
<1>4. g \in [0 .. n -> Nat] /\ g[0] = 2 /\ \A k \in 1 .. n : g[k] = step[k][g[k - 1]]
  BY <1>12 DEF IsRun
<1>5. g = [k \in 0 .. n |-> IF k = 0 THEN 2 ELSE g[k - 1] + mdc[k] + 1]
  <2>1. ASSUME NEW k \in 0 .. n PROVE g[k] = IF k = 0 THEN 2 ELSE g[k - 1] + mdc[k] + 1
    <3>1. CASE k = 0
      BY <1>4, <3>1
    <3>2. CASE k # 0
      <4>1. k \in 1 .. n /\ k - 1 \in 0 .. n
        BY <1>1, <3>2
      <4>2. g[k - 1] \in Nat /\ g[k] = step[k][g[k - 1]]
        BY <1>4, <4>1
      <4>3. step[k][g[k - 1]] = g[k - 1] + mdc[k] + 1
        BY <1>2, <4>1, <4>2
      <4> QED
        BY <3>2, <4>2, <4>3
    <3> QED
      BY <3>1, <3>2
  <2> QED
    BY <1>4, <2>1
<1>6. t = [k \in 0 .. n |-> IF k = 0 THEN 2 ELSE t[k - 1] + mdc[k] + 1]
  <2>1. t = CHOOSE h : h = [k \in 0 .. n |-> IF k = 0 THEN 2 ELSE h[k - 1] + mdc[k] + 1]
    BY <1>10, Zenon
  <2> QED
    BY <1>5, <2>1, Zenon
<1>7. t[0] = 2
  BY <1>3, <1>6
<1>8. ASSUME NEW k \in 1 .. n, t[k - 1] \in Nat PROVE t[k] = step[k][t[k - 1]]
  <2>1. k \in 0 .. n /\ k # 0
    BY <1>1
  <2>2. t[k] = t[k - 1] + mdc[k] + 1
    BY <1>6, <2>1
  <2>3. step[k][t[k - 1]] = t[k - 1] + mdc[k] + 1
    BY <1>2, <1>8
  <2> QED
    BY <2>2, <2>3
<1>13. Follows(t, n, Nat, 2, step)
  BY <1>7, <1>8 DEF Follows
<1>9. t[n] \in Nat
  BY <1>3, <1>11, <1>13, RunStays
<1> QED
  BY <1>3, <1>9, <1>10

(* A field of no padding.                                                  *)
LEMMA UnpaddedField ==
  ASSUME NEW now, NEW dated, NEW flag \in FlagNames, NEW from \in Tells, NEW first \in Nat,
         NEW last \in Nat, flag \in dated => from = now
  PROVE  /\ Field(flag, NoPad, from, first, last) \in FieldsOfLine(now, dated)
         /\ Field(flag, NoPad, from, first, last).flag = flag
         /\ Field(flag, NoPad, from, first, last).first = first
<1>1. PICK x, pad : pad = NoPad /\ x = Field(flag, pad, from, first, last)
  OBVIOUS
<1>2. x = [flag |-> flag, pad |-> pad, from |-> from, first |-> first, last |-> last]
  BY <1>1 DEF Field
<1>3. pad \in Paddings /\ ~pad.enabled
  BY <1>1 DEF NoPad, Paddings
<1>4. x \in [flag : FlagNames, pad : Paddings, from : Tells, first : Nat, last : Nat]
  BY <1>2, <1>3
<1>5. x.flag = flag /\ x.first = first /\ x.from = from /\ x.pad = pad
  BY <1>2
<1>6. x \in FieldsOfLine(now, dated)
  BY <1>3, <1>4, <1>5, Zenon DEF FieldsOfLine
<1> QED
  BY <1>1, <1>5, <1>6

(* A line with the date and time of %+, which marks its own range.         *)
LEMMA WithFullIsLine ==
  ASSUME NEW type, NEW f \in FormattersOf(type), NEW now, NEW dated, NEW msg \in Messages,
         NEW out \in LinesOf(now, dated), f.memo = now
  PROVE  WithFull(out, f, msg) \in LinesOf(now, dated)
<1> DEFINE name    == IF msg.logger > 0 THEN msg.logger + 3 ELSE 0
           first   == out.size + 26 + name + 1
           source  == IF msg.source = NoSource THEN 0 ELSE msg.source.base + msg.source.line + 4
           context == Len(msg.mdc)
           pairs[k \in 0 .. context] == IF k = 0 THEN 2 ELSE pairs[k - 1] + msg.mdc[k] + 1
           inPairs == IF context = 0 THEN 0 ELSE pairs[context]
           width   == LevelSize[msg.level]
           end     == first + width + 2 + source + inPairs + msg.size
<1>1. PICK level, last : level = first /\ last = end
  <2> HIDE DEF first, end
  <2> QED
    OBVIOUS
<1>14. WithFull(out, f, msg)
         = [out EXCEPT !.fields = Append(@, Field("+", NoPad, f.memo, out.size, end)),
                       !.size = end,
                       !.range = <<first, first + width>>]
  BY Zenon DEF WithFull
<1>16. WithFull(out, f, msg)
         = [out EXCEPT !.fields = Append(out.fields, Field("+", NoPad, f.memo, out.size, last)),
                       !.size = last,
                       !.range = <<level, level + width>>]
  <2> HIDE DEF first, end, width
  <2> QED
    BY <1>1, <1>14, Zenon
<1>2. inPairs \in Nat
  <2>1. msg.mdc \in Seq(Nat)
    BY MessageFields
  <2>2. PICK t : t = pairs
    OBVIOUS
  <2>3. t = CHOOSE h : h = [k \in 0 .. Len(msg.mdc) |-> IF k = 0 THEN 2 ELSE h[k - 1] + msg.mdc[k] + 1]
    BY <2>2, Zenon
  <2>4. Len(msg.mdc) \in Nat /\ t[Len(msg.mdc)] \in Nat
    BY <2>1, <2>3, PairsHaveASize, Zenon
  <2> HIDE DEF pairs
  <2> QED
    BY <2>2, <2>4
<1>3. msg.logger \in Nat /\ msg.size \in Nat /\ width \in Nat
  BY MessageFields, Zenon
<1>4. name \in Nat
  BY <1>3
<1>5. source \in Nat
  <2>1. msg.source \in Sources
    BY DEF Messages
  <2>2. msg.source.base \in Nat /\ msg.source.line \in Nat
    BY <2>1 DEF Sources
  <2> QED
    BY <2>2
<1>6. out.size \in Nat
  BY LineFields
<1> HIDE DEF name, source, inPairs, width
<1>7. level \in Nat /\ last \in Nat /\ level + width \in Nat
  BY <1>1, <1>2, <1>3, <1>4, <1>5, <1>6
<1>8. PICK x : x = Field("+", NoPad, f.memo, out.size, last)
  OBVIOUS
<1>9. x \in FieldsOfLine(now, dated) /\ x.flag = "+"
  <2>1. PICK plus, memo, size : plus = "+" /\ memo = f.memo /\ size = out.size
    OBVIOUS
  <2>2. plus \in FlagNames
    BY <2>1 DEF FlagNames, Builtin, LocalFlags
  <2>3. memo \in Tells
    BY <2>1, FormatterFields
  <2>7. plus \in dated => memo = now
    BY <2>1
  <2>4. x = Field(plus, NoPad, memo, size, last)
    BY <1>8, <2>1
  <2>5. size \in Nat /\ last \in Nat
    BY <1>6, <1>7, <2>1
  <2>6. x \in FieldsOfLine(now, dated) /\ x.flag = plus
    BY <2>2, <2>3, <2>4, <2>5, <2>7, UnpaddedField
  <2> QED
    BY <2>1, <2>6
<1>10. PICK s, m : s = Append(out.fields, x) /\ m = Len(out.fields) + 1
  OBVIOUS
<1>11. s \in Seq(FieldsOfLine(now, dated)) /\ m \in DOMAIN s /\ s[m] = x
  <2>1. out.fields \in Seq(FieldsOfLine(now, dated))
    BY LineFields
  <2> QED
    BY <1>9, <1>10, <2>1, Behind
<1>12. PICK l : l = [fields |-> s, size |-> last, range |-> <<level, level + width>>]
  OBVIOUS
<1>13. l \in LinesOf(now, dated)
  <2>1. l.fields = s
    BY <1>12
  <2>2. RangeMarked(l)
    BY <1>9, <1>11, <2>1, Zenon DEF RangeMarked
  <2> QED
    BY <1>7, <1>11, <1>12, <2>2, IsLine
<1>15. WithFull(out, f, msg) = l
  <2>1. out = [fields |-> out.fields, size |-> out.size, range |-> out.range]
    BY LineFields
  <2> QED
    BY <1>8, <1>10, <1>12, <1>16, <2>1
<1> QED
  BY <1>13, <1>15

(* A line with a mark: a field of no size, where the range begins or ends. *)
LEMMA MarkedIsLine ==
  ASSUME NEW type, NEW f \in FormattersOf(type), NEW now, NEW dated,
         dated \subseteq (LocalFlags \ {"z"}) \cup {"*"},
         NEW out \in LinesOf(now, dated)
  PROVE  /\ f.flag = "^" => Marked(out, f, 1) \in LinesOf(now, dated)
         /\ f.flag = "$" => Marked(out, f, 2) \in LinesOf(now, dated)
<1>1. PICK s, size, r1, r2, flag :
        s = out.fields /\ size = out.size /\ r1 = out.range[1] /\ r2 = out.range[2] /\ flag = f.flag
  OBVIOUS
<1>2. /\ s \in Seq(FieldsOfLine(now, dated)) /\ size \in Nat /\ r1 \in Nat /\ r2 \in Nat
      /\ out = [fields |-> s, size |-> size, range |-> <<r1, r2>>]
      /\ RangeMarked(out) /\ flag \in FlagNames
  BY <1>1, LineFields, FormatterFields
<1>3. PICK x : x = Field(flag, NoPad, 0, size, size)
  OBVIOUS
<1>4. PICK t, m : t = Append(s, x) /\ m = Len(s) + 1
  OBVIOUS
<1>5. ASSUME flag \in {"^", "$"}
      PROVE  /\ t \in Seq(FieldsOfLine(now, dated)) /\ m \in DOMAIN t /\ t[m] = x
             /\ x.flag = flag /\ x.first = size
             /\ \A k \in DOMAIN s : k \in DOMAIN t /\ t[k] = s[k]
  <2>1. flag \notin dated
    BY <1>5 DEF LocalFlags
  <2>2. 0 \in Tells
    BY DEF Tells
  <2>3. x \in FieldsOfLine(now, dated) /\ x.flag = flag /\ x.first = size
    BY <1>2, <1>3, <2>1, <2>2, UnpaddedField
  <2> QED
    BY <1>2, <1>4, <2>3, Behind
<1>6. \/ \E k \in DOMAIN s : s[k].flag = "+"
      \/ /\ r2 = 0 \/ \E k \in DOMAIN s : s[k].flag = "$" /\ s[k].first = r2
         /\ r1 = 0 \/ \E k \in DOMAIN s : s[k].flag = "^" /\ s[k].first = r1
  BY <1>1, <1>2, Zenon DEF RangeMarked
<1>7. ASSUME flag = "^" PROVE Marked(out, f, 1) \in LinesOf(now, dated)
  <2>1. PICK l : l = [fields |-> t, size |-> size, range |-> <<size, r2>>]
    OBVIOUS
  <2>2. /\ t \in Seq(FieldsOfLine(now, dated)) /\ m \in DOMAIN t /\ t[m].flag = "^" /\ t[m].first = size
        /\ \A k \in DOMAIN s : k \in DOMAIN t /\ t[k] = s[k]
    BY <1>5, <1>7
  <2>3. l.fields = t /\ l.range[1] = size /\ l.range[2] = r2
    BY <2>1
  <2>4. \/ \E k \in DOMAIN t : t[k].flag = "+"
        \/ r2 = 0 \/ \E k \in DOMAIN t : t[k].flag = "$" /\ t[k].first = r2
    BY <1>6, <2>2, Zenon
  <2>5. RangeMarked(l)
    BY <2>2, <2>3, <2>4, Zenon DEF RangeMarked
  <2>6. l \in LinesOf(now, dated)
    BY <1>2, <2>1, <2>2, <2>5, IsLine
  <2>7. PICK r : r = [out.range EXCEPT ![1] = out.size]
    OBVIOUS
  <2>8. r = <<size, r2>>
    <3>1. out.range = <<r1, r2>> /\ out.size = size
      BY <1>1, <1>2
    <3> QED
      BY <1>2, <2>7, <3>1
  <2>9. Marked(out, f, 1) = [out EXCEPT !.fields = t, !.range = r]
    BY <1>1, <1>3, <1>4, <2>7, Zenon DEF Marked
  <2>10. Marked(out, f, 1) = l
    BY <1>2, <2>1, <2>8, <2>9
  <2> QED
    BY <2>6, <2>10
<1>8. ASSUME flag = "$" PROVE Marked(out, f, 2) \in LinesOf(now, dated)
  <2>1. PICK l : l = [fields |-> t, size |-> size, range |-> <<r1, size>>]
    OBVIOUS
  <2>2. /\ t \in Seq(FieldsOfLine(now, dated)) /\ m \in DOMAIN t /\ t[m].flag = "$" /\ t[m].first = size
        /\ \A k \in DOMAIN s : k \in DOMAIN t /\ t[k] = s[k]
    BY <1>5, <1>8
  <2>3. l.fields = t /\ l.range[1] = r1 /\ l.range[2] = size
    BY <2>1
  <2>4. \/ \E k \in DOMAIN t : t[k].flag = "+"
        \/ r1 = 0 \/ \E k \in DOMAIN t : t[k].flag = "^" /\ t[k].first = r1
    BY <1>6, <2>2, Zenon
  <2>5. RangeMarked(l)
    BY <2>2, <2>3, <2>4, Zenon DEF RangeMarked
  <2>6. l \in LinesOf(now, dated)
    BY <1>2, <2>1, <2>2, <2>5, IsLine
  <2>7. PICK r : r = [out.range EXCEPT ![2] = out.size]
    OBVIOUS
  <2>8. r = <<r1, size>>
    <3>1. out.range = <<r1, r2>> /\ out.size = size
      BY <1>1, <1>2
    <3> QED
      BY <1>2, <2>7, <3>1
  <2>9. Marked(out, f, 2) = [out EXCEPT !.fields = t, !.range = r]
    BY <1>1, <1>3, <1>4, <2>7, Zenon DEF Marked
  <2>10. Marked(out, f, 2) = l
    BY <1>2, <2>1, <2>8, <2>9
  <2> QED
    BY <2>6, <2>10
<1> QED
  BY <1>1, <1>7, <1>8

(* A line with what a flag adds to it.                                     *)
LEMMA AppendedIsLine ==
  ASSUME NEW type, NEW f \in FormattersOf(type), NEW tm \in CalendarTimes, NEW msg \in Messages,
         NEW now, NEW dated, dated \subseteq (LocalFlags \ {"z"}) \cup {"*"},
         NEW out \in LinesOf(now, dated),
         f.flag \in LocalFlags \cup dated => tm = now,
         f.flag = "+" => f.memo = now
  PROVE  Appended(out, f, tm, msg) \in LinesOf(now, dated)
<1>1. PICK flag, a, p : flag = f.flag /\ a = Appended(out, f, tm, msg) /\ p = Pieces(f, tm, msg)
  OBVIOUS
<1>2. a = CASE flag = "^" -> Marked(out, f, 1)
            [] flag = "$" -> Marked(out, f, 2)
            [] flag = "+" -> WithFull(out, f, msg)
            [] OTHER      -> WithPieces(out, f, p)
  BY <1>1, Zenon DEF Appended
<1>3. CASE flag \notin {"^", "$", "+"}
  <2>1. a = WithPieces(out, f, p)
    BY <1>2, <1>3
  <2>2. p \in Seq(PiecesOf(f.flag, now, dated))
    BY <1>1, <1>3, PiecesAre
  <2> QED
    BY <1>1, <2>1, <2>2, WithPiecesIsLine
<1>4. CASE flag = "^"
  <2>1. a = Marked(out, f, 1)
    BY <1>2, <1>4
  <2>2. Marked(out, f, 1) \in LinesOf(now, dated)
    BY <1>1, <1>4, MarkedIsLine
  <2> QED
    BY <1>1, <2>1, <2>2
<1>5. CASE flag = "$"
  <2>1. a = Marked(out, f, 2)
    BY <1>2, <1>5
  <2>2. Marked(out, f, 2) \in LinesOf(now, dated)
    BY <1>1, <1>5, MarkedIsLine
  <2> QED
    BY <1>1, <2>1, <2>2
<1>6. CASE flag = "+"
  BY <1>1, <1>2, <1>6, WithFullIsLine
<1> QED
  BY <1>3, <1>4, <1>5, <1>6

----------------------------------------------------------------------------
(* What a formatter remembers. *)

(* The calendar time of the last second is that second's, and whoever      *)
(* writes a calendar time has it looked up; so is it for a clone, which    *)
(* compiles the pattern again.                                             *)
FormatterInv(h) ==
  /\ h = [pattern |-> h.pattern, type |-> h.type, custom |-> h.custom,
          needLocaltime |-> h.needLocaltime, cachedTm |-> h.cachedTm,
          lastLogSecs |-> h.lastLogSecs, formatters |-> h.formatters]
  /\ IsPattern(h.pattern) /\ h.type \in Types \cup {"local"} /\ h.custom \subseteq {"*"}
  /\ h.cachedTm \in CalendarTimes
  /\ h.lastLogSecs # 0 => h.cachedTm = Calendar(h.type, h.lastLogSecs)
  /\ h.formatters \in Seq(FormattersOf(h.type))
  /\ \A k \in DOMAIN h.formatters : h.formatters[k].flag \in LocalFlags => h.needLocaltime
  /\ \A k \in DOMAIN h.pattern : h.pattern[k].flag \in LocalFlags \ h.custom => h.needLocaltime

(* What a flag remembers after a message is of that message, or of its     *)
(* second.                                                                 *)
LEMMA RemembersTheMessage ==
  ASSUME NEW type, NEW f \in FormattersOf(type), NEW tm \in CalendarTimes, NEW msg \in Messages,
         NEW now, now = Calendar(type, SecondOf(msg.time)),
         f.flag \in LocalFlags => tm = now
  PROVE  /\ Remembering(f, tm, msg) \in FormattersOf(type)
         /\ Remembering(f, tm, msg).flag = f.flag
         /\ f.flag = "+" => Remembering(f, tm, msg).memo = now
<1>1. PICK flag, pad, time, memo, g :
        flag = f.flag /\ pad = f.pad /\ time = f.time /\ memo = f.memo /\ g = Remembering(f, tm, msg)
  OBVIOUS
<1>2. /\ flag \in FlagNames /\ pad \in Paddings /\ time \in Int /\ memo \in Tells
      /\ flag \in Elapsed \cup {"raw"} => memo \in Nat
      /\ flag = "+" => memo = ZeroTm \/ memo = Calendar(type, time)
  BY <1>1, FormatterFields
<1>3. f = [flag |-> flag, pad |-> pad, time |-> time, memo |-> memo]
  BY <1>1 DEF FormattersOf
<1>4. PICK at, secs : at = msg.time /\ secs = SecondOf(msg.time)
  OBVIOUS
<1>5. at \in Int /\ secs \in Int
  <2>1. at \in Int
    BY <1>4, MessageFields
  <2>2. secs = at \div Second
    BY <1>4 DEF SecondOf
  <2>3. Second \in Nat \ {0}
    BY FormatterAssumption
  <2> QED
    BY <2>1, <2>2, <2>3
<1>6. g = CASE flag = "z"       -> CachedOffset(f, tm, msg)
            [] flag \in Elapsed -> SinceLast(f, msg)
            [] flag = "+"       -> CachedDatetime(f, tm, msg)
            [] OTHER            -> f
  BY <1>1, Zenon DEF Remembering
<1>7. CASE flag = "z"
  <2>1. g = CachedOffset(f, tm, msg)
    BY <1>6, <1>7 DEF Elapsed
  <2>2. g = f \/ g = [f EXCEPT !.memo = tm.offset, !.time = at]
    BY <1>4, <2>1, Zenon DEF CachedOffset
  <2>3. CASE g = f
    BY <1>1, <1>7, <2>3
  <2>4. CASE g = [f EXCEPT !.memo = tm.offset, !.time = at]
    <3>1. PICK offset : offset = tm.offset
      OBVIOUS
    <3>2. offset \in Int
      BY <3>1 DEF CalendarTimes
    <3>3. g = [flag |-> flag, pad |-> pad, time |-> at, memo |-> offset]
      BY <1>3, <2>4, <3>1
    <3>4. g.flag = flag /\ g.memo = offset /\ g.time = at
      BY <3>3
    <3>5. g \in [flag : FlagNames, pad : Paddings, time : Int, memo : Tells]
      BY <1>2, <1>5, <3>2, <3>3 DEF Tells
    <3>6. g \in FormattersOf(type)
      BY <1>7, <3>4, <3>5 DEF FormattersOf, Elapsed
    <3> QED
      BY <1>1, <1>7, <3>4, <3>6
  <2> QED
    BY <2>2, <2>3, <2>4
<1>8. CASE flag \in Elapsed
  <2>1. g = SinceLast(f, msg)
    BY <1>6, <1>8 DEF Elapsed
  <2>2. PICK since : since = Larger(at - time, 0)
    OBVIOUS
  <2>3. since \in Nat
    BY <1>2, <1>5, <2>2 DEF Larger
  <2>4. g = [f EXCEPT !.memo = since, !.time = at]
    BY <1>1, <1>4, <2>1, <2>2, Zenon DEF SinceLast
  <2>5. g = [flag |-> flag, pad |-> pad, time |-> at, memo |-> since]
    BY <1>3, <2>4
  <2>6. g.flag = flag /\ g.memo = since /\ g.time = at
    BY <2>5
  <2>7. g \in [flag : FlagNames, pad : Paddings, time : Int, memo : Tells]
    BY <1>2, <1>5, <2>3, <2>5 DEF Tells
  <2>8. g \in FormattersOf(type)
    BY <1>8, <2>3, <2>6, <2>7 DEF FormattersOf, Elapsed
  <2> QED
    BY <1>1, <1>8, <2>6, <2>8 DEF Elapsed
<1>9. CASE flag = "+"
  <2>1. g = CachedDatetime(f, tm, msg) /\ tm = now /\ now = Calendar(type, secs)
    BY <1>1, <1>4, <1>6, <1>9 DEF Elapsed, LocalFlags
  <2>2. \/ g = [f EXCEPT !.memo = tm, !.time = secs]
        \/ g = f /\ time = secs /\ memo # ZeroTm
    BY <1>1, <1>4, <2>1, Zenon DEF CachedDatetime
  <2>3. CASE g = f /\ time = secs /\ memo # ZeroTm
    BY <1>1, <1>2, <1>9, <2>1, <2>3
  <2>4. CASE g = [f EXCEPT !.memo = tm, !.time = secs]
    <3>1. g = [flag |-> flag, pad |-> pad, time |-> secs, memo |-> tm]
      BY <1>3, <2>4
    <3>2. g.flag = flag /\ g.memo = tm /\ g.time = secs
      BY <3>1
    <3>3. tm \in Tells
      BY DEF Tells
    <3>4. g \in [flag : FlagNames, pad : Paddings, time : Int, memo : Tells]
      BY <1>2, <1>5, <3>1, <3>3
    <3>5. g \in FormattersOf(type)
      BY <1>9, <2>1, <3>2, <3>4 DEF FormattersOf, Elapsed
    <3> QED
      BY <1>1, <2>1, <3>2, <3>5
  <2> QED
    BY <2>2, <2>3, <2>4
<1>10. CASE flag \notin {"z", "+"} \cup Elapsed
  BY <1>1, <1>6, <1>10
<1> QED
  BY <1>7, <1>8, <1>9, <1>10

(* When a message is formatted, the calendar time is looked up, or it is   *)
(* that of the same second.                                                *)
LEMMA RefreshedForTheMessage ==
  ASSUME NEW h, FormatterInv(h), NEW msg \in Messages, NEW r, r = Refreshed(h, msg)
  PROVE  /\ FormatterInv(r) /\ r.type = h.type /\ (r.needLocaltime <=> h.needLocaltime)
         /\ h.needLocaltime => r.cachedTm = Calendar(h.type, SecondOf(msg.time))
<1>1. PICK secs, tm : secs = SecondOf(msg.time) /\ tm = Calendar(h.type, secs)
  OBVIOUS
<1>2. secs # 0
  <2>1. PICK time : time = msg.time
    OBVIOUS
  <2>2. time \in Times
    BY <2>1 DEF Messages
  <2>3. time \in Nat /\ time >= Second
    BY <2>2, Clocks
  <2>4. Second \in Nat \ {0}
    BY FormatterAssumption
  <2>5. secs = time \div Second
    BY <1>1, <2>1 DEF SecondOf
  <2> QED
    BY <2>3, <2>4, <2>5
<1>3. tm \in CalendarTimes
  <2>1. msg.time \in Times
    BY DEF Messages
  <2>2. h.type \in Types \cup {"local"}
    BY DEF FormatterInv
  <2> QED
    BY <1>1, <2>1, <2>2, Clocks
<1>4. \/ r = h /\ (h.needLocaltime => secs = h.lastLogSecs)
      \/ r = [h EXCEPT !.cachedTm = tm, !.lastLogSecs = secs]
  BY <1>1, Zenon DEF Refreshed, SecondPassed
<1>5. CASE r = h /\ (h.needLocaltime => secs = h.lastLogSecs)
  BY <1>1, <1>2, <1>5 DEF FormatterInv
<1>6. CASE r = [h EXCEPT !.cachedTm = tm, !.lastLogSecs = secs]
  <2>1. h = [pattern |-> h.pattern, type |-> h.type, custom |-> h.custom,
             needLocaltime |-> h.needLocaltime, cachedTm |-> h.cachedTm,
             lastLogSecs |-> h.lastLogSecs, formatters |-> h.formatters]
    BY Zenon DEF FormatterInv
  <2>2. r = [pattern |-> h.pattern, type |-> h.type, custom |-> h.custom,
             needLocaltime |-> h.needLocaltime, cachedTm |-> tm,
             lastLogSecs |-> secs, formatters |-> h.formatters]
    BY <1>6, <2>1
  <2>3. /\ r.pattern = h.pattern /\ r.type = h.type /\ r.custom = h.custom
        /\ r.needLocaltime = h.needLocaltime /\ r.cachedTm = tm /\ r.lastLogSecs = secs
        /\ r.formatters = h.formatters
    BY <2>2
  <2>4. r = [pattern |-> r.pattern, type |-> r.type, custom |-> r.custom,
             needLocaltime |-> r.needLocaltime, cachedTm |-> r.cachedTm,
             lastLogSecs |-> r.lastLogSecs, formatters |-> r.formatters]
    BY <2>2, <2>3, Zenon
  <2>5. FormatterInv(r)
    BY <1>1, <1>3, <2>3, <2>4, Zenon DEF FormatterInv
  <2> QED
    BY <1>1, <2>3, <2>5, Zenon
<1> QED
  BY <1>4, <1>5, <1>6

(* The flag formatters of a pattern: those that write a calendar time are  *)
(* of flags of the pattern, that are not the application's.                *)
CompiledOf(type, pattern, custom) ==
  {f \in FormattersOf(type) :
     f.flag \in LocalFlags => \E k \in DOMAIN pattern : pattern[k].flag = f.flag /\ f.flag \notin custom}

(* One flag formatter.                                                     *)
LEMMA OneCompiled ==
  ASSUME NEW type, NEW pattern, NEW custom, NEW flag \in FlagNames, NEW pad \in Paddings,
         NEW time \in Int, NEW memo \in Tells,
         flag \in Elapsed \cup {"raw"} => memo \in Nat,
         flag = "+" => memo = ZeroTm,
         flag \in LocalFlags => \E k \in DOMAIN pattern : pattern[k].flag = flag /\ flag \notin custom
  PROVE  FlagFormatter(flag, pad, time, memo) \in CompiledOf(type, pattern, custom)
<1>1. PICK f : f = FlagFormatter(flag, pad, time, memo)
  OBVIOUS
<1>2. f = [flag |-> flag, pad |-> pad, time |-> time, memo |-> memo]
  BY <1>1 DEF FlagFormatter
<1>3. f.flag = flag /\ f.memo = memo /\ f.time = time
  BY <1>2
<1>4. f \in [flag : FlagNames, pad : Paddings, time : Int, memo : Tells]
  BY <1>2
<1>5. f \in FormattersOf(type)
  BY <1>3, <1>4, Zenon DEF FormattersOf
<1> QED
  BY <1>1, <1>3, <1>5, Zenon DEF CompiledOf

(* What stands for characters.                                             *)
LEMMA RawCompiled ==
  ASSUME NEW type, NEW pattern, NEW custom, NEW size \in Nat
  PROVE  Raw(size) \in CompiledOf(type, pattern, custom)
<1>1. PICK flag, pad : flag = "raw" /\ pad = NoPad
  OBVIOUS
<1>2. flag \in FlagNames /\ flag \notin LocalFlags /\ flag # "+" /\ pad \in Paddings
  BY <1>1 DEF FlagNames, LocalFlags, NoPad, Paddings
<1>3. 0 \in Int /\ size \in Tells
  BY DEF Tells
<1>4. FlagFormatter(flag, pad, 0, size) \in CompiledOf(type, pattern, custom)
  BY <1>2, <1>3, OneCompiled
<1> QED
  BY <1>1, <1>4, Zenon DEF Raw

(* The flag formatters of a flag of the pattern.                           *)
LEMMA FlagCompiled ==
  ASSUME NEW type, NEW pattern, NEW custom, custom \subseteq {"*"}, NEW now \in Int,
         NEW pad \in Paddings, NEW i \in DOMAIN pattern, NEW flag, flag = pattern[i].flag
  PROVE  HandleFlag(flag, pad, custom, now) \in Seq(CompiledOf(type, pattern, custom))
<1>1. PICK t, C : t = HandleFlag(flag, pad, custom, now) /\ C = CompiledOf(type, pattern, custom)
  OBVIOUS
<1>2. t = CASE flag \in custom            -> <<FlagFormatter(flag, NoPad, 0, 0)>>
            [] flag \in Elapsed \ custom  -> <<FlagFormatter(flag, pad, now, 0)>>
            [] flag \in {"+"} \ custom    -> <<FlagFormatter(flag, pad, 0, ZeroTm)>>
            [] flag \in Builtin \ (custom \cup Elapsed \cup {"+"}) -> <<FlagFormatter(flag, pad, 0, 0)>>
            [] flag = "%"                 -> <<Raw(1)>>
            [] OTHER                      -> Unknown(pad)
  BY <1>1, Zenon DEF HandleFlag
<1>3. 0 \in Int /\ 0 \in Tells /\ 0 \in Nat /\ 1 \in Nat /\ 2 \in Nat /\ NoPad \in Paddings
  BY DEF Tells, NoPad, Paddings
<1>4. "*" \notin LocalFlags \cup Elapsed \cup {"+", "%"} \cup Builtin
  BY Tables DEF Builtin, LocalFlags, Elapsed
<1>5. "%" \notin Builtin \cup Elapsed \cup {"+"}
  BY Tables DEF Builtin, LocalFlags, Elapsed
<1>6. Builtin \subseteq FlagNames /\ Elapsed \subseteq Builtin /\ "+" \in Builtin /\ "*" \in FlagNames
  BY DEF FlagNames, Builtin, LocalFlags
<1>7. CASE flag \in custom
  <2>1. flag = "*" /\ flag \notin LocalFlags \cup Elapsed \cup {"+", "raw"} /\ flag \in FlagNames
    BY <1>4, <1>6, <1>7
  <2>2. t = <<FlagFormatter(flag, NoPad, 0, 0)>>
    BY <1>2, <1>4, <1>7, <2>1
  <2>3. FlagFormatter(flag, NoPad, 0, 0) \in C
    BY <1>1, <1>3, <2>1, OneCompiled
  <2> QED
    BY <1>1, <2>2, <2>3
<1>8. CASE flag \in Elapsed \ custom
  <2>1. flag \notin LocalFlags \cup {"+", "%"}
    BY <1>8 DEF Elapsed, LocalFlags
  <2>2. t = <<FlagFormatter(flag, pad, now, 0)>>
    BY <1>2, <1>8, <2>1
  <2>3. flag \in FlagNames
    BY <1>6, <1>8
  <2>4. FlagFormatter(flag, pad, now, 0) \in C
    BY <1>1, <1>3, <2>1, <2>3, OneCompiled
  <2> QED
    BY <1>1, <2>2, <2>4
<1>9. CASE flag \in {"+"} \ custom
  <2>1. flag \notin Elapsed \cup {"raw"} /\ flag \in FlagNames
    BY <1>6, <1>9 DEF Elapsed
  <2>2. t = <<FlagFormatter(flag, pad, 0, ZeroTm)>>
    BY <1>2, <1>9, <2>1
  <2>3. PICK zero : zero = ZeroTm
    OBVIOUS
  <2>4. zero \in Tells
    BY <2>3 DEF ZeroTm, Tells, CalendarTimes
  <2>5. \E k \in DOMAIN pattern : pattern[k].flag = flag /\ flag \notin custom
    BY <1>9
  <2>6. FlagFormatter(flag, pad, 0, zero) \in C
    BY <1>1, <1>3, <2>1, <2>3, <2>4, <2>5, OneCompiled
  <2> QED
    BY <1>1, <2>2, <2>3, <2>6
<1>10. CASE flag \in Builtin \ (custom \cup Elapsed \cup {"+"})
  <2>1. t = <<FlagFormatter(flag, pad, 0, 0)>>
    BY <1>2, <1>5, <1>10
  <2>2. flag \in FlagNames /\ flag # "+"
    BY <1>6, <1>10
  <2>3. \E k \in DOMAIN pattern : pattern[k].flag = flag /\ flag \notin custom
    BY <1>10
  <2>4. FlagFormatter(flag, pad, 0, 0) \in C
    BY <1>1, <1>3, <2>2, <2>3, OneCompiled
  <2> QED
    BY <1>1, <2>1, <2>4
<1>11. CASE flag \notin custom \cup Builtin
  <2>1. flag \notin Elapsed /\ flag # "+"
    BY <1>6, <1>11
  <2>2. t = <<Raw(1)>> \/ t = Unknown(pad)
    BY <1>2, <1>11, <2>1
  <2>3. Raw(1) \in C /\ Raw(2) \in C
    BY <1>1, <1>3, RawCompiled
  <2>4. CASE t = <<Raw(1)>>
    BY <1>1, <2>3, <2>4
  <2>5. CASE t = Unknown(pad)
    <3>1. PICK f, p : p = [pad EXCEPT !.truncate = FALSE] /\ f = FlagFormatter("!", p, 0, 0)
      OBVIOUS
    <3>2. t = <<f, Raw(1)>> \/ t = <<Raw(2)>>
      BY <2>5, <3>1, Zenon DEF Unknown
    <3>3. p \in Paddings
      BY <3>1 DEF Paddings
    <3>4. PICK name : name = "!"
      OBVIOUS
    <3>5. name \in FlagNames /\ name \notin LocalFlags \cup Elapsed \cup {"+", "raw"}
      BY <3>4 DEF FlagNames, Builtin, LocalFlags, Elapsed
    <3>6. f \in C
      <4>1. FlagFormatter(name, p, 0, 0) \in C
        BY <1>1, <1>3, <3>3, <3>5, OneCompiled
      <4> QED
        BY <3>1, <3>4, <4>1
    <3>7. <<f, Raw(1)>> \in Seq(C) /\ <<Raw(2)>> \in Seq(C)
      BY <2>3, <3>6
    <3> QED
      BY <1>1, <3>2, <3>7
  <2> QED
    BY <2>2, <2>4, <2>5
<1> QED
  BY <1>7, <1>8, <1>9, <1>10, <1>11

(* A pattern, compiled.                                                    *)
LEMMA PatternCompiled ==
  ASSUME NEW type, NEW pattern, NEW custom, NEW now, IsPattern(pattern), custom \subseteq {"*"},
         now \in Int
  PROVE  CompilePattern(pattern, custom, now) \in Seq(CompiledOf(type, pattern, custom))
<1> DEFINE compiled(item) ==
             CASE item.flag = "chars" -> <<Raw(item.size)>>
               [] item.flag = "end"   -> <<>>
               [] OTHER -> HandleFlag(item.flag, HandlePadspec(item.spec), custom, now)
           upTo[k \in 0 .. Len(pattern)] ==
             IF k = 0 THEN <<>> ELSE upTo[k - 1] \o compiled(pattern[k])
<1>1. CompilePattern(pattern, custom, now) = upTo[Len(pattern)]
  BY Zenon DEF CompilePattern
<1>2. PICK t, n, Values : t = upTo /\ n = Len(pattern) /\ Values = Seq(CompiledOf(type, pattern, custom))
  OBVIOUS
<1>3. t = CHOOSE g : g = [k \in 0 .. Len(pattern) |->
                            IF k = 0 THEN <<>> ELSE g[k - 1] \o compiled(pattern[k])]
  BY <1>2, Zenon
<1>4. /\ n \in Nat /\ DOMAIN pattern = 1 .. n
      /\ \A k \in DOMAIN pattern : pattern[k].spec \in Paddings /\ pattern[k].size \in Nat
  <2>1. PICK S : S = {pattern[k] : k \in DOMAIN pattern}
    OBVIOUS
  <2>2. pattern \in Seq(S)
    BY <2>1, Zenon DEF IsPattern
  <2>3. n \in Nat /\ DOMAIN pattern = 1 .. n
    BY <1>2, <2>2
  <2> QED
    BY <2>3, Zenon DEF IsPattern
<1>5. ASSUME NEW k \in 1 .. n PROVE compiled(pattern[k]) \in Values
  <2>1. PICK item : item = pattern[k]
    OBVIOUS
  <2>2. k \in DOMAIN pattern
    BY <1>4
  <2>3. item.spec \in Paddings /\ item.size \in Nat
    BY <1>4, <2>1, <2>2
  <2>4. HandlePadspec(item.spec) \in Paddings
    <3>1. PICK spec, width : spec = item.spec /\ width = Smaller(spec.width, MaxWidth)
      OBVIOUS
    <3>2. width \in Nat
      <4>1. spec.width \in Nat
        BY <2>3, <3>1, PaddingFields
      <4> QED
        BY <3>1, <4>1, FormatterAssumption DEF Smaller
    <3>3. HandlePadspec(spec) = [spec EXCEPT !.width = width]
      BY <3>1, Zenon DEF HandlePadspec
    <3>4. [spec EXCEPT !.width = width] \in Paddings
      BY <2>3, <3>1, <3>2 DEF Paddings
    <3> QED
      BY <3>1, <3>3, <3>4
  <2>5. HandleFlag(item.flag, HandlePadspec(item.spec), custom, now) \in Values
    BY <1>2, <2>1, <2>2, <2>4, FlagCompiled
  <2>6. <<Raw(item.size)>> \in Values
    <3>1. Raw(item.size) \in CompiledOf(type, pattern, custom)
      BY <2>3, RawCompiled
    <3> QED
      BY <1>2, <3>1
  <2>7. <<>> \in Values
    BY <1>2
  <2>8. compiled(item) \in Values
    BY <2>5, <2>6, <2>7
  <2> QED
    BY <2>1, <2>8
<1>6. PICK c : c = [k \in 1 .. n |-> compiled(pattern[k])]
  OBVIOUS
<1> HIDE DEF compiled, upTo
<1>7. \A k \in 1 .. n, s \in Values : s \o c[k] \in Values
  BY <1>2, <1>5, <1>6
<1>8. PICK step : step = [k \in 1 .. n |-> [s \in Values |-> s \o c[k]]]
  OBVIOUS
<1>9. step \in StepsOf(n, Values)
  BY <1>7, <1>8 DEF StepsOf
<1>10. PICK none : none = <<>>
  OBVIOUS
<1>11. none \in Values /\ n \in Nat /\ 0 \in 0 .. n
  BY <1>2, <1>4, <1>10
<1>12. PICK g : IsRun(g, n, Values, none, step)
  BY <1>9, <1>11, RunExists
<1>13. g \in [0 .. n -> Values] /\ g[0] = none /\ \A k \in 1 .. n : g[k] = step[k][g[k - 1]]
  BY <1>12 DEF IsRun
<1>14. g = [k \in 0 .. n |-> IF k = 0 THEN none ELSE g[k - 1] \o compiled(pattern[k])]
  <2>1. ASSUME NEW k \in 0 .. n
        PROVE  g[k] = IF k = 0 THEN none ELSE g[k - 1] \o compiled(pattern[k])
    <3>1. CASE k = 0
      BY <1>13, <3>1
    <3>2. CASE k # 0
      <4>1. k \in 1 .. n /\ k - 1 \in 0 .. n
        BY <1>4, <3>2
      <4>2. g[k - 1] \in Values /\ g[k] = step[k][g[k - 1]]
        BY <1>13, <4>1
      <4>3. step[k][g[k - 1]] = g[k - 1] \o c[k]
        BY <1>8, <4>1, <4>2
      <4>4. c[k] = compiled(pattern[k])
        BY <1>6, <4>1
      <4> QED
        BY <3>2, <4>2, <4>3, <4>4
    <3> QED
      BY <3>1, <3>2
  <2> QED
    BY <1>13, <2>1
<1>15. t = [k \in 0 .. n |-> IF k = 0 THEN none ELSE t[k - 1] \o compiled(pattern[k])]
  <2>1. t = CHOOSE h : h = [k \in 0 .. n |-> IF k = 0 THEN none ELSE h[k - 1] \o compiled(pattern[k])]
    BY <1>2, <1>3, <1>10, Zenon
  <2> QED
    BY <1>14, <2>1, Zenon
<1>16. t[0] = none
  BY <1>11, <1>15
<1>17. ASSUME NEW k \in 1 .. n, t[k - 1] \in Values PROVE t[k] = step[k][t[k - 1]]
  <2>1. k \in 0 .. n /\ k # 0
    BY <1>4
  <2>2. t[k] = t[k - 1] \o compiled(pattern[k])
    BY <1>15, <2>1
  <2>3. step[k][t[k - 1]] = t[k - 1] \o c[k]
    BY <1>8, <1>17
  <2>4. c[k] = compiled(pattern[k])
    BY <1>6
  <2> QED
    BY <2>2, <2>3, <2>4
<1>18. Follows(t, n, Values, none, step)
  BY <1>16, <1>17 DEF Follows
<1>19. t[n] \in Values
  BY <1>9, <1>11, <1>18, RunStays
<1> QED
  BY <1>1, <1>2, <1>19

----------------------------------------------------------------------------
(* How formatters are made. *)

(* The record of a formatter.                                              *)
FormatterOf(pattern, type, custom, need, tm, secs, formatters) ==
  [pattern |-> pattern, type |-> type, custom |-> custom, needLocaltime |-> need,
   cachedTm |-> tm, lastLogSecs |-> secs, formatters |-> formatters]

(* What a formatter has, that is made of a pattern.                        *)
IsMadeOf(h, pattern, type, custom, need, tm, secs, formatters) ==
  /\ h = FormatterOf(pattern, type, custom, need, tm, secs, formatters)
  /\ IsPattern(pattern) /\ type \in Types \cup {"local"} /\ custom \subseteq {"*"}
  /\ \A k \in DOMAIN pattern : pattern[k].flag \in LocalFlags \ custom => need = TRUE
  /\ tm \in CalendarTimes /\ (secs # 0 => tm = Calendar(type, secs))
  /\ formatters \in Seq(CompiledOf(type, pattern, custom))

(* Its fields.                                                             *)
LEMMA FieldsOfFormatter ==
  ASSUME NEW pattern, NEW type, NEW custom, NEW need, NEW tm, NEW secs, NEW formatters,
         NEW h, h = FormatterOf(pattern, type, custom, need, tm, secs, formatters)
  PROVE  /\ h.pattern = pattern /\ h.type = type /\ h.custom = custom /\ h.needLocaltime = need
         /\ h.cachedTm = tm /\ h.lastLogSecs = secs /\ h.formatters = formatters
         /\ h = [pattern |-> h.pattern, type |-> h.type, custom |-> h.custom,
                 needLocaltime |-> h.needLocaltime, cachedTm |-> h.cachedTm,
                 lastLogSecs |-> h.lastLogSecs, formatters |-> h.formatters]
<1>1. h = [pattern |-> pattern, type |-> type, custom |-> custom, needLocaltime |-> need,
           cachedTm |-> tm, lastLogSecs |-> secs, formatters |-> formatters]
  BY Zenon DEF FormatterOf
<1>2. /\ h.pattern = pattern /\ h.type = type /\ h.custom = custom /\ h.needLocaltime = need
      /\ h.cachedTm = tm /\ h.lastLogSecs = secs /\ h.formatters = formatters
  BY <1>1
<1> QED
  BY <1>1, <1>2, Zenon

(* A formatter that has what its pattern compiles to, looks up the         *)
(* calendar time if a flag of the pattern needs it, and remembers what it  *)
(* may, keeps the invariant.                                               *)
LEMMA MadeFormatter ==
  ASSUME NEW pattern, NEW type, NEW custom, NEW need, NEW tm, NEW secs, NEW formatters, NEW h,
         IsMadeOf(h, pattern, type, custom, need, tm, secs, formatters)
  PROVE  FormatterInv(h)
<1>0. /\ h = FormatterOf(pattern, type, custom, need, tm, secs, formatters)
      /\ IsPattern(pattern) /\ type \in Types \cup {"local"} /\ custom \subseteq {"*"}
      /\ \A k \in DOMAIN pattern : pattern[k].flag \in LocalFlags \ custom => need = TRUE
      /\ tm \in CalendarTimes /\ (secs # 0 => tm = Calendar(type, secs))
      /\ formatters \in Seq(CompiledOf(type, pattern, custom))
  BY Zenon DEF IsMadeOf
<1>1. /\ h.pattern = pattern /\ h.type = type /\ h.custom = custom /\ h.needLocaltime = need
      /\ h.cachedTm = tm /\ h.lastLogSecs = secs /\ h.formatters = formatters
      /\ h = [pattern |-> h.pattern, type |-> h.type, custom |-> h.custom,
              needLocaltime |-> h.needLocaltime, cachedTm |-> h.cachedTm,
              lastLogSecs |-> h.lastLogSecs, formatters |-> h.formatters]
  BY <1>0, FieldsOfFormatter
<1>2. ASSUME NEW k \in DOMAIN formatters
      PROVE  /\ formatters[k] \in FormattersOf(type)
             /\ formatters[k].flag \in LocalFlags => need = TRUE
  <2>1. formatters[k] \in CompiledOf(type, pattern, custom)
    BY <1>0, <1>2
  <2>2. /\ formatters[k] \in FormattersOf(type)
        /\ formatters[k].flag \in LocalFlags =>
             \E j \in DOMAIN pattern : pattern[j].flag = formatters[k].flag
                                       /\ formatters[k].flag \notin custom
    BY <2>1, Zenon DEF CompiledOf
  <2>3. formatters[k].flag \in LocalFlags => need = TRUE
    BY <1>0, <2>2
  <2> QED
    BY <2>2, <2>3
<1>3. formatters \in Seq(FormattersOf(type))
  <2>1. Len(formatters) \in Nat /\ DOMAIN formatters = 1 .. Len(formatters)
        /\ formatters = [k \in 1 .. Len(formatters) |-> formatters[k]]
    BY <1>0
  <2>2. formatters \in [1 .. Len(formatters) -> FormattersOf(type)]
    BY <1>2, <2>1
  <2> QED
    BY <2>1, <2>2
<1>4. \A k \in DOMAIN formatters : formatters[k].flag \in LocalFlags => h.needLocaltime
  BY <1>1, <1>2
<1>5. \A k \in DOMAIN pattern : pattern[k].flag \in LocalFlags \ custom => h.needLocaltime
  BY <1>0, <1>1
<1> QED
  BY <1>0, <1>1, <1>3, <1>4, <1>5, Zenon DEF FormatterInv

(* pattern_formatter, with a pattern.                                      *)
LEMMA PatternFormatterIs ==
  ASSUME NEW pattern, NEW type, NEW custom, NEW now, NEW h,
         IsPattern(pattern), type \in Types \cup {"local"}, custom \subseteq {"*"}, now \in Int,
         h = PatternFormatter(pattern, type, custom, now)
  PROVE  \E need, tm, formatters : IsMadeOf(h, pattern, type, custom, need, tm, 0, formatters)
<1>1. PICK need, formatters, zero :
        /\ need = \E k \in DOMAIN pattern :
                    pattern[k].flag \notin custom /\ NeedsLocaltime(pattern[k].flag)
        /\ formatters = CompilePattern(pattern, custom, now) /\ zero = ZeroTm
  OBVIOUS
<1>2. h = FormatterOf(pattern, type, custom, need, zero, 0, formatters)
  BY <1>1, Zenon DEF PatternFormatter, FormatterOf
<1>3. formatters \in Seq(CompiledOf(type, pattern, custom))
  BY <1>1, PatternCompiled
<1>4. \A k \in DOMAIN pattern : pattern[k].flag \in LocalFlags \ custom => need = TRUE
  BY <1>1 DEF NeedsLocaltime
<1>5. zero \in CalendarTimes
  BY <1>1 DEF ZeroTm, CalendarTimes
<1>6. IsMadeOf(h, pattern, type, custom, need, zero, 0, formatters)
  BY <1>2, <1>3, <1>4, <1>5, Zenon DEF IsMadeOf
<1> QED
  BY <1>6

(* set_pattern, of a formatter with flags of the application's own.        *)
LEMMA SetPatternIs ==
  ASSUME NEW h, NEW pattern, NEW now, IsPattern(pattern), now \in Int, FormatterInv(h)
  PROVE  FormatterInv(SetPattern(h, pattern, now))
<1>1. PICK new, type, custom, tm, secs :
        /\ type = h.type /\ custom = h.custom /\ tm = h.cachedTm /\ secs = h.lastLogSecs
        /\ new = PatternFormatter(pattern, h.type, h.custom, now)
  OBVIOUS
<1>2. /\ type \in Types \cup {"local"} /\ custom \subseteq {"*"} /\ tm \in CalendarTimes
      /\ secs # 0 => tm = Calendar(type, secs)
  BY <1>1, Zenon DEF FormatterInv
<1>3. new = PatternFormatter(pattern, type, custom, now)
  BY <1>1, Zenon
<1>4. PICK need, zero, formatters : IsMadeOf(new, pattern, type, custom, need, zero, 0, formatters)
  BY <1>2, <1>3, PatternFormatterIs
<1>5. SetPattern(h, pattern, now) = [new EXCEPT !.cachedTm = tm, !.lastLogSecs = secs]
  BY <1>1, Zenon DEF SetPattern
<1>6. new = FormatterOf(pattern, type, custom, need, zero, 0, formatters)
  BY <1>4, Zenon DEF IsMadeOf
<1>7. SetPattern(h, pattern, now) = FormatterOf(pattern, type, custom, need, tm, secs, formatters)
  BY <1>5, <1>6 DEF FormatterOf
<1>8. IsMadeOf(SetPattern(h, pattern, now), pattern, type, custom, need, tm, secs, formatters)
  BY <1>2, <1>4, <1>7, Zenon DEF IsMadeOf
<1> QED
  BY <1>8, MadeFormatter

(* clone: what the original looks up the calendar time for, it does for    *)
(* its clone, too.                                                         *)
LEMMA CloneIs ==
  ASSUME NEW h, NEW now, now \in Int, FormatterInv(h)
  PROVE  FormatterInv(Clone(h, now))
<1>1. PICK pattern, type, custom, own :
        pattern = h.pattern /\ type = h.type /\ custom = h.custom /\ own = h.needLocaltime
  OBVIOUS
<1>2. /\ IsPattern(pattern) /\ type \in Types \cup {"local"} /\ custom \subseteq {"*"}
      /\ \A k \in DOMAIN pattern : pattern[k].flag \in LocalFlags \ custom => h.needLocaltime
  BY <1>1, Zenon DEF FormatterInv
<1>3. PICK new : new = PatternFormatter(pattern, type, custom, now)
  OBVIOUS
<1>4. PICK need, zero, formatters : IsMadeOf(new, pattern, type, custom, need, zero, 0, formatters)
  BY <1>2, <1>3, PatternFormatterIs
<1>5. Clone(h, now) = [new EXCEPT !.needLocaltime = own]
  BY <1>1, <1>3, Zenon DEF Clone, NeedLocaltime
<1>6. new = FormatterOf(pattern, type, custom, need, zero, 0, formatters)
  BY <1>4, Zenon DEF IsMadeOf
<1>7. Clone(h, now) = FormatterOf(pattern, type, custom, own, zero, 0, formatters)
  BY <1>5, <1>6 DEF FormatterOf
<1>8. \A k \in DOMAIN pattern : pattern[k].flag \in LocalFlags \ custom => own = TRUE
  BY <1>1, <1>2
<1>9. IsMadeOf(Clone(h, now), pattern, type, custom, own, zero, 0, formatters)
  BY <1>4, <1>7, <1>8, Zenon DEF IsMadeOf
<1> QED
  BY <1>9, MadeFormatter

----------------------------------------------------------------------------
(* What format writes. *)

(* The flags of which the field is made from the message's calendar time:  *)
(* a flag of the application's own if it is told.                          *)
Dated(h) == (LocalFlags \ {"z"}) \cup (IF h.needLocaltime THEN {"*"} ELSE {})

(* A flag formatter that has been told of a message.                       *)
ToldOf(type, h, now) ==
  {f \in FormattersOf(type) :
     (f.flag \in LocalFlags => h.needLocaltime) /\ (f.flag = "+" => f.memo = now)}

(* A formatter writes a line that is the message's: its fields are dated   *)
(* and padded as they should, its range is marked by its own fields.       *)
LEMMA FormatIs ==
  ASSUME NEW h, NEW msg, NEW now, NEW did, FormatterInv(h), msg \in Messages,
         now = Calendar(h.type, SecondOf(msg.time)),
         did = Format(h, msg, NoRange)
  PROVE  FormatterInv(did.formatter) /\ did.line \in LinesOf(now, Dated(h))
<1> DEFINE next == Refreshed(h, msg)
           told == [k \in DOMAIN next.formatters |-> Remembering(next.formatters[k], next.cachedTm, msg)]
           out[k \in 0 .. Len(told)] ==
             IF k = 0 THEN Line(NoRange) ELSE Appended(out[k - 1], told[k], next.cachedTm, msg)
           eol  == 1
<1>11. Format(h, msg, NoRange)
         = [formatter |-> [next EXCEPT !.formatters = told],
            line      |-> [out[Len(told)] EXCEPT !.size = @ + eol]]
  BY Zenon DEF Format
<1>30. PICK r, fs, t, last : r = next /\ fs = told /\ t = out /\ last = out[Len(told)]
  <2> HIDE DEF next, told, out
  <2> QED
    OBVIOUS
<1>13. t = CHOOSE g : g = [k \in 0 .. Len(told) |->
                             IF k = 0 THEN Line(NoRange)
                             ELSE Appended(g[k - 1], told[k], next.cachedTm, msg)]
  BY <1>30, Zenon
<1>1. r = Refreshed(h, msg)
  BY <1>30
<1>5. fs = [k \in DOMAIN r.formatters |-> Remembering(r.formatters[k], r.cachedTm, msg)]
  BY <1>30, Zenon
<1> HIDE DEF next, told, out
<1>31. did = [formatter |-> [r EXCEPT !.formatters = fs], line |-> [last EXCEPT !.size = @ + 1]]
  BY <1>11, <1>30, Zenon
<1>2. /\ FormatterInv(r) /\ r.type = h.type /\ (r.needLocaltime <=> h.needLocaltime)
      /\ h.needLocaltime => r.cachedTm = now
  BY <1>1, RefreshedForTheMessage
<1>3. PICK type, tm, old : type = h.type /\ tm = r.cachedTm /\ old = r.formatters
  OBVIOUS
<1>4. /\ tm \in CalendarTimes /\ old \in Seq(FormattersOf(type))
      /\ \A k \in DOMAIN old : old[k].flag \in LocalFlags => h.needLocaltime
  <2>1. /\ r.cachedTm \in CalendarTimes /\ r.formatters \in Seq(FormattersOf(r.type))
        /\ \A k \in DOMAIN r.formatters : r.formatters[k].flag \in LocalFlags => r.needLocaltime
    BY <1>2, Zenon DEF FormatterInv
  <2> QED
    BY <1>2, <1>3, <2>1, Zenon
<1>6. fs = [k \in DOMAIN old |-> Remembering(old[k], tm, msg)]
  BY <1>3, <1>5
<1>7. PICK n : n = Len(old)
  OBVIOUS
<1>8. n \in Nat /\ DOMAIN old = 1 .. n
  BY <1>4, <1>7
<1>9. ASSUME NEW k \in 1 .. n
      PROVE  fs[k] \in ToldOf(type, h, now) /\ fs[k].flag = old[k].flag
  <2>1. PICK f : f = old[k]
    OBVIOUS
  <2>2. f \in FormattersOf(type) /\ (f.flag \in LocalFlags => h.needLocaltime) /\ fs[k] = Remembering(f, tm, msg)
    BY <1>4, <1>6, <1>8, <2>1
  <2>3. now = Calendar(type, SecondOf(msg.time))
    BY <1>3
  <2>4. f.flag \in LocalFlags => tm = now
    BY <1>2, <1>3, <2>2
  <2>5. /\ Remembering(f, tm, msg) \in FormattersOf(type)
        /\ Remembering(f, tm, msg).flag = f.flag
        /\ f.flag = "+" => Remembering(f, tm, msg).memo = now
    BY <1>4, <2>2, <2>3, <2>4, RemembersTheMessage
  <2> QED
    BY <2>1, <2>2, <2>5, Zenon DEF ToldOf
<1>10. /\ fs \in Seq(FormattersOf(type)) /\ DOMAIN fs = 1 .. n /\ Len(fs) = n
       /\ \A k \in DOMAIN fs : fs[k].flag \in LocalFlags => h.needLocaltime
  <2>1. DOMAIN fs = 1 .. n
    BY <1>6, <1>8
  <2>2. \A k \in 1 .. n : fs[k] \in FormattersOf(type) /\ (fs[k].flag \in LocalFlags => h.needLocaltime)
    BY <1>9, Zenon DEF ToldOf
  <2>3. fs \in Seq(FormattersOf(type)) /\ Len(fs) = n
    BY <1>6, <1>8, <2>1, <2>2
  <2> QED
    BY <2>1, <2>2, <2>3
<1>12. PICK first, Values : first = Line(NoRange) /\ Values = LinesOf(now, Dated(h))
  OBVIOUS
<1>14. did.formatter = [r EXCEPT !.formatters = fs] /\ did.line = [last EXCEPT !.size = @ + 1]
       /\ last = t[n]
  <2>1. last = t[Len(fs)]
    BY <1>30, Zenon
  <2> QED
    BY <1>10, <1>31, <2>1
<1>15. t = CHOOSE g : g = [k \in 0 .. n |-> IF k = 0 THEN first ELSE Appended(g[k - 1], fs[k], tm, msg)]
  BY <1>3, <1>10, <1>12, <1>13, <1>30, Zenon
<1>16. first \in Values
  <2>1. PICK none : none = <<>>
    OBVIOUS
  <2>2. none \in Seq(FieldsOfLine(now, Dated(h))) /\ 0 \in Nat
    BY <2>1
  <2>3. first = [fields |-> none, size |-> 0, range |-> <<0, 0>>]
    BY <1>12, <2>1, Zenon DEF Line, NoRange
  <2>4. first.range[1] = 0 /\ first.range[2] = 0
    BY <2>3
  <2>5. RangeMarked(first)
    BY <2>4, Zenon DEF RangeMarked
  <2> QED
    BY <1>12, <2>2, <2>3, <2>5, IsLine
<1>17. ASSUME NEW k \in 1 .. n, NEW l \in Values PROVE Appended(l, fs[k], tm, msg) \in Values
  <2>1. PICK f, dated : f = fs[k] /\ dated = Dated(h)
    OBVIOUS
  <2>2. f \in FormattersOf(type) /\ (f.flag \in LocalFlags => h.needLocaltime)
        /\ (f.flag = "+" => f.memo = now)
    BY <1>9, <2>1 DEF ToldOf
  <2>3. dated \subseteq (LocalFlags \ {"z"}) \cup {"*"}
    BY <2>1 DEF Dated
  <2>4. f.flag \in LocalFlags \cup dated => h.needLocaltime
    BY <2>1, <2>2 DEF Dated
  <2>5. f.flag \in LocalFlags \cup dated => tm = now
    BY <1>2, <1>3, <2>4
  <2>6. l \in LinesOf(now, dated)
    BY <1>12, <2>1
  <2>7. Appended(l, f, tm, msg) \in LinesOf(now, dated)
    BY <1>4, <2>2, <2>3, <2>5, <2>6, AppendedIsLine
  <2> QED
    BY <1>12, <2>1, <2>7
<1>18. PICK step : step = [k \in 1 .. n |-> [l \in Values |-> Appended(l, fs[k], tm, msg)]]
  OBVIOUS
<1>19. step \in StepsOf(n, Values)
  BY <1>17, <1>18 DEF StepsOf
<1>20. PICK g : IsRun(g, n, Values, first, step)
  BY <1>8, <1>16, <1>19, RunExists
<1>21. g \in [0 .. n -> Values] /\ g[0] = first /\ \A k \in 1 .. n : g[k] = step[k][g[k - 1]]
  BY <1>20 DEF IsRun
<1>22. g = [k \in 0 .. n |-> IF k = 0 THEN first ELSE Appended(g[k - 1], fs[k], tm, msg)]
  <2>1. ASSUME NEW k \in 0 .. n
        PROVE  g[k] = IF k = 0 THEN first ELSE Appended(g[k - 1], fs[k], tm, msg)
    <3>1. CASE k = 0
      BY <1>21, <3>1
    <3>2. CASE k # 0
      <4>1. k \in 1 .. n /\ k - 1 \in 0 .. n
        BY <1>8, <3>2
      <4>2. g[k - 1] \in Values /\ g[k] = step[k][g[k - 1]]
        BY <1>21, <4>1
      <4>3. step[k][g[k - 1]] = Appended(g[k - 1], fs[k], tm, msg)
        BY <1>18, <4>1, <4>2
      <4> QED
        BY <3>2, <4>2, <4>3
    <3> QED
      BY <3>1, <3>2
  <2> QED
    BY <1>21, <2>1
<1>23. t = [k \in 0 .. n |-> IF k = 0 THEN first ELSE Appended(t[k - 1], fs[k], tm, msg)]
  BY <1>15, <1>22, Zenon
<1>24. t[0] = first
  BY <1>8, <1>23
<1>25. ASSUME NEW k \in 1 .. n, t[k - 1] \in Values PROVE t[k] = step[k][t[k - 1]]
  <2>1. k \in 0 .. n /\ k # 0
    BY <1>8
  <2>2. t[k] = Appended(t[k - 1], fs[k], tm, msg)
    BY <1>23, <2>1
  <2>3. step[k][t[k - 1]] = Appended(t[k - 1], fs[k], tm, msg)
    BY <1>18, <1>25
  <2> QED
    BY <2>2, <2>3
<1>26. Follows(t, n, Values, first, step)
  BY <1>24, <1>25 DEF Follows
<1>27. last \in Values
  BY <1>8, <1>14, <1>16, <1>19, <1>26, RunStays
<1>28. did.line \in Values
  <2>1. last \in LinesOf(now, Dated(h))
    BY <1>12, <1>27
  <2>2. PICK fields, size, r1, r2 : /\ fields = last.fields /\ size = last.size
                                    /\ r1 = last.range[1] /\ r2 = last.range[2]
    OBVIOUS
  <2>3. /\ last = [fields |-> fields, size |-> size, range |-> <<r1, r2>>]
        /\ fields \in Seq(FieldsOfLine(now, Dated(h))) /\ size \in Nat /\ r1 \in Nat /\ r2 \in Nat
        /\ RangeMarked(last)
    BY <2>1, <2>2, LineFields
  <2>4. PICK l, more : more = size + 1 /\ l = [fields |-> fields, size |-> more, range |-> <<r1, r2>>]
    OBVIOUS
  <2>5. more \in Nat /\ did.line = l
    <3>1. did.line = [last EXCEPT !.size = more]
      BY <1>14, <2>2, <2>4
    <3>2. last = [fields |-> fields, size |-> size, range |-> <<r1, r2>>] /\ size \in Nat
      BY <2>3
    <3>3. did.line = [fields |-> fields, size |-> more, range |-> <<r1, r2>>]
      BY <3>1, <3>2
    <3>4. more \in Nat
      BY <2>4, <3>2
    <3> QED
      BY <2>4, <3>3, <3>4
  <2>8. l.fields = last.fields /\ l.range = last.range
    <3>1. last.fields = fields /\ last.range = <<r1, r2>>
      BY <2>3
    <3> QED
      BY <2>4, <3>1
  <2>6. RangeMarked(l)
    <3>1. PICK f, range : f = last.fields /\ range = last.range
      OBVIOUS
    <3>2. \/ \E k \in DOMAIN f : f[k].flag = "+"
          \/ /\ range[2] = 0 \/ \E k \in DOMAIN f : f[k].flag = "$" /\ f[k].first = range[2]
             /\ range[1] = 0 \/ \E k \in DOMAIN f : f[k].flag = "^" /\ f[k].first = range[1]
      BY <2>3, <3>1, Zenon DEF RangeMarked
    <3>3. l.fields = f /\ l.range = range
      BY <2>8, <3>1
    <3> QED
      BY <3>2, <3>3, Zenon DEF RangeMarked
  <2>7. l \in LinesOf(now, Dated(h))
    BY <2>3, <2>4, <2>5, <2>6, IsLine
  <2> QED
    BY <1>12, <2>5, <2>7
<1>29. FormatterInv(did.formatter)
  <2>1. r = [pattern |-> r.pattern, type |-> r.type, custom |-> r.custom,
             needLocaltime |-> r.needLocaltime, cachedTm |-> r.cachedTm,
             lastLogSecs |-> r.lastLogSecs, formatters |-> r.formatters]
    BY <1>2, Zenon DEF FormatterInv
  <2>2. PICK x : x = [r EXCEPT !.formatters = fs]
    OBVIOUS
  <2>3. x = [pattern |-> r.pattern, type |-> r.type, custom |-> r.custom,
             needLocaltime |-> r.needLocaltime, cachedTm |-> r.cachedTm,
             lastLogSecs |-> r.lastLogSecs, formatters |-> fs]
    BY <2>1, <2>2
  <2>4. /\ x.pattern = r.pattern /\ x.type = r.type /\ x.custom = r.custom
        /\ x.needLocaltime = r.needLocaltime /\ x.cachedTm = r.cachedTm
        /\ x.lastLogSecs = r.lastLogSecs /\ x.formatters = fs
    BY <2>3
  <2>5. x = [pattern |-> x.pattern, type |-> x.type, custom |-> x.custom,
             needLocaltime |-> x.needLocaltime, cachedTm |-> x.cachedTm,
             lastLogSecs |-> x.lastLogSecs, formatters |-> x.formatters]
    BY <2>3, <2>4, Zenon
  <2>6. x.formatters \in Seq(FormattersOf(x.type))
    BY <1>2, <1>3, <1>10, <2>4, Zenon
  <2>7. \A k \in DOMAIN x.formatters : x.formatters[k].flag \in LocalFlags => x.needLocaltime
    BY <1>2, <1>10, <2>4, Zenon
  <2>8. FormatterInv(x)
    BY <1>2, <2>4, <2>5, <2>6, <2>7, Zenon DEF FormatterInv
  <2> QED
    BY <1>14, <2>2, <2>8
<1> QED
  BY <1>12, <1>28, <1>29

----------------------------------------------------------------------------
(* The sinks and the calls. *)

(* What a call in progress has.                                            *)
IsLog(c) ==
  /\ c = [op |-> "log", msg |-> c.msg, range |-> c.range, next |-> c.next]
  /\ c.msg \in Messages /\ c.next \in 1 .. Len(Order)

IsFormat(c) ==
  /\ c = [op |-> "format", formatter |-> c.formatter, now |-> c.now, next |-> c.next]
  /\ FormatterInv(c.formatter) /\ c.now \in Births /\ c.next \in 1 .. Len(Order)

CallInv(c) == c # Idle => IsLog(c) \/ IsFormat(c)

(* What a sink wrote last.                                                 *)
LineInv(w) ==
  /\ w.fields \in Seq(FieldsOfLine(Calendar(w.type, SecondOf(w.msg.time)),
                                   (LocalFlags \ {"z"}) \cup IF w.promised THEN {"*"} ELSE {}))
  /\ w.coloured # NoRange =>
       \/ \E k \in DOMAIN w.fields : w.fields[k].flag = "+"
       \/ /\ \E k \in DOMAIN w.fields : w.fields[k].flag = "$" /\ w.coloured[2] = w.fields[k].first
          /\ \/ w.coloured[1] = 0
             \/ \E k \in DOMAIN w.fields : w.fields[k].flag = "^" /\ w.coloured[1] = w.fields[k].first

FormattersInv == formatter = [s \in Sinks |-> formatter[s]] /\ \A s \in Sinks : FormatterInv(formatter[s])
CallsInv      == calls \in Nat /\ call = [t \in Threads |-> call[t]] /\ \A t \in Threads : CallInv(call[t])
LinesInv      == line = [s \in Sinks |-> line[s]] /\ \A s \in Sinks : line[s] # NoLine => LineInv(line[s])

ConsoleInv == FormattersInv /\ CallsInv /\ LinesInv

(* The sinks of the logger, in their order.                                *)
LEMMA TheSinks ==
  /\ Len(Order) \in Nat /\ 1 \in 1 .. Len(Order)
  /\ \A k \in 1 .. Len(Order) : Order[k] \in Sinks
<1>1. Order # <<>> /\ Order \in Seq({Order[k] : k \in DOMAIN Order})
  BY ConsoleAssumption, Zenon DEF ConsoleAssumption
<1>2. PICK o, S : o = Order /\ S = {Order[k] : k \in DOMAIN Order}
  OBVIOUS
<1>3. o \in Seq(S) /\ o # <<>>
  BY <1>1, <1>2
<1>4. Len(o) \in Nat /\ Len(o) # 0 /\ \A k \in 1 .. Len(o) : o[k] \in S
  BY <1>3
<1> QED
  BY <1>2, <1>4 DEF Sinks

(* What a pattern may be, and a message.                                   *)
LEMMA Inputs ==
  /\ \A p \in Patterns : IsPattern(p)
  /\ \A now \in Births : now \in Int
  /\ \A kind \in Kinds, time \in Times, id \in Nat :
       [id |-> id, time |-> time, logger |-> kind.logger, level |-> kind.level,
        thread |-> kind.thread, size |-> kind.size, source |-> kind.source,
        mdc |-> kind.mdc] \in Messages
<1>1. \A p \in Patterns : IsPattern(p)
  BY ConsoleAssumption, Zenon DEF ConsoleAssumption
<1>2. Births \subseteq Int
  BY ConsoleAssumption, Zenon DEF ConsoleAssumption
<1>3. Kinds \subseteq [logger : Nat, level : DOMAIN LevelSize, thread : Nat, size : Nat,
                       source : Sources, mdc : Seq(Nat)]
  BY ConsoleAssumption, Zenon DEF ConsoleAssumption
<1>4. ASSUME NEW kind \in Kinds, NEW time \in Times, NEW id \in Nat
      PROVE  [id |-> id, time |-> time, logger |-> kind.logger, level |-> kind.level,
              thread |-> kind.thread, size |-> kind.size, source |-> kind.source,
              mdc |-> kind.mdc] \in Messages
  <2>1. kind \in [logger : Nat, level : DOMAIN LevelSize, thread : Nat, size : Nat,
                  source : Sources, mdc : Seq(Nat)]
    BY <1>3
  <2>2. PICK logger, level, thread, size, source, mdc :
          /\ logger = kind.logger /\ level = kind.level /\ thread = kind.thread /\ size = kind.size
          /\ source = kind.source /\ mdc = kind.mdc
    OBVIOUS
  <2>3. /\ logger \in Nat /\ level \in DOMAIN LevelSize /\ thread \in Nat /\ size \in Nat
        /\ source \in Sources /\ mdc \in Seq(Nat)
    BY <2>1, <2>2
  <2>4. [id |-> id, time |-> time, logger |-> logger, level |-> level, thread |-> thread,
         size |-> size, source |-> source, mdc |-> mdc] \in Messages
    BY <2>3 DEF Messages
  <2> QED
    BY <2>2, <2>4
<1> QED
  BY <1>1, <1>2, <1>4

(* The pattern of a default formatter.                                     *)
LEMMA DefaultPattern ==
  ASSUME NEW plus, plus = <<Flag("+")>>
  PROVE  IsPattern(plus)
<1>1. PICK item, pad, S : item = Flag("+") /\ pad = NoPad /\ S = {plus[k] : k \in DOMAIN plus}
  OBVIOUS
<1>2. pad \in Paddings
  BY <1>1 DEF NoPad, Paddings
<1>3. item = [flag |-> "+", spec |-> pad, size |-> 0]
  BY <1>1, Zenon DEF Flag
<1>4. item.spec \in Paddings /\ item.size \in Nat
  BY <1>2, <1>3
<1>5. plus = <<item>>
  BY <1>1
<1>6. plus \in Seq(S) /\ \A k \in DOMAIN plus : plus[k] = item
  BY <1>1, <1>5
<1> QED
  BY <1>1, <1>4, <1>6, Zenon DEF IsPattern

(* The formatters of the application.                                      *)
LEMMA MadeIs ==
  ASSUME NEW pattern \in Patterns, NEW type \in Types \cup {"local"}, NEW now \in Births,
         NEW h \in Made(pattern, type, now)
  PROVE  FormatterInv(h)
<1>1. IsPattern(pattern) /\ now \in Int
  BY Inputs
<1>2. PICK plain, default, star, own :
        /\ plain = PatternFormatter(pattern, type, {}, now) /\ default = DefaultFormatter(type, now)
        /\ star = AddFlag(default, "*") /\ own = SetPattern(star, pattern, now)
  OBVIOUS
<1>3. h = plain \/ h = own \/ h = NeedLocaltime(own, TRUE)
  BY <1>2 DEF Made
<1>4. PICK none : none = {}
  OBVIOUS
<1>5. none \subseteq {"*"}
  BY <1>4
<1>6. FormatterInv(plain)
  <2>1. plain = PatternFormatter(pattern, type, none, now)
    BY <1>2, <1>4
  <2> QED
    BY <1>1, <1>5, <2>1, PatternFormatterIs, MadeFormatter
<1>7. PICK plus : plus = <<Flag("+")>>
  OBVIOUS
<1>8. IsPattern(plus)
  BY <1>7, DefaultPattern
<1>9. default = PatternFormatter(plus, type, none, now)
  BY <1>2, <1>4, <1>7, Zenon DEF DefaultFormatter
<1>10. PICK need, tm, formatters : IsMadeOf(default, plus, type, none, need, tm, 0, formatters)
  BY <1>1, <1>5, <1>8, <1>9, PatternFormatterIs
<1>11. PICK stars : stars = none \cup {"*"}
  OBVIOUS
<1>12. star = FormatterOf(plus, type, stars, need, tm, 0, formatters)
  <2>1. default = FormatterOf(plus, type, none, need, tm, 0, formatters)
    BY <1>10, Zenon DEF IsMadeOf
  <2>2. star = [default EXCEPT !.custom = @ \cup {"*"}]
    BY <1>2, Zenon DEF AddFlag
  <2> QED
    BY <1>11, <2>1, <2>2 DEF FormatterOf
<1>13. FormatterInv(default)
  BY <1>10, MadeFormatter
<1>14. FormatterInv(star)
  <2>1. /\ default.pattern = plus /\ default.type = type /\ default.custom = none
        /\ default.needLocaltime = need /\ default.cachedTm = tm /\ default.lastLogSecs = 0
        /\ default.formatters = formatters
    <3>1. default = FormatterOf(plus, type, none, need, tm, 0, formatters)
      BY <1>10, Zenon DEF IsMadeOf
    <3> QED
      BY <3>1, FieldsOfFormatter
  <2>2. /\ star.pattern = plus /\ star.type = type /\ star.custom = stars
        /\ star.needLocaltime = need /\ star.cachedTm = tm /\ star.lastLogSecs = 0
        /\ star.formatters = formatters
        /\ star = [pattern |-> star.pattern, type |-> star.type, custom |-> star.custom,
                   needLocaltime |-> star.needLocaltime, cachedTm |-> star.cachedTm,
                   lastLogSecs |-> star.lastLogSecs, formatters |-> star.formatters]
    BY <1>12, FieldsOfFormatter
  <2>3. stars \subseteq {"*"} /\ none \subseteq stars
    BY <1>4, <1>11
  <2> QED
    BY <1>13, <2>1, <2>2, <2>3 DEF FormatterInv
<1>15. FormatterInv(own)
  BY <1>1, <1>2, <1>14, SetPatternIs
<1>16. FormatterInv(NeedLocaltime(own, TRUE))
  <2>1. PICK x : x = NeedLocaltime(own, TRUE)
    OBVIOUS
  <2>2. own = [pattern |-> own.pattern, type |-> own.type, custom |-> own.custom,
               needLocaltime |-> own.needLocaltime, cachedTm |-> own.cachedTm,
               lastLogSecs |-> own.lastLogSecs, formatters |-> own.formatters]
    BY <1>15, Zenon DEF FormatterInv
  <2>3. x = [own EXCEPT !.needLocaltime = TRUE]
    BY <2>1, Zenon DEF NeedLocaltime
  <2>7. PICK p, y, c, b, z, n, f :
          /\ p = own.pattern /\ y = own.type /\ c = own.custom /\ b = TRUE /\ z = own.cachedTm
          /\ n = own.lastLogSecs /\ f = own.formatters
    OBVIOUS
  <2>4. x = FormatterOf(p, y, c, b, z, n, f)
    BY <2>2, <2>3, <2>7 DEF FormatterOf
  <2>5. /\ x.pattern = own.pattern /\ x.type = own.type /\ x.custom = own.custom
        /\ x.needLocaltime = TRUE /\ x.cachedTm = own.cachedTm /\ x.lastLogSecs = own.lastLogSecs
        /\ x.formatters = own.formatters
        /\ x = [pattern |-> x.pattern, type |-> x.type, custom |-> x.custom,
                needLocaltime |-> x.needLocaltime, cachedTm |-> x.cachedTm,
                lastLogSecs |-> x.lastLogSecs, formatters |-> x.formatters]
    <3>1. /\ x.pattern = p /\ x.type = y /\ x.custom = c
          /\ x.needLocaltime = b /\ x.cachedTm = z /\ x.lastLogSecs = n /\ x.formatters = f
          /\ x = [pattern |-> x.pattern, type |-> x.type, custom |-> x.custom,
                  needLocaltime |-> x.needLocaltime, cachedTm |-> x.cachedTm,
                  lastLogSecs |-> x.lastLogSecs, formatters |-> x.formatters]
      BY <2>4, FieldsOfFormatter
    <3> QED
      BY <2>7, <3>1, Zenon
  <2>6. FormatterInv(x)
    BY <1>15, <2>5 DEF FormatterInv
  <2> QED
    BY <2>1, <2>6
<1> QED
  BY <1>3, <1>6, <1>15, <1>16

(* A sink's formatter is replaced by one that keeps the invariant.         *)
LEMMA FormatterReplaced ==
  ASSUME NEW s, NEW h, s \in Sinks, FormattersInv, FormatterInv(h), formatter' = [formatter EXCEPT ![s] = h]
  PROVE  FormattersInv'
<1>1. formatter = [x \in Sinks |-> formatter[x]] /\ \A x \in Sinks : FormatterInv(formatter[x])
  BY Zenon DEF FormattersInv
<1>2. PICK f : f = formatter'
  OBVIOUS
<1>3. f = [x \in Sinks |-> f[x]]
  BY <1>1, <1>2
<1>4. \A x \in Sinks : f[x] = IF x = s THEN h ELSE formatter[x]
  BY <1>1, <1>2
<1>5. \A x \in Sinks : FormatterInv(f[x])
  BY <1>1, <1>4
<1>6. formatter' = [x \in Sinks |-> formatter'[x]] /\ \A x \in Sinks : FormatterInv(formatter'[x])
  BY <1>2, <1>3, <1>5, Zenon
<1>7. Sinks' = Sinks
  BY DEF Sinks
<1> QED
  BY <1>6, <1>7 DEF FormattersInv

(* A call begins, goes on or ends.                                         *)
LEMMA CallReplaced ==
  ASSUME NEW t, NEW c, t \in Threads, CallsInv, CallInv(c), call' = [call EXCEPT ![t] = c], calls' \in Nat
  PROVE  CallsInv'
<1>1. call = [x \in Threads |-> call[x]] /\ \A x \in Threads : CallInv(call[x])
  BY Zenon DEF CallsInv
<1>2. PICK f : f = call'
  OBVIOUS
<1>3. f = [x \in Threads |-> f[x]]
  BY <1>1, <1>2
<1>4. \A x \in Threads : f[x] = IF x = t THEN c ELSE call[x]
  BY <1>1, <1>2
<1>5. \A x \in Threads : CallInv(f[x])
  BY <1>1, <1>4
<1>6. call' = [x \in Threads |-> call'[x]] /\ \A x \in Threads : CallInv(call'[x])
  BY <1>2, <1>3, <1>5, Zenon
<1> QED
  BY <1>6 DEF CallsInv

(* On to the next sink of the logger.                                      *)
LEMMA OnToTheNext ==
  ASSUME NEW t, NEW c, NEW next, t \in Threads, CallsInv, NextSink(t, c), calls' \in Nat,
         next = c.next, next \in 1 .. Len(Order),
         next # Len(Order) => CallInv([c EXCEPT !.next = next + 1])
  PROVE  CallsInv'
<1>1. PICK d : d = IF next = Len(Order) THEN Idle ELSE [c EXCEPT !.next = next + 1]
  OBVIOUS
<1>2. call' = [call EXCEPT ![t] = d]
  BY <1>1, Zenon DEF NextSink
<1>3. CallInv(d)
  <2>1. CASE next = Len(Order)
    BY <1>1, <2>1 DEF CallInv
  <2>2. CASE next # Len(Order)
    BY <1>1, <2>2
  <2> QED
    BY <2>1, <2>2
<1> QED
  BY <1>2, <1>3, CallReplaced

(* A thread logs a message.                                               *)
LEMMA LogStep ==
  ASSUME NEW t \in Threads, ConsoleInv, Log(t)
  PROVE  ConsoleInv'
<1>1. FormattersInv /\ CallsInv /\ LinesInv /\ calls \in Nat
  BY Zenon DEF ConsoleInv, CallsInv
<1>2. PICK kind \in Kinds, time \in Times :
        LET msg == [id |-> calls + 1, time |-> time, logger |-> kind.logger, level |-> kind.level,
                    thread |-> kind.thread, size |-> kind.size, source |-> kind.source,
                    mdc |-> kind.mdc]
        IN  Begin(t, [op |-> "log", msg |-> msg, range |-> NoRange, next |-> 1])
  BY Zenon DEF Log
<1>3. PICK id, msg : /\ id = calls + 1
                     /\ msg = [id |-> id, time |-> time, logger |-> kind.logger, level |-> kind.level,
                               thread |-> kind.thread, size |-> kind.size, source |-> kind.source,
                               mdc |-> kind.mdc]
  OBVIOUS
<1>4. PICK c : c = [op |-> "log", msg |-> msg, range |-> NoRange, next |-> 1]
  OBVIOUS
<1>5. calls' = id /\ call' = [call EXCEPT ![t] = c]
  BY <1>2, <1>3, <1>4, Zenon DEF Begin
<1>6. id \in Nat
  BY <1>1, <1>3
<1>7. msg \in Messages
  BY <1>3, <1>6, Inputs
<1>8. CallInv(c)
  <2>1. c.msg = msg /\ c.next = 1 /\ c = [op |-> "log", msg |-> c.msg, range |-> c.range, next |-> c.next]
    BY <1>4
  <2>2. IsLog(c)
    BY <1>7, <2>1, TheSinks DEF IsLog
  <2> QED
    BY <2>2, Zenon DEF CallInv
<1>9. calls' \in Nat
  BY <1>5, <1>6
<1>10. CallsInv'
  BY <1>1, <1>5, <1>8, <1>9, CallReplaced
<1>11. UNCHANGED <<formatter, doColors, line>>
  BY Zenon DEF Log
<1>12. FormattersInv' /\ LinesInv'
  BY <1>1, <1>11 DEF FormattersInv, LinesInv, Sinks
<1> QED
  BY <1>10, <1>12, Zenon DEF ConsoleInv

(* The application sets a formatter of the logger.                        *)
LEMMA SetFormatterStep ==
  ASSUME NEW t \in Threads, ConsoleInv, SetFormatter(t)
  PROVE  ConsoleInv'
<1>1. FormattersInv /\ CallsInv /\ LinesInv /\ calls \in Nat
  BY Zenon DEF ConsoleInv, CallsInv
<1>2. PICK p \in Patterns, type \in Types, now \in Births : \E h \in Made(p, type, now) :
        Begin(t, [op |-> "format", formatter |-> h, now |-> now, next |-> 1])
  BY Zenon DEF SetFormatter
<1>3. PICK h \in Made(p, type, now) :
        Begin(t, [op |-> "format", formatter |-> h, now |-> now, next |-> 1])
  BY <1>2
<1>4. PICK c : c = [op |-> "format", formatter |-> h, now |-> now, next |-> 1]
  OBVIOUS
<1>5. calls' = calls + 1 /\ call' = [call EXCEPT ![t] = c]
  BY <1>3, <1>4, Zenon DEF Begin
<1>6. FormatterInv(h)
  <2>1. type \in Types \cup {"local"}
    OBVIOUS
  <2> QED
    BY <2>1, MadeIs
<1>7. CallInv(c)
  <2>1. /\ c.formatter = h /\ c.now = now /\ c.next = 1
        /\ c = [op |-> "format", formatter |-> c.formatter, now |-> c.now, next |-> c.next]
    BY <1>4
  <2>2. IsFormat(c)
    BY <1>6, <2>1, TheSinks DEF IsFormat
  <2> QED
    BY <2>2, Zenon DEF CallInv
<1>8. calls' \in Nat
  BY <1>1, <1>5
<1>9. CallsInv'
  BY <1>1, <1>5, <1>7, <1>8, CallReplaced
<1>10. UNCHANGED <<formatter, doColors, line>>
  BY Zenon DEF SetFormatter
<1>11. FormattersInv' /\ LinesInv'
  BY <1>1, <1>10 DEF FormattersInv, LinesInv, Sinks
<1> QED
  BY <1>9, <1>11, Zenon DEF ConsoleInv

(* A sink gets the formatter, or a clone of it.                           *)
LEMMA SinkSetFormatterStep ==
  ASSUME NEW t \in Threads, ConsoleInv, SinkSetFormatter(t)
  PROVE  ConsoleInv'
<1>1. FormattersInv /\ CallsInv /\ LinesInv /\ calls \in Nat
  BY Zenon DEF ConsoleInv, CallsInv
<1>2. PICK c : c = call[t]
  OBVIOUS
<1>3. /\ c # Idle /\ c.op = "format"
      /\ formatter' = [formatter EXCEPT ![Order[c.next]] =
                         IF c.next = Len(Order) THEN c.formatter ELSE Clone(c.formatter, c.now)]
      /\ NextSink(t, c) /\ UNCHANGED <<doColors, calls, line>>
  BY <1>2, Zenon DEF SinkSetFormatter
<1>4. IsFormat(c)
  <2>1. CallInv(c)
    BY <1>1, <1>2, Zenon DEF CallsInv
  <2>2. IsLog(c) \/ IsFormat(c)
    BY <1>3, <2>1, Zenon DEF CallInv
  <2>3. IsLog(c) => c.op = "log"
    <3>1. IsLog(c) => c = [op |-> "log", msg |-> c.msg, range |-> c.range, next |-> c.next]
      BY Zenon DEF IsLog
    <3> QED
      BY <3>1
  <2> QED
    BY <1>3, <2>2, <2>3
<1>5. PICK h, now, next, s, new :
        /\ h = c.formatter /\ now = c.now /\ next = c.next /\ s = Order[c.next]
        /\ new = IF c.next = Len(Order) THEN c.formatter ELSE Clone(c.formatter, c.now)
  OBVIOUS
<1>6. /\ c = [op |-> "format", formatter |-> h, now |-> now, next |-> next]
      /\ FormatterInv(h) /\ now \in Births /\ next \in 1 .. Len(Order)
  BY <1>4, <1>5, Zenon DEF IsFormat
<1>7. FormatterInv(new)
  <2>1. new = h \/ new = Clone(h, now)
    BY <1>5
  <2>2. now \in Int
    BY <1>6, Inputs
  <2>3. FormatterInv(Clone(h, now))
    BY <1>6, <2>2, CloneIs
  <2> QED
    BY <1>6, <2>1, <2>3
<1>8. s \in Sinks
  BY <1>5, <1>6, TheSinks
<1>9. formatter' = [formatter EXCEPT ![s] = new]
  BY <1>3, <1>5, Zenon
<1>10. FormattersInv'
  BY <1>1, <1>7, <1>8, <1>9, FormatterReplaced
<1>11. next # Len(Order) => CallInv([c EXCEPT !.next = next + 1])
  <2> SUFFICES ASSUME next # Len(Order) PROVE CallInv([c EXCEPT !.next = next + 1])
    OBVIOUS
  <2>1. PICK d, more : more = next + 1 /\ d = [c EXCEPT !.next = more]
    OBVIOUS
  <2>2. more \in 1 .. Len(Order)
    BY <1>6, <2>1, TheSinks
  <2>3. d = [op |-> "format", formatter |-> h, now |-> now, next |-> more]
    BY <1>6, <2>1
  <2>4. /\ d.formatter = h /\ d.now = now /\ d.next = more
        /\ d = [op |-> "format", formatter |-> d.formatter, now |-> d.now, next |-> d.next]
    BY <2>3
  <2>5. IsFormat(d)
    BY <1>6, <2>2, <2>4 DEF IsFormat
  <2> QED
    BY <2>1, <2>5, Zenon DEF CallInv
<1>12. calls' \in Nat
  BY <1>1, <1>3
<1>13. CallsInv'
  BY <1>1, <1>3, <1>5, <1>6, <1>11, <1>12, OnToTheNext
<1>14. LinesInv'
  BY <1>1, <1>3 DEF LinesInv, Sinks
<1> QED
  BY <1>10, <1>13, <1>14, Zenon DEF ConsoleInv

(* A sink writes a line: what it colours is the line's own range, and has  *)
(* an end.                                                                 *)
LEMMA WrittenLine ==
  ASSUME NEW now, NEW dated, NEW l, NEW w, l \in LinesOf(now, dated),
         now = Calendar(w.type, SecondOf(w.msg.time)),
         dated = (LocalFlags \ {"z"}) \cup IF w.promised THEN {"*"} ELSE {},
         w.fields = l.fields,
         w.coloured = NoRange \/ (w.coloured = l.range /\ l.range[2] > l.range[1])
  PROVE  LineInv(w)
<1>1. PICK fields, range, r1, r2 :
        fields = l.fields /\ range = l.range /\ r1 = range[1] /\ r2 = range[2]
  OBVIOUS
<1>2. fields \in Seq(FieldsOfLine(now, dated)) /\ r1 \in Nat /\ r2 \in Nat /\ RangeMarked(l)
  BY <1>1, LineFields
<1>3. \/ \E k \in DOMAIN fields : fields[k].flag = "+"
      \/ /\ r2 = 0 \/ \E k \in DOMAIN fields : fields[k].flag = "$" /\ fields[k].first = r2
         /\ r1 = 0 \/ \E k \in DOMAIN fields : fields[k].flag = "^" /\ fields[k].first = r1
  BY <1>1, <1>2, Zenon DEF RangeMarked
<1>4. w.fields \in Seq(FieldsOfLine(Calendar(w.type, SecondOf(w.msg.time)),
                                    (LocalFlags \ {"z"}) \cup IF w.promised THEN {"*"} ELSE {}))
  BY <1>1, <1>2, Zenon
<1>5. ASSUME w.coloured # NoRange
      PROVE  \/ \E k \in DOMAIN fields : fields[k].flag = "+"
             \/ /\ \E k \in DOMAIN fields : fields[k].flag = "$" /\ w.coloured[2] = fields[k].first
                /\ \/ w.coloured[1] = 0
                   \/ \E k \in DOMAIN fields : fields[k].flag = "^" /\ w.coloured[1] = fields[k].first
  <2>1. w.coloured = range /\ r2 > r1
    BY <1>1, <1>5
  <2>2. r2 # 0
    BY <1>2, <2>1
  <2>3. w.coloured[1] = r1 /\ w.coloured[2] = r2
    BY <1>1, <2>1
  <2> QED
    BY <1>3, <2>2, <2>3, Zenon
<1>6. w.fields = fields
  BY <1>1
<1> QED
  BY <1>4, <1>5, <1>6, Zenon DEF LineInv

(* The line of a sink is replaced.                                         *)
LEMMA LineReplaced ==
  ASSUME NEW s, NEW w, s \in Sinks, LinesInv, LineInv(w), line' = [line EXCEPT ![s] = w]
  PROVE  LinesInv'
<1>1. line = [x \in Sinks |-> line[x]] /\ \A x \in Sinks : line[x] # NoLine => LineInv(line[x])
  BY Zenon DEF LinesInv
<1>2. PICK f : f = line'
  OBVIOUS
<1>3. f = [x \in Sinks |-> f[x]]
  BY <1>1, <1>2
<1>4. \A x \in Sinks : f[x] = IF x = s THEN w ELSE line[x]
  BY <1>1, <1>2
<1>5. \A x \in Sinks : f[x] # NoLine => LineInv(f[x])
  BY <1>1, <1>4
<1>6. line' = [x \in Sinks |-> line'[x]] /\ \A x \in Sinks : line'[x] # NoLine => LineInv(line'[x])
  BY <1>2, <1>3, <1>5, Zenon
<1>7. Sinks' = Sinks
  BY DEF Sinks
<1> QED
  BY <1>6, <1>7 DEF LinesInv

(* ansicolor_sink::log.                                                    *)
LEMMA SinkLogStep ==
  ASSUME NEW t \in Threads, ConsoleInv, SinkLog(t)
  PROVE  ConsoleInv'
<1>1. FormattersInv /\ CallsInv /\ LinesInv /\ calls \in Nat
  BY Zenon DEF ConsoleInv, CallsInv
<1>2. PICK c, s, h : c = call[t] /\ s = Order[call[t].next] /\ h = formatter[s]
  OBVIOUS
<1>3. PICK did : did = Format(h, c.msg, RangeBefore(c.range))
  OBVIOUS
<1>4. PICK w : w = [msg |-> c.msg, type |-> h.type, promised |-> h.needLocaltime,
                    fields |-> did.line.fields, size |-> did.line.size,
                    coloured |-> IF doColors[s] /\ did.line.range[2] > did.line.range[1]
                                 THEN did.line.range ELSE NoRange]
  OBVIOUS
<1>5. /\ c # Idle /\ c.op = "log"
      /\ formatter' = [formatter EXCEPT ![s] = did.formatter]
      /\ line' = [line EXCEPT ![s] = w]
      /\ NextSink(t, [c EXCEPT !.range = did.line.range])
      /\ UNCHANGED <<doColors, calls>>
  BY <1>2, <1>3, <1>4, Zenon DEF SinkLog
<1>6. IsLog(c)
  <2>1. CallInv(c)
    BY <1>1, <1>2, Zenon DEF CallsInv
  <2>2. IsLog(c) \/ IsFormat(c)
    BY <1>5, <2>1, Zenon DEF CallInv
  <2>3. IsFormat(c) => c.op = "format"
    <3>1. IsFormat(c) => c = [op |-> "format", formatter |-> c.formatter, now |-> c.now, next |-> c.next]
      BY Zenon DEF IsFormat
    <3> QED
      BY <3>1
  <2> QED
    BY <1>5, <2>2, <2>3
<1>7. PICK msg, next, range : msg = c.msg /\ next = c.next /\ range = did.line.range
  OBVIOUS
<1>8. /\ c = [op |-> "log", msg |-> msg, range |-> c.range, next |-> next]
      /\ msg \in Messages /\ next \in 1 .. Len(Order)
  BY <1>6, <1>7, Zenon DEF IsLog
<1>9. s \in Sinks
  BY <1>2, <1>7, <1>8, TheSinks
<1>10. FormatterInv(h)
  BY <1>1, <1>2, <1>9, Zenon DEF FormattersInv
<1>11. PICK now, dated : now = Calendar(h.type, SecondOf(msg.time)) /\ dated = Dated(h)
  OBVIOUS
<1>12. did = Format(h, msg, NoRange)
  BY <1>3, <1>7, Zenon DEF RangeBefore
<1>13. FormatterInv(did.formatter) /\ did.line \in LinesOf(now, dated)
  BY <1>8, <1>10, <1>11, <1>12, FormatIs
<1>14. LineInv(w)
  <2>1. PICK l, type, promised, size, coloured :
          /\ l = did.line /\ type = h.type /\ promised = h.needLocaltime /\ size = did.line.size
          /\ coloured = IF doColors[s] /\ did.line.range[2] > did.line.range[1]
                        THEN did.line.range ELSE NoRange
    OBVIOUS
  <2>2. w = [msg |-> msg, type |-> type, promised |-> promised, fields |-> l.fields, size |-> size,
             coloured |-> coloured]
    BY <1>4, <1>7, <2>1, Zenon
  <2>3. w.msg = msg /\ w.type = type /\ w.promised = promised /\ w.fields = l.fields
        /\ w.coloured = coloured
    BY <2>2
  <2>4. now = Calendar(w.type, SecondOf(w.msg.time))
    BY <1>11, <2>1, <2>3, Zenon
  <2>5. dated = (LocalFlags \ {"z"}) \cup IF w.promised THEN {"*"} ELSE {}
    BY <1>11, <2>1, <2>3, Zenon DEF Dated
  <2>6. w.coloured = NoRange \/ (w.coloured = l.range /\ l.range[2] > l.range[1])
    BY <2>1, <2>3
  <2>7. l \in LinesOf(now, dated)
    BY <1>13, <2>1
  <2> QED
    BY <2>3, <2>4, <2>5, <2>6, <2>7, WrittenLine
<1>15. FormattersInv'
  BY <1>1, <1>5, <1>9, <1>13, FormatterReplaced
<1>16. LinesInv'
  BY <1>1, <1>5, <1>9, <1>14, LineReplaced
<1>17. PICK d : d = [c EXCEPT !.range = range]
  OBVIOUS
<1>18. d = [op |-> "log", msg |-> msg, range |-> range, next |-> next]
  BY <1>8, <1>17
<1>19. next # Len(Order) => CallInv([d EXCEPT !.next = next + 1])
  <2> SUFFICES ASSUME next # Len(Order) PROVE CallInv([d EXCEPT !.next = next + 1])
    OBVIOUS
  <2>1. PICK e, more : more = next + 1 /\ e = [d EXCEPT !.next = more]
    OBVIOUS
  <2>2. more \in 1 .. Len(Order)
    BY <1>8, <2>1, TheSinks
  <2>3. e = [op |-> "log", msg |-> msg, range |-> range, next |-> more]
    BY <1>18, <2>1
  <2>4. /\ e.msg = msg /\ e.next = more
        /\ e = [op |-> "log", msg |-> e.msg, range |-> e.range, next |-> e.next]
    BY <2>3
  <2>5. IsLog(e)
    BY <1>8, <2>2, <2>4 DEF IsLog
  <2> QED
    BY <2>1, <2>5, Zenon DEF CallInv
<1>20. NextSink(t, d) /\ calls' \in Nat
  BY <1>1, <1>5, <1>7, <1>17, Zenon
<1>21. CallsInv'
  <2>1. d.next = next
    BY <1>18
  <2> QED
    BY <1>1, <1>8, <1>19, <1>20, <2>1, OnToTheNext
<1> QED
  BY <1>15, <1>16, <1>21, Zenon DEF ConsoleInv

(* set_pattern of a sink.                                                  *)
LEMMA SinkSetPatternStep ==
  ASSUME NEW s \in Sinks, ConsoleInv, SinkSetPattern(s)
  PROVE  ConsoleInv'
<1>1. FormattersInv /\ CallsInv /\ LinesInv /\ calls \in Nat
  BY Zenon DEF ConsoleInv, CallsInv
<1>2. PICK p \in Patterns, now \in Births :
        formatter' = [formatter EXCEPT ![s] = PatternFormatter(p, "local", {}, now)]
  BY Zenon DEF SinkSetPattern
<1>3. PICK h, type, none : h = PatternFormatter(p, type, none, now) /\ type = "local" /\ none = {}
  OBVIOUS
<1>4. IsPattern(p) /\ now \in Int /\ type \in Types \cup {"local"} /\ none \subseteq {"*"}
  BY <1>3, Inputs
<1>5. FormatterInv(h)
  BY <1>3, <1>4, PatternFormatterIs, MadeFormatter
<1>6. formatter' = [formatter EXCEPT ![s] = h]
  BY <1>2, <1>3, Zenon
<1>7. FormattersInv'
  BY <1>1, <1>5, <1>6, FormatterReplaced
<1>8. calls' = calls + 1 /\ UNCHANGED <<doColors, call, line>>
  BY Zenon DEF SinkSetPattern
<1>9. CallsInv'
  BY <1>1, <1>8 DEF CallsInv
<1>10. LinesInv'
  BY <1>1, <1>8 DEF LinesInv, Sinks
<1> QED
  BY <1>7, <1>9, <1>10, Zenon DEF ConsoleInv

(* The formatters that the sinks begin with.                               *)
LEMMA ConsoleInitially ==
  ASSUME Init
  PROVE  ConsoleInv
<1>1. PICK now \in Births : formatter = [s \in Sinks |-> DefaultFormatter("local", now)]
  BY Zenon DEF Init
<1>2. PICK h, plus, type, none :
        h = DefaultFormatter("local", now) /\ plus = <<Flag("+")>> /\ type = "local" /\ none = {}
  OBVIOUS
<1>3. h = PatternFormatter(plus, type, none, now)
  BY <1>2, Zenon DEF DefaultFormatter
<1>4. IsPattern(plus) /\ now \in Int /\ type \in Types \cup {"local"} /\ none \subseteq {"*"}
  BY <1>2, DefaultPattern, Inputs
<1>5. FormatterInv(h)
  BY <1>3, <1>4, PatternFormatterIs, MadeFormatter
<1>6. FormattersInv
  <2>1. formatter = [s \in Sinks |-> h]
    BY <1>1, <1>2, Zenon
  <2>2. formatter = [s \in Sinks |-> formatter[s]] /\ \A s \in Sinks : formatter[s] = h
    BY <2>1
  <2> QED
    BY <1>5, <2>2 DEF FormattersInv
<1>7. /\ call = [t \in Threads |-> Idle] /\ calls = 0
      /\ line = [s \in Sinks |-> NoLine]
  BY Zenon DEF Init
<1>8. CallsInv
  BY <1>7 DEF CallsInv, CallInv
<1>9. LinesInv
  BY <1>7 DEF LinesInv
<1> QED
  BY <1>6, <1>8, <1>9, Zenon DEF ConsoleInv

(* Every step keeps the invariant.                                         *)
LEMMA ConsoleStep ==
  ASSUME ConsoleInv, [Next]_vars
  PROVE  ConsoleInv'
<1>1. ASSUME NEW t \in Threads, Log(t) PROVE ConsoleInv'
  BY <1>1, LogStep
<1>2. ASSUME NEW t \in Threads, SinkLog(t) PROVE ConsoleInv'
  BY <1>2, SinkLogStep
<1>3. ASSUME NEW t \in Threads, SetFormatter(t) PROVE ConsoleInv'
  BY <1>3, SetFormatterStep
<1>4. ASSUME NEW t \in Threads, SinkSetFormatter(t) PROVE ConsoleInv'
  BY <1>4, SinkSetFormatterStep
<1>5. ASSUME NEW s \in Sinks, SinkSetPattern(s) PROVE ConsoleInv'
  BY <1>5, SinkSetPatternStep
<1>6. FormattersInv /\ CallsInv /\ LinesInv /\ calls \in Nat
  BY Zenon DEF ConsoleInv, CallsInv
<1>7. ASSUME NEW s \in Sinks, SetColorMode(s) PROVE ConsoleInv'
  <2>1. calls' = calls + 1 /\ UNCHANGED <<formatter, call, line>>
    BY <1>7, Zenon DEF SetColorMode
  <2>2. FormattersInv'
    BY <1>6, <2>1 DEF FormattersInv, Sinks
  <2>3. CallsInv'
    BY <1>6, <2>1 DEF CallsInv
  <2>4. LinesInv'
    BY <1>6, <2>1 DEF LinesInv, Sinks
  <2> QED
    BY <2>2, <2>3, <2>4, Zenon DEF ConsoleInv
<1>8. CASE UNCHANGED vars
  <2>1. UNCHANGED <<formatter, call, calls, line>>
    BY <1>8 DEF vars
  <2>2. FormattersInv'
    BY <1>6, <2>1 DEF FormattersInv, Sinks
  <2>3. CallsInv'
    BY <1>6, <2>1 DEF CallsInv
  <2>4. LinesInv'
    BY <1>6, <2>1 DEF LinesInv, Sinks
  <2> QED
    BY <2>2, <2>3, <2>4, Zenon DEF ConsoleInv
<1> QED
  BY <1>1, <1>2, <1>3, <1>4, <1>5, <1>7, <1>8, Zenon DEF Next

----------------------------------------------------------------------------
(* What a line says of its message. *)

(* Formatters, the calls in progress and the lines that were written keep  *)
(* the invariant in every behaviour.                                       *)
THEOREM ConsoleInvariance == Spec => []ConsoleInv
<1>1. Init => ConsoleInv
  BY ConsoleInitially
<1>2. ConsoleInv /\ [Next]_vars => ConsoleInv'
  BY ConsoleStep
<1> QED
  BY <1>1, <1>2, PTL DEF Spec

(* A field of a line that was written.                                     *)
LEMMA FieldWritten ==
  ASSUME ConsoleInv, NEW s \in Written, NEW f \in FieldsOf(s)
  PROVE  f \in FieldsOfLine(Calendar(line[s].type, SecondOf(line[s].msg.time)),
                            (LocalFlags \ {"z"}) \cup IF line[s].promised THEN {"*"} ELSE {})
<1>1. PICK w, fields, S :
        /\ w = line[s] /\ fields = line[s].fields
        /\ S = FieldsOfLine(Calendar(line[s].type, SecondOf(line[s].msg.time)),
                            (LocalFlags \ {"z"}) \cup IF line[s].promised THEN {"*"} ELSE {})
  OBVIOUS
<1>2. LinesInv /\ s \in Sinks /\ line[s] # NoLine
  BY Zenon DEF ConsoleInv, Written
<1>3. LineInv(w)
  BY <1>1, <1>2, Zenon DEF LinesInv
<1>4. fields \in Seq(S)
  BY <1>1, <1>3, Zenon DEF LineInv
<1>5. PICK k \in DOMAIN fields : f = fields[k]
  BY <1>1, Zenon DEF FieldsOf
<1>6. f \in S
  BY <1>4, <1>5
<1> QED
  BY <1>1, <1>6, Zenon

(* The date and time of a line are those of its message, in every          *)
(* behaviour, for any pattern, clock and calendar.                         *)
THEOREM TimesAlwaysTheMessages == Spec => []TimesAreTheMessages
<1>1. ConsoleInv => TimesAreTheMessages
  <2> SUFFICES ASSUME ConsoleInv, NEW s \in Written, NEW f \in FieldsOf(s),
                      f.flag \in (LocalFlags \ {"z"}) \cup (IF line[s].promised THEN {"*"} ELSE {})
               PROVE  f.from = Calendar(line[s].type, SecondOf(line[s].msg.time))
    BY Zenon DEF TimesAreTheMessages
  <2>1. f \in FieldsOfLine(Calendar(line[s].type, SecondOf(line[s].msg.time)),
                           (LocalFlags \ {"z"}) \cup IF line[s].promised THEN {"*"} ELSE {})
    BY FieldWritten
  <2> QED
    BY <2>1, Zenon DEF FieldsOfLine
<1> QED
  BY <1>1, ConsoleInvariance, PTL

(* A field that is padded has its width, in every behaviour.               *)
THEOREM FieldsAlwaysHaveTheirWidth == Spec => []FieldsHaveTheirWidth
<1>1. ConsoleInv => FieldsHaveTheirWidth
  <2> SUFFICES ASSUME ConsoleInv, NEW s \in Written, NEW f \in FieldsOf(s)
               PROVE  LET size == f.last - f.first
                          short == f.flag = "c" /\ Calendar(line[s].type, SecondOf(line[s].msg.time)).mday < 10
                      IN  f.pad.enabled /\ ~short => /\ size >= f.pad.width
                                                     /\ f.pad.truncate => size = f.pad.width
    BY Zenon DEF FieldsHaveTheirWidth
  <2>1. f \in FieldsOfLine(Calendar(line[s].type, SecondOf(line[s].msg.time)),
                           (LocalFlags \ {"z"}) \cup IF line[s].promised THEN {"*"} ELSE {})
    BY FieldWritten
  <2>2. f.pad.enabled /\ ~Short(f.flag, Calendar(line[s].type, SecondOf(line[s].msg.time))) =>
          f.last - f.first >= f.pad.width /\ (f.pad.truncate => f.last - f.first = f.pad.width)
    BY <2>1, Zenon DEF FieldsOfLine
  <2> QED
    BY <2>2, Zenon DEF Short
<1> QED
  BY <1>1, ConsoleInvariance, PTL

(* What is coloured is what the line's own fields mark, in every behaviour.*)
THEOREM ColouredAlwaysTheMarked == Spec => []ColouredIsTheMarked
<1>1. ConsoleInv => ColouredIsTheMarked
  <2> SUFFICES ASSUME ConsoleInv, NEW s \in Written, line[s].coloured # NoRange
               PROVE  LET marks(flag) == {k \in DOMAIN line[s].fields : line[s].fields[k].flag = flag}
                      IN  \/ marks("+") # {}
                          \/ /\ \E k \in marks("$") : line[s].coloured[2] = line[s].fields[k].first
                             /\ \/ line[s].coloured[1] = 0
                                \/ \E k \in marks("^") : line[s].coloured[1] = line[s].fields[k].first
    BY Zenon DEF ColouredIsTheMarked
  <2>1. LinesInv /\ s \in Sinks /\ line[s] # NoLine
    BY Zenon DEF ConsoleInv, Written
  <2>2. LineInv(line[s])
    BY <2>1, Zenon DEF LinesInv
  <2>3. \/ \E k \in DOMAIN line[s].fields : line[s].fields[k].flag = "+"
        \/ /\ \E k \in DOMAIN line[s].fields :
                line[s].fields[k].flag = "$" /\ line[s].coloured[2] = line[s].fields[k].first
           /\ \/ line[s].coloured[1] = 0
              \/ \E k \in DOMAIN line[s].fields :
                   line[s].fields[k].flag = "^" /\ line[s].coloured[1] = line[s].fields[k].first
    BY <2>2, Zenon DEF LineInv
  <2> QED
    BY <2>3, Zenon
<1> QED
  BY <1>1, ConsoleInvariance, PTL
=============================================================================
