-------------------------- MODULE PatternFormatter --------------------------
(***************************************************************************)
(* spdlog's pattern_formatter: a pattern is compiled to a sequence of flag *)
(* formatters, each of which adds a field to a line, padded or cut to a    *)
(* width.  A formatter remembers the calendar time of the last second it   *)
(* formatted, and so do some of its flags; a sink calls it under its own   *)
(* mutex, so that what a call leaves is a function of what it finds.       *)
(*                                                                         *)
(* Of a field, the model has its size, what it was made from, and where in *)
(* the line it is.  A field of the message is made from the number of the  *)
(* message, a field of the date from a calendar time.                      *)
(***************************************************************************)
EXTENDS Integers, Sequences

CONSTANTS
  Second,          \* ticks of the clock in a second
  Refresh,         \* ticks for which %z keeps an offset: ten seconds
  MaxWidth,        \* the widest a field is padded to: 64
  Calendar(_, _)   \* localtime_r and gmtime_r, of a second

ASSUME FormatterAssumption == Second \in Nat \ {0} /\ Refresh \in Nat /\ MaxWidth \in Nat

SecondOf(time) == time \div Second

(* What localtime_r and gmtime_r fill in, as far as a flag writes it, and  *)
(* the second it is of.                                                    *)
CalendarTimes ==
  [second : Int, wday : 0 .. 6, mon : 0 .. 11, mday : 0 .. 31, offset : Int]

(* The calendar time a formatter starts with, all zeros. *)
ZeroTm == [second |-> -1, wday |-> 0, mon |-> 0, mday |-> 0, offset |-> 0]

Sources == [file : Nat, base : Nat, line : Nat, func : Nat]

NoSource == [file |-> 0, base |-> 0, line |-> 0, func |-> 0]

Paddings ==
  [enabled : BOOLEAN, width : Nat, side : {"left", "center", "right"}, truncate : BOOLEAN]

NoPad == [enabled |-> FALSE, width |-> 0, side |-> "left", truncate |-> FALSE]

Pad(width, side, truncate) ==
  [enabled |-> TRUE, width |-> width, side |-> side, truncate |-> truncate]

Larger(m, n) == IF m > n THEN m ELSE n
Smaller(m, n) == IF m < n THEN m ELSE n

Elapsed == {"u", "i", "o", "O"}

(* The flags of which the field is made from the calendar time.            *)
LocalFlags == {"a", "A", "b", "h", "B", "c", "C", "Y", "D", "x", "m", "d", "H", "I", "M",
               "S", "p", "r", "R", "T", "X", "z", "+"}

----------------------------------------------------------------------------
(* Mutations of the definitions below. *)

ANewerSecond(h, secs) == secs > h.lastLogSecs
HalfAgain(remaining)  == remaining \div 2

----------------------------------------------------------------------------
(* The sizes of the fields.  A record has the flags as its fields.         *)

LevelSize == [trace |-> 5, debug |-> 5, info |-> 4, warn |-> 7, err |-> 5, critical |-> 8,
              off |-> 3]

NameSize(msg) == [n |-> msg.logger, l |-> LevelSize[msg.level], L |-> 1]

DayAndMonthSize(tm) ==
  LET fullDays   == <<6, 6, 7, 9, 8, 6, 8>>
      fullMonths == <<7, 8, 5, 5, 3, 4, 4, 6, 9, 7, 8, 8>>
  IN  [a |-> 3, A |-> fullDays[tm.wday + 1], b |-> 3, h |-> 3, B |-> fullMonths[tm.mon + 1]]

(* %c writes a day of the month in as many digits as it has, and claims two. *)
LongDateSize(tm) == IF tm.mday < 10 THEN 23 ELSE 24

DateSize == [c |-> 24, C |-> 2, D |-> 8, x |-> 8, Y |-> 4, m |-> 2, d |-> 2]

HourSize == [H |-> 2, I |-> 2, M |-> 2, S |-> 2]

(* Seconds since the epoch have ten digits, until the year 2286.           *)
FractionSize == [e |-> 3, f |-> 6, F |-> 9, E |-> 10]

ClockSize == [p |-> 2, r |-> 11, R |-> 5, T |-> 8, X |-> 8]

OffsetSize == 6

TextSize(msg) == [t |-> msg.thread, P |-> 3, v |-> msg.size]

LocationSize(source) == source.file + source.line + 1

SourceSize(flag, source) ==
  IF source = NoSource THEN 0
  ELSE CASE flag = "@" -> LocationSize(source)
         [] flag = "g" -> source.file
         [] flag = "s" -> source.base
         [] flag = "#" -> source.line
         [] flag = "!" -> source.func

Digits(n) ==
  LET digits[k \in 0 .. n] == IF k < 10 THEN 1 ELSE digits[k \div 10] + 1
  IN  digits[n]

----------------------------------------------------------------------------
(* What some flags remember from one message to the next. *)

(* %z. *)
OffsetIsOld(f, msg) == msg.time - f.time >= Refresh

CachedOffset(f, tm, msg) ==
  IF OffsetIsOld(f, msg) THEN [f EXCEPT !.memo = tm.offset, !.time = msg.time] ELSE f

(* The time since the last message. *)
SinceLast(f, msg) ==
  [f EXCEPT !.memo = Larger(msg.time - f.time, 0), !.time = msg.time]

(* The date and time of %+, to the second. *)
CachedDatetime(f, tm, msg) ==
  IF f.time # SecondOf(msg.time) \/ f.memo = ZeroTm
  THEN [f EXCEPT !.memo = tm, !.time = SecondOf(msg.time)]
  ELSE f

Remembering(f, tm, msg) ==
  CASE f.flag = "z"        -> CachedOffset(f, tm, msg)
    [] f.flag \in Elapsed  -> SinceLast(f, msg)
    [] f.flag = "+"        -> CachedDatetime(f, tm, msg)
    [] OTHER               -> f

----------------------------------------------------------------------------
(* What is written: from what, the size the padding is told of, and the    *)
(* size it has.                                                            *)
Piece(from, claims, has) == [from |-> from, claims |-> claims, has |-> has]
Exactly(from, size)      == <<Piece(from, size, size)>>

(* Each pair of the diagnostic context is padded for itself, with the      *)
(* space behind it.                                                        *)
ContextPieces(msg) ==
  LET n == Len(msg.mdc)
  IN  IF n = 0 THEN Exactly(msg.id, 0)
      ELSE [k \in 1 .. n |-> Piece(msg.id, msg.mdc[k] + IF k < n THEN 1 ELSE 0,
                                           msg.mdc[k] + IF k < n THEN 1 ELSE 0)]

Pieces(f, tm, msg) ==
  LET flag == f.flag
  IN  CASE flag = "raw" -> Exactly(0, f.memo)
        [] flag = "c"   -> <<Piece(tm, DateSize.c, LongDateSize(tm))>>
        [] flag \in DOMAIN DayAndMonthSize(tm) -> Exactly(tm, DayAndMonthSize(tm)[flag])
        [] flag \in DOMAIN DateSize \ {"c"}    -> Exactly(tm, DateSize[flag])
        [] flag \in DOMAIN HourSize            -> Exactly(tm, HourSize[flag])
        [] flag \in DOMAIN ClockSize           -> Exactly(tm, ClockSize[flag])
        [] flag \in DOMAIN FractionSize        -> Exactly(msg.time, FractionSize[flag])
        [] flag = "z"                          -> Exactly(f.memo, OffsetSize)
        [] flag \in Elapsed                    -> Exactly(f.memo, Digits(f.memo))
        [] flag \in DOMAIN NameSize(msg)       -> Exactly(msg.id, NameSize(msg)[flag])
        [] flag \in DOMAIN TextSize(msg)       -> Exactly(msg.id, TextSize(msg)[flag])
        [] flag \in {"@", "g", "s", "#", "!"}  -> Exactly(msg.id, SourceSize(flag, msg.source))
        [] flag = "&"                          -> ContextPieces(msg)
        [] flag = "*"                          -> Exactly(tm, 2)

----------------------------------------------------------------------------
(* scoped_padder: what is missing is added on a side, what is too much is  *)
(* cut from the end of the line.                                           *)
Missing(pad, piece) == IF pad.enabled THEN pad.width - piece.claims ELSE 0

HalfPad(remaining) == (remaining \div 2) + (remaining % 2)

PadBefore(side, remaining) ==
  CASE side = "left"   -> remaining
    [] side = "center" -> remaining \div 2
    [] side = "right"  -> 0

PadAfter(side, remaining) ==
  CASE side = "left"   -> 0
    [] side = "center" -> HalfPad(remaining)
    [] side = "right"  -> remaining

SizeAfter(size, pad, piece) ==
  LET remaining == Missing(pad, piece)
  IN  IF remaining >= 0
      THEN size + PadBefore(pad.side, remaining) + piece.has + PadAfter(pad.side, remaining)
      ELSE IF pad.truncate THEN Larger(size + piece.has + remaining, 0)
      ELSE size + piece.has

(* A line in the making: its fields, its size, and the range to colour,    *)
(* which is the message's and not the line's.                              *)
Line(range) == [fields |-> <<>>, size |-> 0, range |-> range]

Field(flag, pad, from, first, last) ==
  [flag |-> flag, pad |-> pad, from |-> from, first |-> first, last |-> last]

Extended(out, f, piece) ==
  LET size == SizeAfter(out.size, f.pad, piece)
  IN  [out EXCEPT !.fields = Append(@, Field(f.flag, f.pad, piece.from, out.size, size)),
                  !.size = size]

WithPieces(out, f, pieces) ==
  LET extended[k \in 0 .. Len(pieces)] ==
        IF k = 0 THEN out ELSE Extended(extended[k - 1], f, pieces[k])
  IN  extended[Len(pieces)]

(* %+, which is not padded and has its own colours: those of the level.    *)
WithFull(out, f, msg) ==
  LET name    == IF msg.logger > 0 THEN msg.logger + 3 ELSE 0
      level   == out.size + 26 + name + 1
      source  == IF msg.source = NoSource THEN 0 ELSE msg.source.base + msg.source.line + 4
      context == Len(msg.mdc)
      pairs[k \in 0 .. context] == IF k = 0 THEN 2 ELSE pairs[k - 1] + msg.mdc[k] + 1
      last    == level + LevelSize[msg.level] + 2 + source
                   + (IF context = 0 THEN 0 ELSE pairs[context]) + msg.size
  IN  [out EXCEPT !.fields = Append(@, Field("+", NoPad, f.memo, out.size, last)),
                  !.size = last,
                  !.range = <<level, level + LevelSize[msg.level]>>]

(* %^ and %$ mark the range, and write nothing.                            *)
Marked(out, f, end) ==
  [out EXCEPT !.fields = Append(@, Field(f.flag, NoPad, 0, out.size, out.size)),
              !.range[end] = out.size]

Appended(out, f, tm, msg) ==
  CASE f.flag = "^" -> Marked(out, f, 1)
    [] f.flag = "$" -> Marked(out, f, 2)
    [] f.flag = "+" -> WithFull(out, f, msg)
    [] OTHER        -> WithPieces(out, f, Pieces(f, tm, msg))

----------------------------------------------------------------------------
(* A pattern is a sequence of runs of characters and of flags, with what   *)
(* stands between the percent sign and the flag.                           *)
IsPattern(pattern) ==
  /\ pattern \in Seq({pattern[k] : k \in DOMAIN pattern})
  /\ \A k \in DOMAIN pattern : pattern[k].spec \in Paddings /\ pattern[k].size \in Nat

Chars(n)         == [flag |-> "chars", spec |-> NoPad, size |-> n]
Flag(flag)       == [flag |-> flag, spec |-> NoPad, size |-> 0]
Padded(flag, pad) == [flag |-> flag, spec |-> pad, size |-> 0]

(* A percent sign, and perhaps a width, at the end of a pattern.           *)
Dangling == Flag("end")

(* handle_padspec_. *)
HandlePadspec(spec) == [spec EXCEPT !.width = Smaller(@, MaxWidth)]

FlagFormatter(flag, pad, time, memo) == [flag |-> flag, pad |-> pad, time |-> time, memo |-> memo]

Raw(size) == FlagFormatter("raw", NoPad, 0, size)

Builtin == LocalFlags \cup DOMAIN FractionSize \cup Elapsed
             \cup {"n", "l", "L", "t", "v", "P", "^", "$", "@", "s", "g", "#", "!", "&"}

(* An exclamation mark that was taken for the mark of a cut is the flag of *)
(* the function's name if no other flag follows it.                        *)
Unknown(pad) ==
  IF pad.truncate
  THEN <<FlagFormatter("!", [pad EXCEPT !.truncate = FALSE], 0, 0), Raw(1)>>
  ELSE <<Raw(2)>>

(* handle_flag_.  A flag of the application's own comes before the others, *)
(* and is taken not to heed the width that it is told.                     *)
HandleFlag(flag, pad, custom, now) ==
  CASE flag \in custom   -> <<FlagFormatter(flag, NoPad, 0, 0)>>
    [] flag \in Elapsed \ custom -> <<FlagFormatter(flag, pad, now, 0)>>
    [] flag \in {"+"} \ custom   -> <<FlagFormatter(flag, pad, 0, ZeroTm)>>
    [] flag \in Builtin \ (custom \cup Elapsed \cup {"+"}) -> <<FlagFormatter(flag, pad, 0, 0)>>
    [] flag = "%"        -> <<Raw(1)>>
    [] OTHER             -> Unknown(pad)

NeedsLocaltime(flag) == flag \in LocalFlags

(* compile_pattern_. *)
CompilePattern(pattern, custom, now) ==
  LET compiled(item) ==
        CASE item.flag = "chars" -> <<Raw(item.size)>>
          [] item.flag = "end"   -> <<>>
          [] OTHER -> HandleFlag(item.flag, HandlePadspec(item.spec), custom, now)
      upTo[k \in 0 .. Len(pattern)] ==
        IF k = 0 THEN <<>> ELSE upTo[k - 1] \o compiled(pattern[k])
  IN  upTo[Len(pattern)]

(* pattern_formatter, with a pattern. *)
PatternFormatter(pattern, type, custom, now) ==
  [pattern |-> pattern, type |-> type, custom |-> custom,
   needLocaltime |-> \E k \in DOMAIN pattern :
                       pattern[k].flag \notin custom /\ NeedsLocaltime(pattern[k].flag),
   cachedTm |-> ZeroTm, lastLogSecs |-> 0,
   formatters |-> CompilePattern(pattern, custom, now)]

(* Without one. *)
DefaultFormatter(type, now) == PatternFormatter(<<Flag("+")>>, type, {}, now)

(* add_flag, and set_pattern, which compiles again and keeps the calendar  *)
(* time of the last second.                                                *)
AddFlag(h, flag) == [h EXCEPT !.custom = @ \cup {flag}]

SetPattern(h, pattern, now) ==
  LET new == PatternFormatter(pattern, h.type, h.custom, now)
  IN  [new EXCEPT !.cachedTm = h.cachedTm, !.lastLogSecs = h.lastLogSecs]

NeedLocaltime(h, need) == [h EXCEPT !.needLocaltime = need]

(* clone: the same, with nothing remembered. *)
Clone(h, now) ==
  NeedLocaltime(PatternFormatter(h.pattern, h.type, h.custom, now), h.needLocaltime)

----------------------------------------------------------------------------
(* When format looks up the calendar time. *)
SecondPassed(h, secs) == secs # h.lastLogSecs

Refreshed(h, msg) ==
  LET secs == SecondOf(msg.time)
  IN  IF h.needLocaltime /\ SecondPassed(h, secs)
      THEN [h EXCEPT !.cachedTm = Calendar(h.type, secs), !.lastLogSecs = secs]
      ELSE h

(* format: the formatter after it, and the line. *)
Format(h, msg, range) ==
  LET r   == Refreshed(h, msg)
      fs  == [k \in DOMAIN r.formatters |-> Remembering(r.formatters[k], r.cachedTm, msg)]
      out[k \in 0 .. Len(fs)] ==
        IF k = 0 THEN Line(range) ELSE Appended(out[k - 1], fs[k], r.cachedTm, msg)
      eol == 1
  IN  [formatter |-> [r EXCEPT !.formatters = fs],
       line      |-> [out[Len(fs)] EXCEPT !.size = @ + eol]]
=============================================================================
