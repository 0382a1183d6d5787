--------------------------- MODULE MCConsoleSinks ---------------------------
(* for TLC: two ticks a second, an offset kept for two seconds. *)
EXTENDS ConsoleSinks, TLC

CONSTANTS sink1, sink2   \* sinks

MCOrder == <<sink1, sink2>>

(* The day, and with it its number of digits, and the offset of local time *)
(* change every second.                                                    *)
MCCalendar(type, second) ==
  [second |-> second, wday |-> second, mon |-> second, mday |-> 7 + second,
   offset |-> IF type = "utc" THEN 0 ELSE 60 * second]

Located == [file |-> 20, base |-> 8, line |-> 2, func |-> 4]

MCKinds ==
  {[logger |-> 4, level |-> "info", thread |-> 5, size |-> 3, source |-> Located, mdc |-> <<4, 6>>],
   [logger |-> 0, level |-> "warn", thread |-> 5, size |-> 9, source |-> NoSource, mdc |-> <<>>]}

Flags(flags) == [k \in DOMAIN flags |-> Flag(flags[k])]

MCPatterns ==
  { \* the date and time
    Flags(<<"a", "A", "b", "h", "B", "c", "C", "Y", "D", "x", "m", "d", "H", "I", "M", "S", "p",
            "r", "R", "T", "X", "z", "e", "f", "F", "E">>),
    \* the message, with widths of every kind
    <<Padded("n", Pad(5, "left", FALSE)), Padded("l", Pad(7, "center", TRUE)),
      Padded("L", Pad(0, "left", TRUE)), Padded("t", Pad(6, "right", TRUE)),
      Padded("@", Pad(20, "left", TRUE)), Padded("s", Pad(99, "center", FALSE)),
      Padded("g", Pad(3, "left", TRUE)), Padded("#", Pad(2, "left", TRUE)),
      Padded("!", Pad(9, "right", FALSE)), Padded("]", Pad(6, "left", TRUE)),
      Padded("&", Pad(6, "left", TRUE)), Padded("u", Pad(4, "center", TRUE)),
      Padded("c", Pad(20, "left", TRUE)), Padded("v", Pad(5, "left", TRUE))>>,
    \* a flag of the application, and colours
    <<Chars(2), Flag("^"), Flag("*"), Flag("$"), Flag("%"), Flag("P"), Flag("v"), Dangling>>,
    \* an end without a beginning, the offset
    <<Flag("z"), Flag("$"), Flag("i"), Flag("?")>> }

MCSymmetry == Permutations(Threads)
=============================================================================
