------------------------------ MODULE LogFormat ------------------------------
(***************************************************************************)
(* How easylogging++ turns a format such as "%datetime{%H:%m} %level %msg" *)
(* into the lines of the log and the names of its files.                   *)
(*                                                                         *)
(* A text is a sequence of pieces: "%", the word of a specifier ("msg"     *)
(* after "%" is the specifier %msg), "{", "}", "/", and any other text.    *)
(* Times are records of the fields of struct tm and the microseconds.      *)
(***************************************************************************)
EXTENDS LogText

\* Where the specifier is next, not before a place; 0 where it is not.
Find(text, word, from) ==
  LET found == {i \in from .. Len(text) - 1 : text[i] = "%" /\ text[i + 1] = word}
  IN IF found = {} THEN 0 ELSE CHOOSE i \in found : \A j \in found : i <= j

IsEscaped(text, at) == at > 1 /\ text[at - 1] = "%"

\* Put what is meant for the first specifier that no "%" escapes, and take the
\* escape from those before it.
RECURSIVE ReplaceFrom(_, _, _, _)
ReplaceFrom(text, word, with, from) ==
  LET at == Find(text, word, from) IN
  CASE at = 0 -> text
    [] at # 0 /\ IsEscaped(text, at) -> ReplaceFrom(RemoveAt(text, at - 1), word, with, at + 1)
    [] OTHER -> SubSeq(text, 1, at - 1) \o with \o SubSeq(text, at + 2, Len(text))
ReplaceFirstWithEscape(text, word, with) == ReplaceFrom(text, word, with, 1)

-----------------------------------------------------------------------------
(* Dates. *)

\* A time is cut to thousandths unless a width of 4 to 6 digits is asked for.
SubsecondPrecision(asked) ==
  LET width == IF asked \in 1 .. 6 THEN asked ELSE 3 IN
  [width |-> width, offset |-> IF width \in 4 .. 6 THEN 10 ^ (6 - width) ELSE 1000]

Digit(n) == <<"0", "1", "2", "3", "4", "5", "6", "7", "8", "9">>[n + 1]

\* The last digits of a number, as many as asked and zeros before a short one.
ConvertAndAdd(n, width) == [i \in 1 .. width |-> Digit((n \div (10 ^ (width - i))) % 10)]
\* A number without zeros before it, or its last digits.
ToDigits(n, width) ==
  ConvertAndAdd(n, CHOOSE k \in 1 .. width : (n < 10 ^ k \/ k = width) /\ (k = 1 \/ n >= 10 ^ (k - 1)))

Days == <<"Sunday", "Monday", "Tuesday", "Wednesday", "Thursday", "Friday", "Saturday">>
Months == <<"January", "February", "March", "Apri", "May", "June", "July", "August", "September", "October",
            "November", "December">>
\* How long the names that are not one character are.
Lengths ==
  [Sunday |-> 6, Monday |-> 6, Tuesday |-> 7, Wednesday |-> 9, Thursday |-> 8, Friday |-> 6, Saturday |-> 8,
   January |-> 7, February |-> 8, March |-> 5, Apri |-> 4, May |-> 3, June |-> 4, July |-> 4, August |-> 6,
   September |-> 9, October |-> 7, November |-> 8, December |-> 8, AM |-> 2, PM |-> 2]

\* What each letter of a date format stands for; no other letter is written.
FieldOf(letter, time, precision) ==
  CASE letter = "d" -> ConvertAndAdd(time.day, 2)
    [] letter = "A" -> <<Days[time.weekday + 1]>>
    [] letter = "M" -> ConvertAndAdd(time.month, 2)
    [] letter = "B" -> <<Months[time.month]>>
    [] letter = "y" -> ConvertAndAdd(time.year, 2)
    [] letter = "Y" -> ConvertAndAdd(time.year, 4)
    [] letter = "h" -> ConvertAndAdd(time.hour % 12, 2)
    [] letter = "H" -> ConvertAndAdd(time.hour, 2)
    [] letter = "m" -> ConvertAndAdd(time.minute, 2)
    [] letter = "s" -> ConvertAndAdd(time.second, 2)
    [] letter \in {"g", "z"} -> ConvertAndAdd(time.usec \div precision.offset, precision.width)
    [] letter = "F" -> <<IF time.hour >= 12 THEN "PM" ELSE "AM">>
    [] OTHER -> <<>>

RECURSIVE ParseFormat(_, _, _)
ParseFormat(format, time, precision) ==
  CASE format = <<>> -> <<>>
    [] Len(format) > 1 /\ format[1] = "%" ->
         (IF format[2] = "%" THEN <<"%">> ELSE FieldOf(format[2], time, precision))
           \o ParseFormat(SubSeq(format, 3, Len(format)), time, precision)
    [] OTHER -> <<format[1]>> \o ParseFormat(Tail(format), time, precision)

WidthOf(piece) == IF piece \in DOMAIN Lengths THEN Lengths[piece] ELSE 1

\* What is written behind the end of a text that fills its buffer is unknown.
DateBuffer == 30
Undefined == <<"undefined">>
TimevalToString(time, format, precision) ==
  LET date == ParseFormat(format, time, precision)
  IN IF FoldLeft(LAMBDA width, piece : width + WidthOf(piece), 0, date) >= DateBuffer THEN Undefined ELSE date

-----------------------------------------------------------------------------
(* The format of a level. *)

Specifiers == <<"app", "level", "levshort", "logger", "thread", "file", "fbase", "line", "loc", "func",
                "user", "host", "msg", "vlevel">>
DefaultDateTimeFormat == <<"%", "Y", "-", "%", "M", "-", "%", "d", " ", "%", "H", ":", "%", "m", ":", "%", "s", ",", "%", "g">>

\* Find out whether a specifier is used; behind its first use the escapes are
\* taken away, as only the first use is ever replaced.
RECURSIVE FlagFrom(_, _, _), FlagFromUnescaping(_, _, _)
\* A mutant: escapes are taken away before the first use too.
FlagFromUnescaping(format, word, from) ==
  LET at == Find(format.text, word, from) IN
  CASE at = 0 -> format
    [] at # 0 /\ ~IsEscaped(format.text, at) ->
         FlagFromUnescaping([format EXCEPT !.flags = @ \cup {word}], word, at + 1)
    [] OTHER -> FlagFromUnescaping([format EXCEPT !.text = RemoveAt(@, at - 1)], word, at + 1)
FlagFrom(format, word, from) ==
  LET at == Find(format.text, word, from) IN
  CASE at = 0 -> format
    [] at # 0 /\ ~IsEscaped(format.text, at) ->
         FlagFrom([format EXCEPT !.flags = @ \cup {word}], word, at + 1)
    [] OTHER ->
         IF word \in format.flags
         THEN FlagFrom([format EXCEPT !.text = RemoveAt(@, at - 1)], word, at + 1)
         ELSE FlagFrom(format, word, at + 1)
ConditionalAddFlag(format, word) == FlagFrom(format, word, 1)

\* Where the date goes: the first that is not escaped. A format with escaped
\* ones only has the character before its start read.
RECURSIVE DateFrom(_, _)
DateFrom(text, from) ==
  LET at == Find(text, "datetime", from)
  IN IF at # 0 /\ IsEscaped(text, at) THEN DateFrom(text, at + 1) ELSE at
OnlyEscapedDates(text) == Find(text, "datetime", 1) # 0 /\ DateFrom(text, 1) = 0

\* A format in braces behind %datetime, and how many pieces it takes.
BraceEnd(text, open) ==
  LET ends == {i \in open + 1 .. Len(text) : text[i] = "}"}
  IN IF ends = {} THEN Len(text) + 1 ELSE CHOOSE i \in ends : \A j \in ends : i <= j
UpdateDateFormat(text, at, default) ==
  LET open == at + 2 IN
  IF open <= Len(text) /\ text[open] = "{"
  THEN [text |-> SubSeq(text, 1, open - 1) \o SubSeq(text, BraceEnd(text, open) + 1, Len(text)),
        date |-> SubSeq(text, open + 1, BraceEnd(text, open) - 1)]
  ELSE [text |-> text, date |-> default]

\* What a level, the user and the host put into a format once and for all.
UpdateFormatSpec(format, level, names) ==
  LET levels == IF level = "Global" THEN format.text
                ELSE ReplaceFirstWithEscape(ReplaceFirstWithEscape(format.text, "level", <<level>>),
                                            "levshort", <<names.short>>)
      user == IF "user" \in format.flags THEN ReplaceFirstWithEscape(levels, "user", <<names.user>>) ELSE levels
  IN IF "host" \in format.flags THEN ReplaceFirstWithEscape(user, "host", <<names.host>>) ELSE user

ParseFromFormat(userFormat, level, names) ==
  LET flagged == FoldLeft(ConditionalAddFlag, [text |-> userFormat, flags |-> {}], Specifiers)
      at == DateFrom(flagged.text, 1)
      dated == UpdateDateFormat(flagged.text, at, DefaultDateTimeFormat)
      format == IF at = 0 THEN [text |-> flagged.text, flags |-> flagged.flags, date |-> <<>>]
                ELSE [text |-> dated.text, flags |-> flagged.flags \cup {"datetime"}, date |-> dated.date]
  IN IF OnlyEscapedDates(flagged.text) THEN [text |-> Undefined, flags |-> {}, date |-> <<>>]
     ELSE [format EXCEPT !.text = UpdateFormatSpec(format, level, names)]

\* Each level's format is given the id of the logger when it is configured.
ResolveLoggerFormatSpec(format, id) == [format EXCEPT !.text = ReplaceFirstWithEscape(@, "logger", <<id>>)]

\* The order in which what a message says of itself is put into the line.
BuildOrder == <<"app", "thread", "datetime", "func", "file", "fbase", "line", "loc", "vlevel", "msg">>
\* What a message says of itself; a line number has no more than eight digits.
FieldText(message, word) ==
  LET stripped == BuildStrippedFilename(message.file, SourceFilenameMaxLength)
      line == ToDigits(message.line, 8)
  IN CASE word = "file" -> stripped
       [] word = "fbase" -> BuildBaseFilename(message.file, SourceFilenameMaxLength)
       [] word = "line" -> line
       [] word = "loc" -> stripped \o <<":">> \o line
       [] word = "vlevel" -> ToDigits(message.verbosity, 1)
       [] word = "msg" -> message.text
       [] OTHER -> <<message[word]>>

BuildLine(format, message, precision) ==
  LET field(w) == IF w = "datetime" THEN TimevalToString(message.time, format.date, precision)
                  ELSE FieldText(message, w)
      used(w) == w \in format.flags /\ (w = "vlevel" => message.level = "Verbose")
  IN FoldLeft(LAMBDA text, w : IF used(w) THEN ReplaceFirstWithEscape(text, w, field(w)) ELSE text,
              format.text, BuildOrder)

-----------------------------------------------------------------------------
(* The name of a log file. *)

DefaultDateTimeFormatInFilename == <<"%", "Y", "-", "%", "M", "-", "%", "d", "_", "%", "H", "-", "%", "m">>

\* Every specifier is replaced, escaped or not.
RECURSIVE ReplaceEvery(_, _, _)
ReplaceEvery(text, word, with) ==
  LET at == Find(text, word, 1) IN
  IF at = 0 THEN text
  ELSE SubSeq(text, 1, at - 1) \o with \o ReplaceEvery(SubSeq(text, at + 2, Len(text)), word, with)

\* The date in a name has no slash: it is one element of the path.
Slashless(date) == [i \in DOMAIN date |-> IF date[i] = "/" THEN "-" ELSE date[i]]

ResolveFilename(filename, time) ==
  LET at == DateFrom(filename, 1)
      dated == UpdateDateFormat(filename, at, DefaultDateTimeFormatInFilename)
  IN CASE OnlyEscapedDates(filename) -> Undefined
       [] at = 0 -> filename
       [] OTHER -> ReplaceEvery(dated.text, "datetime",
                              Slashless(TimevalToString(time, dated.date, SubsecondPrecision(3))))
==============================================================================
