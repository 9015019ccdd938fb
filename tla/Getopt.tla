------------------------------- MODULE Getopt -------------------------------
(***************************************************************************)
(* getopt() and getopt_long() as the program measurement_kit uses them     *)
(* where it brings its own (portable/getopt_long.c): once for the options  *)
(* before the name of the nettest, then, after a reset of its static       *)
(* variables, for those behind it (main.cpp).                              *)
(*                                                                         *)
(* A word of the command line is a sequence of characters.  The option     *)
(* strings are those that as_getopt_string() makes, which begin with `+',  *)
(* and those of the nettests, scanned without FLAG_PERMUTE: no word is     *)
(* ever moved, and permute_args() is not reached.                          *)
(*                                                                         *)
(* as_long_options() puts no option without a name last, and getopt_long() *)
(* goes on until it has seen one or has found the whole of the name it is  *)
(* looking for.  For a name that is abbreviated, or unknown, it reads what *)
(* is in memory behind the vector: anything, and what it finds is an       *)
(* option like the others.                                                 *)
(***************************************************************************)
EXTENDS Integers, Sequences, SequencesExt

CONSTANTS
  kv_specs,  \* the options of the program: a sequence of OptionSpec
  Beyond,    \* what may be behind the long options in memory, up to a NULL name
  Mains,     \* the nettests: their options, and how many words they take
  Argvs      \* the command lines, without the name of the program

\* Characters, and the numbers of the options that are not one.
Sign == STRING \ {"NULL"}

no_argument == 0
required_argument == 1
optional_argument == 2

\* What OptionSpec's are: no letter is one of getopt()'s own signs.
Options(specs) ==
  /\ specs \in Seq([val : Sign, short : BOOLEAN, long_name : Seq(Sign),
                    requires_argument : BOOLEAN])
  /\ \A i \in DOMAIN specs : specs[i].val \notin {"?", "-1", "-", ":", "fault"}

\* No two options of the program have the same name or val.  Behind them is
\* anything that can be read as an option; val is "fault" where the name is no
\* pointer, and a flag, or a val that is no option, is some other val.
ASSUME GetoptConstants ==
  /\ Options(kv_specs) /\ kv_specs # <<>>
  /\ \A i, j \in DOMAIN kv_specs :
       kv_specs[i].long_name = kv_specs[j].long_name \/ kv_specs[i].val = kv_specs[j].val => i = j
  /\ Beyond \subseteq Seq([name : Seq(Sign), has_arg : Nat, val : Sign])
  /\ \A main \in Mains : Options(main.specs) /\ main.operands \in Nat
  /\ Argvs \subseteq Seq(Seq(Sign))

VARIABLES
  argv,      \* the words that are scanned
  stage,     \* "unused", "global", "own", "run", "usage", "fault"
  scan,      \* optind, optreset and place
  returned,  \* history: what each stage was handed, in order
  typed      \* history: the words, as they were at first, and the nettest

getoptVars == <<argv, stage, scan, returned, typed>>

EMSG == <<>>
NULL == <<"NULL">>

-----------------------------------------------------------------------------
(* The two ways to tell the options.                                       *)

as_long_options(specs) ==
  [i \in DOMAIN specs |-> [name |-> specs[i].long_name, val |-> specs[i].val,
                           has_arg |-> IF specs[i].requires_argument THEN required_argument
                                       ELSE no_argument]]

\* The options whose val is a character; others have only their long name.
as_getopt_string(specs) ==
  {<<specs[i].val, specs[i].requires_argument>> : i \in {j \in DOMAIN specs : specs[j].short}}

Lists(options, c) == \E arg \in BOOLEAN : <<c, arg>> \in options
Wants(options, c) == <<c, TRUE>> \in options

-----------------------------------------------------------------------------
(* The scanner.  Its answer is the option, optarg and the static variables.*)

Answer(ch, optarg, s) == [ch |-> ch, optarg |-> optarg, scan |-> s]
BADCH(s) == Answer("?", NULL, s)
Done(s) == Answer("-1", NULL, s)

\* nargv[i], which is NULL for i = nargc.
Word(i) == IF i \in DOMAIN argv THEN argv[i] ELSE NULL

\* The first of some options.
First(found) == CHOOSE i \in found : \A j \in found : i <= j
Exact(key, longs) == {i \in DOMAIN longs : longs[i].name = key}
Partial(key, longs) == {i \in DOMAIN longs : IsPrefix(key, longs[i].name)}

\* A name is read that is none, before the one that ends the search.
Strays(key, longs) ==
  \E i \in DOMAIN longs : longs[i].val = "fault" /\ \A j \in Exact(key, longs) : i < j

\* None, or some that differ in more than their names.
Unclear(key, longs) ==
  LET partial == Partial(key, longs)
      first == longs[First(partial)]
  IN /\ Exact(key, longs) = {}
     /\ partial = {} \/ \E i \in partial : longs[i].has_arg # first.has_arg \/ longs[i].val # first.val

Match(key, longs) ==
  First(IF Exact(key, longs) # {} THEN Exact(key, longs) ELSE Partial(key, longs))

parse_long_options(text, longs, s) ==
  LET equals == {i \in DOMAIN text : text[i] = "="}
      key == IF equals = {} THEN text ELSE SubSeq(text, 1, First(equals) - 1)
      value == SubSeq(text, First(equals) + 1, Len(text))
      after == [s EXCEPT !.optind = @ + 1, !.place = EMSG]
      option == longs[Match(key, longs)]
  IN CASE Strays(key, longs) -> Answer("fault", NULL, after)
       [] Unclear(key, longs) /\ ~Strays(key, longs) -> BADCH(after)
       [] OTHER ->
            CASE option.has_arg = no_argument /\ equals # {} -> BADCH(after)
              [] option.has_arg = required_argument /\ equals = {} ->
                   IF Word(after.optind) = NULL THEN BADCH(after)
                   ELSE Answer(option.val, Word(after.optind), [after EXCEPT !.optind = @ + 1])
              [] option.has_arg \in {required_argument, optional_argument} /\ equals # {} ->
                   Answer(option.val, value, after)
              [] OTHER -> Answer(option.val, NULL, after)

\* An option letter, and what is left of its word.
OptionLetter(options, s) ==
  LET c == Head(s.place)
      rest == Tail(s.place)
      next == [s EXCEPT !.optind = @ + 1, !.place = EMSG]
      this == IF rest = EMSG THEN next ELSE [s EXCEPT !.place = rest]
  IN CASE ~Lists(options, c) /\ c = "-" /\ rest = EMSG -> Done([s EXCEPT !.place = EMSG])
       [] ~Lists(options, c) /\ ~(c = "-" /\ rest = EMSG) -> BADCH(this)
       [] Lists(options, c) /\ ~Wants(options, c) -> Answer(c, NULL, this)
       [] Wants(options, c) /\ rest # EMSG -> Answer(c, rest, next)
       [] OTHER ->
            IF Word(next.optind) = NULL THEN BADCH(next)
            ELSE Answer(c, Word(next.optind), [next EXCEPT !.optind = @ + 1])

\* A long option, also behind letters of the same word, or a letter.
Option(options, longs, s) ==
  IF longs # <<>> /\ Head(s.place) = "-"
  THEN parse_long_options(Tail(s.place), longs, s)
  ELSE OptionLetter(options, s)

getopt_internal(options, longs) ==
  LET s == [scan EXCEPT !.optreset = FALSE]
      word == Word(s.optind)
  IN IF ~scan.optreset /\ scan.place # EMSG THEN Option(options, longs, s)
     ELSE CASE word = NULL -> Done([s EXCEPT !.place = EMSG])
            [] word # NULL /\ (word = EMSG \/ Head(word) # "-" \/ Len(word) = 1) ->
                 Done([s EXCEPT !.place = EMSG])
            [] word = <<"-", "-">> -> Done([s EXCEPT !.optind = @ + 1, !.place = EMSG])
            [] OTHER -> Option(options, longs, [s EXCEPT !.place = Tail(word)])

getopt_long(beyond) ==
  getopt_internal(as_getopt_string(kv_specs), as_long_options(kv_specs) \o beyond)
getopt == getopt_internal(as_getopt_string(typed.main.specs), <<>>)

-----------------------------------------------------------------------------
(* main(), and the main() of the nettest.                                  *)

GetoptIdle == argv = <<>> /\ stage = "unused" /\ scan = <<>> /\ returned = <<>> /\ typed = <<>>

GetoptInit ==
  /\ argv \in Argvs /\ stage = "global"
  /\ \E main \in Mains : typed = [words |-> argv, main |-> main]
  /\ scan = [optind |-> 1, optreset |-> FALSE, place |-> EMSG]
  /\ returned = [global |-> <<>>, own |-> <<>>]

Take(a) ==
  /\ returned' = [returned EXCEPT ![stage] = Append(@, [ch |-> a.ch, optarg |-> a.optarg])]
  /\ scan' = a.scan
  /\ UNCHANGED <<argv, stage, typed>>

Usage == stage' = "usage" /\ UNCHANGED <<argv, scan, returned, typed>>

\* Mutant of Reset: the scan goes on where it was, in the new words.
ResetNothing(s) == s

\* optreset = 1, optind = 1
Reset(s) == [s EXCEPT !.optreset = TRUE, !.optind = 1]

\* The words from the name of the nettest on are the argv of its main().
NextStage(s) ==
  /\ stage' = "own" /\ scan' = Reset(s)
  /\ argv' = SubSeq(argv, s.optind + 1, Len(argv))
  /\ UNCHANGED <<returned, typed>>

Fault == stage' = "fault" /\ UNCHANGED <<argv, scan, returned, typed>>

\* The options that main() has a case for, and those of them that it makes a
\* string of the argument of.
Known(ch) == \E i \in DOMAIN kv_specs : kv_specs[i].val = ch
Uses(ch) == \E i \in DOMAIN kv_specs : kv_specs[i].val = ch /\ kv_specs[i].requires_argument

GlobalScan ==
  /\ stage = "global"
  /\ \E beyond \in Beyond :
       LET a == getopt_long(beyond)
       IN CASE a.ch = "-1" -> IF a.scan.optind > Len(argv) THEN Usage ELSE NextStage(a.scan)
            [] a.ch = "fault" \/ (Uses(a.ch) /\ a.optarg = NULL) -> Fault
            [] Known(a.ch) /\ ~(Uses(a.ch) /\ a.optarg = NULL) -> Take(a)
            [] OTHER -> Usage

OwnScan ==
  /\ stage = "own"
  /\ LET a == getopt
     IN CASE a.ch = "?" -> Usage
          [] a.ch = "-1" ->
               IF Len(argv) - a.scan.optind + 1 > typed.main.operands THEN Usage ELSE
               /\ stage' = "run" /\ scan' = a.scan
               /\ argv' = SubSeq(argv, a.scan.optind, Len(argv))
               /\ UNCHANGED <<returned, typed>>
          [] OTHER -> Take(a)

GetoptNext == GlobalScan \/ OwnScan
GetoptOver == stage \in {"run", "usage", "fault"} /\ UNCHANGED getoptVars

-----------------------------------------------------------------------------
(* What a command line means, a word at a time.                            *)

\* What is no option, what is left behind the last option, and what does not say
\* what it means: a long option that is not written in full.
Bad == [options |-> <<>>, rest |-> <<>>, bad |-> TRUE, open |-> FALSE]
Ends(ws) == [options |-> <<>>, rest |-> ws, bad |-> FALSE, open |-> FALSE]
Open == [options |-> <<>>, rest |-> <<>>, bad |-> FALSE, open |-> TRUE]
IsOption(w) == Len(w) > 1 /\ w[1] = "-"

Named(specs, key) == {i \in DOMAIN specs : specs[i].long_name = key}

\* An option, before what more there is.
Before(options, more) == [more EXCEPT !.options = options \o @]
WithText(c, text, more) == Before(<<[ch |-> c, optarg |-> text]>>, more)

\* An argument is in the same word, or else it is the next word.  The words from
\* this one on are ws, and what the words after it mean, and those after the
\* next one, is one and two.
Argument(c, own, ws, one, two) ==
  IF own # <<>> THEN WithText(c, own, one)
  ELSE IF Len(ws) = 1 THEN Bad ELSE WithText(c, ws[2], two)

\* A name, and maybe a text after an equals sign.
LongMeaning(specs, text, ws, one, two) ==
  LET equals == {i \in DOMAIN text : text[i] = "="}
      e == IF equals = {} THEN Len(text) + 1 ELSE CHOOSE i \in equals : \A j \in equals : i <= j
      named == Named(specs, SubSeq(text, 1, e - 1))
      option == specs[CHOOSE i \in named : TRUE]
  IN IF named = {} THEN Open
     ELSE IF equals # {} /\ ~option.requires_argument THEN Bad
     ELSE IF equals # {} THEN WithText(option.val, SubSeq(text, e + 1, Len(text)), one)
     ELSE IF option.requires_argument THEN Argument(option.val, <<>>, ws, one, two)
     ELSE WithText(option.val, NULL, one)

\* Flags, and then an option with its argument, or a long one.  A dash behind
\* flags leaves the word where it is, if there are no long options.
LettersMeaning(specs, long, letters, ws, one, two) ==
  LET options == as_getopt_string(specs)
      Flag(j) == Lists(options, letters[j]) /\ ~Wants(options, letters[j])
      n == CHOOSE n \in 0 .. Len(letters) :
             /\ \A j \in 1 .. n : Flag(j)
             /\ n < Len(letters) => ~Flag(n + 1)
      tail == SubSeq(letters, n + 1, Len(letters))
      meaning ==
        IF tail = <<>> THEN one
        ELSE IF long /\ tail[1] = "-" THEN LongMeaning(specs, Tail(tail), ws, one, two)
        ELSE IF tail = <<"-">> THEN Ends(ws)
        ELSE IF Wants(options, tail[1]) THEN Argument(tail[1], Tail(tail), ws, one, two)
        ELSE Bad
  IN Before([j \in 1 .. n |-> [ch |-> letters[j], optarg |-> NULL]], meaning)

\* Of the last k words, for each k.
Meanings(specs, long, words) ==
  LET last[k \in 0 .. Len(words)] ==
        LET ws == SubSeq(words, Len(words) - k + 1, Len(words))
        IN IF k = 0 \/ ~IsOption(ws[1]) THEN Ends(ws)
           ELSE IF ws[1] = <<"-", "-">> THEN Ends(Tail(ws))
           ELSE LettersMeaning(specs, long, Tail(ws[1]), ws, last[k - 1],
                               IF k > 1 THEN last[k - 2] ELSE Bad)
  IN last

Meaning(specs, long, words) == Meanings(specs, long, words)[Len(words)]

\* As long as the user writes long options in full, the program and the nettest
\* are handed what was written, each its own options with their arguments, and
\* the words that are left; the usage is shown only for what has no meaning, and
\* whatever is behind the long options in memory makes no difference.  (A long
\* option that is not written in full may do anything, main.cpp:87.)
OptionsAsWritten ==
  LET first == Meaning(kv_specs, TRUE, typed.words)
      second == Meaning(typed.main.specs, FALSE, Tail(first.rest))
      meant == /\ ~first.bad /\ first.rest # <<>>
               /\ ~second.bad /\ Len(second.rest) <= typed.main.operands
  IN stage \in {"run", "usage", "fault"} /\ ~first.open =>
       /\ stage # "fault"
       /\ stage = "run" <=> meant
       /\ stage = "run" => /\ argv = second.rest
                           /\ returned = [global |-> first.options, own |-> second.options]

=============================================================================
