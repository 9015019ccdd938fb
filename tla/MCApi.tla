------------------------------- MODULE MCApi -------------------------------
(* Two tasks that compete for the semaphore, two application threads; or   *)
(* the program measurement_kit, with one of each; or its getopt(), on up   *)
(* to four words.                                                          *)
EXTENDS Api

Symmetry == Permutations(Task) \cup Permutations(Consumer)

OptionSpec(c, name, arg) ==
  [val |-> c, short |-> TRUE, long_name |-> name, requires_argument |-> arg]
LongOnly(c, name, arg) == [OptionSpec(c, name, arg) EXCEPT !.short = FALSE]

\* Behind the options: none, what is no option at all, one that begins like
\* another, one that would need an argument, and one that main() does not know.
Stray(name, has_arg, val) == [name |-> name, has_arg |-> has_arg, val |-> val]
MCBeyond ==
  {<<>>, <<Stray(<<>>, 0, "fault")>>, <<Stray(<<"n", "b", "x">>, optional_argument, "b")>>,
   <<Stray(<<"n", "b">>, no_argument, "b")>>,
   <<Stray(<<"b">>, 3, "9"), Stray(<<>>, 0, "fault")>>, <<Stray(<<"b", "o">>, 3, "-1")>>}

\* Names that begin alike, one of which is the beginning of others; a nettest
\* that has a flag, and one that has an argument and takes a word.
MCkv_specs ==
  <<OptionSpec("b", <<"b", "o">>, TRUE), OptionSpec("g", <<"n", "g">>, FALSE),
    OptionSpec("n", <<"n">>, FALSE), LongOnly("258", <<"n", "b", "o">>, FALSE)>>
MCMains ==
  {[specs |-> <<OptionSpec("e", <<>>, FALSE)>>, operands |-> 0],
   [specs |-> <<OptionSpec("b", <<>>, TRUE)>>, operands |-> 1]}
MCWords ==
  {<<"-", "g", "n", "b">>, <<"-", "b", "x">>, <<"-", "e", "-">>, <<"-">>, <<"-", "-">>, <<"x">>,
   <<"-", "-", "n", "b">>, <<"-", "-", "n">>, <<"-", "-", "b", "o", "=">>, <<"-", "-", "b">>,
   <<"-", "-", "n", "g", "=", "x">>, <<"-", "g", "-", "b", "o">>}
MCArgvs == UNION {[1 .. n -> MCWords] : n \in 0 .. 4}
=============================================================================
