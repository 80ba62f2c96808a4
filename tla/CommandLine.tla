---------------------------- MODULE CommandLine ----------------------------
(***************************************************************************)
(* get_params (two_way.cpp): one command line for two parsers.  The first  *)
(* is getopt_long with the long options of two_way, which stops at the     *)
(* first word that is not an option; the second is rttest_read_args, which *)
(* is given what the arithmetic on optind leaves of argc and argv.         *)
(***************************************************************************)
EXTENDS Integers, Sequences, FiniteSetsExt

(* The words of a command line, as getopt_long tells them apart: an option *)
(* of two_way whose argument is the next word (--o v) or joined to it      *)
(* (--o=v), any other word that starts with a dash, and the rest.           *)
Word(v)      == [kind |-> "word", name |-> "none", text |-> v]
Option(o)    == [kind |-> "option", name |-> o, text |-> "none"]
Joined(o, v) == [kind |-> "joined", name |-> o, text |-> v]
Unknown(o)   == [kind |-> "unknown", name |-> o, text |-> "none"]

NextWord(line, i) == IF line[i].kind = "option" THEN i + 2 ELSE i + 1

\* Where getopt_long comes by: the least set of positions that has the first
\* one in it and, behind each word that it does not stop at, the next.
Passes(line, S) ==
  1 \in S /\ \A i \in S : i <= Len(line) /\ line[i].kind # "word" =>
                          NextWord(line, i) \in S

Walk(line) ==
  {i \in 1..(Len(line) + 2) :
     \A S \in SUBSET (1..(Len(line) + 2)) : Passes(line, S) => i \in S}

\* The positions at which it finds an option before it stops.
Reached(line) == {i \in Walk(line) : i <= Len(line) /\ line[i].kind # "word"}

optind(line) ==
  IF Reached(line) = {} THEN 1
  ELSE Min({NextWord(line, Max(Reached(line))), Len(line) + 1})

\* The argument of the last option o that has one; an empty string if none.
optarg(line, i) ==
  IF line[i].kind = "joined" THEN line[i].text ELSE line[i + 1].text

Value(line, o) ==
  LET heard == {i \in Reached(line) : /\ line[i].kind \in {"option", "joined"}
                                      /\ line[i].name = o
                                      /\ line[i] = Option(o) => i < Len(line)}
  IN IF heard = {} THEN "" ELSE optarg(line, Max(heard))

\* A wrong step back: by one word.
ToRttestShort(line) ==
  SubSeq(<< Word("two_way") >> \o line, optind(line) + 1, Len(line) + 1)

\* What rttest_read_args finds from argv[1] on after argv += optind - 2: the
\* last word that getopt_long has passed over, and everything behind it.
ToRttest(line) ==
  SubSeq(<< Word("two_way") >> \o line, optind(line), Len(line) + 1)

LayerNames == {"rclcpp", "rcl", "rmw", "dds"}

\* What main makes of it: --side matters for --type inter only, and any other
\* string, or none, starts no thread.
GetParams(line) ==
  [layer |-> IF Value(line, "layer") \in LayerNames
             THEN Value(line, "layer") ELSE "other",
   run   |-> CASE Value(line, "type") = "intra" -> "intra"
               [] /\ Value(line, "type") = "inter"
                  /\ Value(line, "side") = "ping" -> "inter ping"
               [] /\ Value(line, "type") = "inter"
                  /\ Value(line, "side") = "pong" -> "inter pong"
               [] OTHER -> "other"]

-----------------------------------------------------------------------------
(* Command lines to check: each way to run the program in one of the forms  *)
(* a user may choose, and some that name no layer or no type in time.       *)

Form(joined, o, v) ==
  IF joined THEN << Joined(o, v) >> ELSE << Option(o), Word(v) >>

Own(joined, layer, run) ==
  Form(joined, "layer", layer)
  \o (CASE run = "intra" -> Form(~joined, "type", "intra")
        [] run = "inter ping" -> Form(joined, "side", "ping")
                                 \o Form(joined, "type", "inter")
        [] run = "inter pong" -> Form(~joined, "type", "inter")
                                 \o Form(joined, "side", "pong"))

Rttest ==
  [rclcpp |-> << Unknown("i"), Word("1000"), Unknown("u"), Word("10ms") >>,
   rcl    |-> << Unknown("i"), Word("1000"), Unknown("u10ms") >>,
   rmw    |-> << Unknown("u"), Word("10ms"), Option("layer"), Word("dds") >>,
   dds    |-> << >>]

Runs == {"intra", "inter ping", "inter pong"}

Usage(layer, run) ==
  Own(layer \in {"rclcpp", "rmw"}, layer, run) \o Rttest[layer]

Usages == {Usage(layer, run) : layer \in LayerNames, run \in Runs}

OtherLines ==
  { << >>,                                               \* nothing
    Own(TRUE, "rmw", "inter pong") \o << Option("side") >>,
    << Option("type"), Word("intra"), Option("layer") >>, \* no argument
    << Option("layer"), Option("type"), Word("intra") >>, \* taken as one
    << Unknown("i"), Word("1000"), Joined("layer", "rcl") >>,
    << Unknown("i1000"), Joined("type", "inter"), Unknown("u10ms") >>,
    << Joined("layer", "rmw"), Joined("pong_topn_filename", "top.csv"),
       Word("intra"), Option("type"), Word("intra") >>,
    << Option("layer"), Word("rcl"), Option("ping_hist_filename"),
       Word("hist.csv"), Unknown("i"), Word("1000") >> }

Lines == Usages \cup OtherLines
=============================================================================
