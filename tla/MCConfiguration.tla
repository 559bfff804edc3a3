-------------------------- MODULE MCConfiguration --------------------------
(* An instance of Configuration for TLC: ints of four bits, and command    *)
(* lines that vary two or three options at a time.                         *)
EXTENDS Configuration

Probs == {-5000000, 0, 3, 1234567, 5000000, 9999997, 10000000, 15000000}

Env(root, mac, home) == [root |-> root, mac |-> mac, xdg |-> TRUE, home |-> home]
Envs == {Env(TRUE, FALSE, TRUE), Env(FALSE, FALSE, TRUE), Env(FALSE, TRUE, FALSE)}

Line(first, name, options) ==
  [first |-> first, name |-> name, options |-> options]

Plain == [NoOptions EXCEPT !.frequency = 5, !.command = "word"]

Timings ==
  {[Plain EXCEPT !.frequency = f, !.jitter = j] :
     f \in {-8, 0, 1, 5, 7}, j \in {Absent, -1, 3, 7}}

Chances ==
  {[Plain EXCEPT !.fire_probability = p, !.synchronous = s] :
     p \in Probs \cup {Absent, NaN}, s \in {Absent, "yes", "no"}}

Texts ==
  {[Plain EXCEPT !.command = t, !.jitter = 3, !.jitter_distribution = d] :
     t \in {"word", "blank", "dollar", "quote", "apostrophe", "markup"},
     d \in {"uniform", "normal", "blank"}}

Dirs == {[NoOptions EXCEPT !.data_dir = d] : d \in {Absent, "absolute", "relative", "blank"}}

Malformed ==
  {[Plain EXCEPT !.frequency = 8], [Plain EXCEPT !.jitter = -9],
   [Plain EXCEPT !.command = ""], [Plain EXCEPT !.frequency = Absent],
   [Plain EXCEPT !.help = "yes"], [Plain EXCEPT !.pid_file = "absolute"]}

Installs ==
  {Line("install", "word", o) : o \in Timings \cup Chances \cup Texts \cup Malformed}
    \cup {Line("install", n, [Plain EXCEPT !.data_dir = o.data_dir]) :
            n \in {"word", "blank", "", Absent}, o \in Dirs}

Named ==
  {Line(first, n, o) : first \in {"start", "remove"}, n \in {"word", "blank", ""},
                       o \in Dirs}

Runs ==
  {Line(first, Absent, o) :
     first \in {"run", "-"},
     o \in {[Plain EXCEPT !.frequency = f, !.jitter = 7, !.pid_file = p] :
              f \in {0, 7}, p \in {Absent, "absolute", "relative"}}
            \cup {[Plain EXCEPT !.fire_probability = NaN]}}

Lines == Installs \cup Named \cup Runs

=============================================================================
