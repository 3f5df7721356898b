------------------------------- MODULE Script -------------------------------
(* The steps a command line command, or a library function of several MRPC     *)
(* commands, is made of.  Such a function is written as a script: its tests,    *)
(* questions and MRPC commands in their order.  Shell runs the scripts of       *)
(* several processes against one switch.                                       *)

\* Nothing (more) to do; and one thing after the other.
Skip   == [k |-> "skip"]
a ++ b == [k |-> "then", now |-> a, then |-> b]

\* if (!(f is one of S)) return an error.  f names what the process knows: what
\* it was told when it opened the device (gen, phase), the result of its last
\* command (res: "ok"; "mrpc", an error > 0; "sys", an error < 0; "err", a test
\* that failed), and the answers to its commands.
Need(f, S) == [k |-> "need", f |-> f, in |-> S]

\* if (f is one of S) { steps }
When(f, S, steps) == [k |-> "when", f |-> f, in |-> S, steps |-> steps]

\* if (f is one of S) { steps } else { others }
IfElse(f, S, steps, others) ==
  [k |-> "if", f |-> f, in |-> S, steps |-> steps, others |-> others]

\* if (f is one of S) { steps; return }
Instead(f, S, steps) == When(f, S, steps ++ [k |-> "leave"])

\* if (an option of S is given) { steps }
WhenOpt(S, steps) == [k |-> "opt", in |-> S, given |-> TRUE, steps |-> steps]

\* case (an option of S): steps; break; in a switch that ends the function.
Case(S, steps) == WhenOpt(S, steps ++ [k |-> "leave"])

\* if (no option of S is given) { steps }
UnlessOpt(S, steps) == [k |-> "opt", in |-> S, given |-> FALSE, steps |-> steps]

\* while (!(f is one of S)) { steps }
Until(f, S, steps) == [k |-> "until", f |-> f, in |-> S, steps |-> steps]

\* for (i = 0; i < n; i++) { steps }
Times(n, steps) == [k |-> "times", n |-> n, steps |-> steps]

\* return an error.
Fails == Need("res", {})

\* Options, files and answers that may turn out to be unusable.
Input == [k |-> "input"]

\* ask_if_sure: the user agrees (or said --yes), or the command ends.
Confirm == [k |-> "confirm"]

\* ret = command; if (ret) return ret.
Cmd(c) == [k |-> "cmd", c |-> c]

\* switchtec_cmd_nopoll: the command is sent, nobody waits for its end.
Post(c) == [k |-> "post", c |-> c]

\* res = steps(); what fails in the steps, or leaves them, ends the steps, not
\* the caller.
Try(steps) == [k |-> "try", steps |-> steps]

\* Keep the result of the last command in a variable of its own.
SaveResult == [k |-> "save"]

\* A command of the menu: the script, and the sets of options it is run with.
Entry(script, opts) == [script |-> script, opts |-> opts]
Plain(script) == Entry(script, {{}})
=============================================================================
