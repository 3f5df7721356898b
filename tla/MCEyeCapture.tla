---------------------------- MODULE MCEyeCapture ----------------------------
(* Two processes, the one undisturbed, or only one, with more of the faults.    *)
EXTENDS EyeCapture
CONSTANTS p, q
MCFaults == {[x \in Procs |-> IF x = p THEN f[1] ELSE f[2]] :
               f \in {<<{"signal", "refuse"}, {}>>, <<{"io"}, {}>>, <<{"signal", "io"}, {"absent"}>>,
                     <<{"signal", "refuse", "io", "nofd", "errno"}, {"absent"}>>}}
=============================================================================
