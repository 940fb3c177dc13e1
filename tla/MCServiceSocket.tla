--------------------------- MODULE MCServiceSocket ---------------------------
(* Values for the constants of ServiceSocket. *)
EXTENDS ServiceSocket, TLC

\* A peer writes whole lines: one command, or two in one piece.
WholeLines == { <<"pause", "CRLF">>, <<"junk", "CRLF", "terminate", "CRLF">> }

\* A peer writes the beginning of a line, or an empty line before a command.
Fragments == { <<"junk">>, <<"CRLF", "pause", "CRLF">> }

\* Neither controllers nor addresses are told apart by anything but their identity.
Symmetry == Permutations(Controllers) \cup Permutations(Addrs)
=============================================================================
