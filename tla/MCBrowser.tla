------------------------------ MODULE MCBrowser ------------------------------
(***************************************************************************)
(* Browser for TLC: no file is a link, so the files are interchangeable.    *)
(***************************************************************************)
EXTENDS Browser, TLC

\* rand(): the first two numbers are the same modulo 2.
Numbers == [k \in 0..MaxCalls |-> 2 * k]

Alphabet == {<<"a", "b">>}

\* What the properties of the run and all later steps depend on: not the
\* histories of Trash, except where a file in the trash came from.
Seen == <<fsVars, now, progVars, toolVars, browserVars, made, names,
          [c \in {files[i] : i \in Ids} \ {None} |-> origin[c]]>>

Symmetry == Permutations(Content)

=============================================================================
