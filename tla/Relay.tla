------------------------------- MODULE Relay -------------------------------
(***************************************************************************)
(* What the client of a stream is promised: it reads what the upstream     *)
(* said, as far as it is meant for clients, in order; nothing is lost,     *)
(* repeated, reordered or invented.  It may be cut short.                  *)
(***************************************************************************)
EXTENDS Integers, Sequences, SequencesExt

CONSTANT
    Shown(_, _) \* the items, as <<frame number, part>>, of a list of frames
                \* that clients of a mode get to see

VARIABLES
    mode,       \* how the stream is rendered
    said,       \* the frames of the upstream so far
    read        \* the items the client has read so far

vars == <<mode, said, read>>

Before(p, q) == p[1] < q[1] \/ (p[1] = q[1] /\ p[2] < q[2])

Init == said = <<>> /\ read = <<>>

Say == IsPrefix(said, said') /\ UNCHANGED <<mode, read>>

\* The next item: the first one of those shown that has not been read.
Read ==
    /\ \E p \in Shown(mode, said) :
          /\ p \notin Range(read)
          /\ \A q \in Shown(mode, said) : Before(q, p) => q \in Range(read)
          /\ \A q \in Range(read) : Before(q, p)
          /\ read' = Append(read, p)
    /\ UNCHANGED <<mode, said>>

Spec == Init /\ [][Say \/ Read]_vars
=============================================================================
