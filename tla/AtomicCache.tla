---------------------------- MODULE AtomicCache ----------------------------
(***************************************************************************)
(* What LookupCache promises its callers: every method is one atomic step  *)
(* on a complete document, whichever processes and threads share the file  *)
(* and wherever one of them dies.                                          *)
(***************************************************************************)
CONSTANTS
    Ops,           \* calls of the methods
    Unreadable,    \* file states that are read as the empty document
    EmptyDoc,
    Apply(_, _)    \* document left by a call on a document

VARIABLE file      \* the document on disk, or why it cannot be read

Load(f) == IF f \in Unreadable THEN EmptyDoc ELSE f

Init == file \in Unreadable \cup {EmptyDoc}

Method(op) == file' = Apply(op, Load(file))

Next == \E op \in Ops : Method(op)

Spec == Init /\ [][Next]_file
=============================================================================
