--------------------------- MODULE MCDeadLetters ----------------------------
(* DeadLetters on small instances.                                         *)
EXTENDS DeadLetters, TLC

\* Appends in progress are interchangeable, and so are the index keys when
\* Naming and Persons treat them alike.
Symmetry == Permutations(Appenders) \cup Permutations(Contacts)
=============================================================================
