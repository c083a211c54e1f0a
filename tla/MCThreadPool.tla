---------------------------- MODULE MCThreadPool ----------------------------
(* An instance of ThreadPool for model checking. *)
EXTENDS ThreadPool

CONSTANT s1

\* Two threads and the tasks of two workers submit to two cells again and again; s1 may
\* have both.
Tasks == [t \in SubmitThreads |-> IF t = s1 THEN 2 ELSE 1]
=============================================================================
