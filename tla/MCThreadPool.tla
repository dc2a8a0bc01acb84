--------------------------- MODULE MCThreadPool ---------------------------
(* A small pool; a task may add any task not added yet.                    *)
EXTENDS ThreadPool
=============================================================================
