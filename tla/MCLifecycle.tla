---------------------------- MODULE MCLifecycle ----------------------------
(* An instance of Lifecycle for TLC. *)
EXTENDS Lifecycle, TLC

\* Twice where the main thread is alone at the end; once is enough to see what
\* threads that go on can do.
MCLives == "2.7" :> 1 @@ "3.3" :> 2

=============================================================================
