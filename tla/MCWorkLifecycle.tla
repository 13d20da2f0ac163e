--------------------------- MODULE MCWorkLifecycle ---------------------------
(* Small instances of WorkLifecycle and of its refinement of WorkContract. *)
EXTENDS WorkRefinement, TLC

CONSTANTS s1, s2, s3,    \* sessions
          r1, r2,        \* runs
          p1,            \* a repository
          a, b           \* sources

\* One session, and its attempts over retries and answers.
SingleRun == s1 :> r1
SingleRepository == s1 :> p1
SingleSource == s1 :> a

\* Two siblings for different sources, and a session of another run for the source of the
\* first: it may replace it, or be replaced by it.
MixedRuns == s1 :> r1 @@ s2 :> r1 @@ s3 :> r2
MixedRepositories == s1 :> p1 @@ s2 :> p1 @@ s3 :> p1
MixedSources == s1 :> a @@ s2 :> b @@ s3 :> a

LimitOne == [r \in Run |-> 1]
CapacityOne == [w \in Worker |-> 1]
=============================================================================
