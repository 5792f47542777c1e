----------------------------- MODULE MCMigrations -----------------------------
(* Instances of Migrations for TLC. *)
EXTENDS Migrations, TLC

\* The second file runs without a transaction, statement by statement.
OneOfTwoStatements == <<1, 2, 1, 1>>

\* The first and the third file and the first statement of the second repeat.
SomeRepeat == {<<1, 1>>, <<2, 1>>, <<3, 1>>}

Interchangeable == Permutations(Posts)
=============================================================================
