------------------------------- MODULE MCStore -------------------------------
(* A small instance of MongoStore: two URLs, with and without www, that have  *)
(* the same normalized form.                                                  *)
EXTENDS MongoStore

CONSTANTS a, wwwa, h1, h2

NormalForm == [u \in Urls |-> a]
=============================================================================
