--------------------------- MODULE SchemaUpgrade ---------------------------
(***************************************************************************)
(* What `go2 migrate` promises: the schema only ever changes by whole      *)
(* runs, one after another, each of which adds every migration its         *)
(* checkout has and the database lacks.                                    *)
(***************************************************************************)
CONSTANT Checkouts  \* for each, the set of its migrations: a set of sets

VARIABLE recorded   \* the versions in schema_migrations

Init == recorded = {}

Upgrade(files) == recorded' = recorded \cup files

Next == \E files \in Checkouts : Upgrade(files)

Spec == Init /\ [][Next]_recorded
=============================================================================
