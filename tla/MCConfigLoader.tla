------------------------- MODULE MCConfigLoader -------------------------
(* A small instance of ConfigLoader: two files, one remote item. *)
EXTENDS ConfigLoader

H == <<"host">>
DB == <<"db">>
DBHost == <<"db", "host">>

MCPaths == {H, DB, DBHost}
MCDefault == Lit(<<>>, 0)

(* host: a, db.host: ${host} | db: text${host} *)
Nested == (H :> Lit(<<"a">>, 0)) @@ (DBHost :> Whole(H)) @@ (DB :> Nil)
Flat == (DB :> Part(H, 1)) @@ (H :> Nil) @@ (DBHost :> Nil)
MCFileContents == [base |-> {Nested}, local |-> {Flat}]

(* host: ${db.host}, circular over Nested *)
Back == (H :> Whole(DBHost)) @@ (DB :> Nil) @@ (DBHost :> Nil)
MCItemContents == [remote |-> {Back}]

SetHost(v) == [p \in MCPaths |-> IF p = H THEN Lit(v, 0) ELSE Nil]
MCEnvContents == {SetHost(<<"e1">>), SetHost(<<"e2">>)}

MCFileOrder == <<"base", "local">>
MCItemOrder == <<"remote">>
=======================================================================
