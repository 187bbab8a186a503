---------------------------- MODULE MCDriftCheck ----------------------------
(* Two messages, agent and mcp; agent may refer to mcp.  Shapes differ from *)
(* the plain one in one respect each.                                       *)
EXTENDS DriftCheck, TLC

MCTableNames == <<"agent", "mcp">>

TextColumn(name) == [name |-> name, type |-> "TEXT", default |-> <<>>, generated |-> ""]

Base == [columns |-> {TextColumn("id")}, key |-> <<"id">>, checks |-> {}, indexes |-> {}, rls |-> TRUE,
         policies |-> {[name |-> "tenant", role |-> "app"]}, comment |-> "", fks |-> {}, partition |-> ""]

WithColumn == [Base EXCEPT !.columns = @ \cup {[TextColumn("mcp_id") EXCEPT !.default = <<"''", "text">>]},
                           !.checks = {[name |-> "c", body |-> "x"]}, !.comment = "an agent"]

WithReference == [WithColumn EXCEPT
  !.indexes = {[name |-> "fk_idx", columns |-> <<"mcp_id">>]},
  !.fks = {[name |-> "fk", columns |-> <<"mcp_id">>, target |-> "mcp", validated |-> TRUE]}]

OtherRole == [Base EXCEPT !.policies = {[name |-> "tenant", role |-> "other"]}]

MCShapes == "agent" :> {Base, WithReference} @@ "mcp" :> {Base, OtherRole}

MCScopes == {{}, {"agent"}}

(* Shapes that differ in the expression of a generated column.              *)
Generated(e) == [Base EXCEPT !.columns = @ \cup {[TextColumn("label") EXCEPT !.generated = e]}]

MCShapesUnread == "agent" :> {Generated("lower(id)"), Generated("upper(id)")} @@ "mcp" :> {}
=============================================================================
