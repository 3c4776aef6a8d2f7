-------------------------- MODULE MCSchemaOverlay --------------------------
EXTENDS SchemaOverlay

MCNames == {"a", "b"}
MCValues == {"1", "x"}
MCTypes == {"integer", "string"}
MCFits(t, v) == t = "integer" => v = "1"

MCTemplates ==
  {[types |-> [a |-> "string"], plan |-> Implicit],
   [types |-> [b |-> "string"], plan |-> Implicit],
   [types |-> [b |-> "integer"], plan |-> [audit |-> TRUE, newest |-> {}]],
   [types |-> [a |-> "string", b |-> "string"], plan |-> [audit |-> TRUE, newest |-> {"a"}]]}
MCSources ==
  {[props |-> [a |-> "1"], time |-> 1], [props |-> [a |-> "x", b |-> "1"], time |-> 2]}
MCPatches ==
  {[props |-> [a |-> "1"], cleared |-> {}, at |-> 1],
   [props |-> [b |-> "x"], cleared |-> {"a"}, at |-> NoTime]}
=============================================================================
