-------------------------------- MODULE MCFdt -------------------------------
(* Trees: one whose root and first node have properties with data that     *)
(* looks like tags, and one with a node two levels down, as in the example *)
(* of docs/ENHANCEMENTS_PHASE2.md, and nothing else in the way; one        *)
(* without nodes under the root, and one that is cut off.                  *)
EXTENDS Fdt

Flat ==
  << BeginNode(""), Prop("model", <<"begin", "end">>, 5), Nop, Prop("reg", <<"fin">>, 4),
       BeginNode("a"), Prop("status", <<"begin">>, 2), Nop, Prop("reg", <<"prop", "begin">>, 8),
       EndNode,
       BeginNode("b"), Prop("reg", <<"end">>, 4), EndNode,
     EndNode, Fin >>

Nested ==
  << BeginNode(""),
       BeginNode("a"), BeginNode("b"), Prop("reg", <<"end">>, 4), EndNode, EndNode,
     EndNode, Fin >>

Childless == << BeginNode(""), Prop("model", <<"begin">>, 4), EndNode, Fin >>

Cut == << BeginNode(""), Nop, Fin >>

MCBlobs == {Flat, Nested, Childless, Cut}
MCPaths == {<<>>, <<"a">>, <<"b">>, <<"a", "b">>, <<"a", "a">>}
=============================================================================
