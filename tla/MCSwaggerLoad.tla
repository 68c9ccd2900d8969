---------------------------- MODULE MCSwaggerLoad ----------------------------
(* Small instances of SwaggerLoad for TLC.                                 *)
EXTENDS SwaggerLoad

Ref(h, n, a) == [host |-> h, name |-> n, as |-> a]

Doc(ms, rs, hs, os) ==
    [kind |-> "2.0", models |-> ms, refs |-> rs, hosts |-> hs, operations |-> os]

Listed(names) == [kind |-> "listing", resources |-> names]

Declared(n, ms) ==
    [kind |-> "declaration", name |-> n, newName |-> n, models |-> ms, operations |-> 1]

\* A document for each way a load can go: several tags, a tag that collides, no
\* tag; one and two hosts of references; listings of no, one and two resources;
\* single declarations.  Of the 1.x resources only "pets" is not named like a
\* field: the others are one that only a failure or a relative path needs, one
\* that the end of the load waits for, and those that it calls or reads.
SomeDescriptions ==
    { Doc({"Pet"}, {}, <<>>, <<<<"pets", "store">>, <<"store">>, <<>>>>),
      Doc({"Pet"}, {}, <<>>, <<<<"pets">>, <<"store", "info">>>>),
      Doc({"Pet"}, {Ref("h1", "Pet", "$ref"), Ref("h1", "Toy", "inline")}, <<"h1">>, <<<<"pets">>>>),
      Doc({}, {Ref("h1", "Pet", "$ref"), Ref("h2", "Toy", "$ref")}, <<"h1", "h2">>, <<<<"toys">>>>),
      Listed(<<>>), Listed(<<"failure", "basePath">>), Listed(<<"resourceCount">>),
      Declared("pets", {"Toy"}), Declared("success", {}), Declared("apis", {"Toy"}),
      Declared("setConsolidatedModels", {"Toy"}), Declared("apisArray", {}),
      Declared("securityDefinitions", {}) }

SomeDeclarations ==
    { [models |-> {"Pet", "Toy"}, operations |-> 2], [models |-> {"Pet"}, operations |-> 1] }
=============================================================================
