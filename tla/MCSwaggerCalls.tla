---------------------------- MODULE MCSwaggerCalls ----------------------------
(* A body with a form beside it in either version, and an upload of 1.x. *)
EXTENDS SwaggerCalls

Param(in, required, select) == [in |-> in, required |-> required, select |-> select]

BodyOf20 == [version |-> "2.0", security |-> {"api_key"},
             consumes |-> {"urlencoded", "multipart"},
             params |-> {Param("path", TRUE, TRUE), Param("header", TRUE, FALSE),
                         Param("form", FALSE, FALSE), Param("body", TRUE, FALSE)}]

BodyOf1x == [version |-> "1.x", security |-> {"basic"}, consumes |-> {},
             params |-> {Param("query", TRUE, TRUE), Param("body", FALSE, FALSE),
                         Param("form", FALSE, FALSE)}]

UploadOf1x == [version |-> "1.x", security |-> {}, consumes |-> {"multipart"},
               params |-> {Param("file", TRUE, FALSE), Param("header", FALSE, FALSE)}]

ThreeOperations == {BodyOf20, BodyOf1x, UploadOf1x}
EveryClient     == {"shred", "jquery"}
OneKey          == {"api_key"}
TwoCodes        == {200, 404}
===============================================================================
