---------------------------- MODULE SwaggerLayout ----------------------------
(***************************************************************************)
(* The layout of an XML answer in the API browser (api-doc/swagger-ui.js,  *)
(* OperationView.formatXml): the document is cut into lines, and a loop    *)
(* indents each by the transition from the kind of the line before to its  *)
(* own.  One action is one turn of the loop.                               *)
(***************************************************************************)
EXTENDS Integers, Sequences

CONSTANT Documents

(***************************************************************************)
(* Elements hold elements or text; a leaf is one with text.  A document is *)
(* a declaration, if any, and one root: its tokens and how many elements   *)
(* are open after each of them.                                            *)
(***************************************************************************)
Tokens == {"declaration", "open", "close", "single", "leaf"}

Rise(t) == CASE t = "open" -> 1 [] t = "close" -> -1 [] OTHER -> 0

WellFormed(d) ==
    LET n == Len(d.tokens) IN
    /\ d.tokens \in Seq(Tokens) /\ n > 0
    /\ d.depth \in [0..n -> Nat] /\ d.depth[0] = 0 /\ d.depth[n] = 0
    /\ \A k \in 1..n : d.depth[k] = d.depth[k - 1] + Rise(d.tokens[k])
    /\ \A k \in 1..n : d.tokens[k] = "declaration" => k = 1 /\ n > 1
    /\ \A k \in 1..n - 1 : d.depth[k] = 0 => d.tokens[k] = "declaration"

DocumentsOK == \A d \in Documents : WellFormed(d)

VARIABLES
    document,
    at,         \* the token the next line begins with
    text,       \* the next line is the text of a leaf whose tag had its own
    indent, lastType,
    formatted   \* lines: their padding and the tokens on them

layvars == <<document, at, text, indent, lastType, formatted>>

Init == /\ document \in Documents
        /\ at = 1 /\ text = FALSE
        /\ indent = 0 /\ lastType = "other" /\ formatted = <<>>

Token == document.tokens[at]

\* Seeded fault: an opening tag and its closing one differ by one.
UnevenTransition(from, to) == IF to = "closing" THEN -1 ELSE IF from = "opening" THEN 1 ELSE 0

Transition(from, to) ==
    CASE from = "opening" /\ to # "closing" -> 1
      [] from # "opening" /\ to = "closing" -> -1
      [] OTHER -> 0

\* The loop that makes the padding counts to a negative indent as well.
Padding(i) == IF i >= 0 THEN i ELSE -i

\* A closing tag right after its opening one is put on the same line.
Line(type) ==
    /\ indent' = indent + Transition(lastType, type)
    /\ lastType' = type
    /\ formatted' = IF lastType = "opening" /\ type = "closing"
                    THEN [formatted EXCEPT ![Len(formatted)].last = at]
                    ELSE Append(formatted,
                                [padding |-> Padding(indent'), first |-> at, last |-> at])

\* The type of a line is the first that matches: one that holds a closing tag
\* is closing.
TypeOf(token) ==
    CASE token = "open"   -> "opening"
      [] token = "single" -> "single"
      [] token \in {"close", "leaf"} -> "closing"
      [] OTHER -> "other"

\* The text of a leaf, with its closing tag, is a line of its own unless it is
\* the last of the document.
Cut == Token = "leaf" /\ at < Len(document.tokens)

LineOfTag ==
    /\ at <= Len(document.tokens) /\ Cut /\ ~text
    /\ Line("opening") /\ text' = TRUE
    /\ UNCHANGED <<document, at>>

LineOfText ==
    /\ text /\ Line("closing")
    /\ text' = FALSE /\ at' = at + 1
    /\ UNCHANGED document

LineOfToken ==
    /\ at <= Len(document.tokens) /\ ~Cut
    /\ Line(TypeOf(Token)) /\ at' = at + 1
    /\ UNCHANGED <<document, text>>

Next == LineOfTag \/ LineOfText \/ LineOfToken

Spec == Init /\ [][Next]_layvars

-----------------------------------------------------------------------------
(* Properties                                                              *)

\* How deep in the document a line is that begins with token k.
DepthAt(k) == IF document.tokens[k] = "close" THEN document.depth[k]
              ELSE document.depth[k - 1]

(* Each element of a document is shown on a line of its own, an empty one  *)
(* as a whole, in order, indented by its depth, and the lines hold all     *)
(* tokens.  A document that is one element with text is excused: its line  *)
(* is indented once.                                                       *)
IndentIsDepth ==
    LET n == Len(document.tokens)
        lines == DOMAIN formatted
    IN document.tokens[n] # "leaf" =>
          /\ \A j \in lines :
                LET line == formatted[j] IN
                /\ line.padding = DepthAt(line.first)
                /\ \/ line.last = line.first
                   \/ /\ line.last = line.first + 1
                      /\ document.tokens[line.first] = "open"
                      /\ document.tokens[line.last] = "close"
                /\ line.first = (IF j = 1 THEN 1 ELSE formatted[j - 1].last + 1)
                /\ document.tokens[line.first] = "close" =>
                      line.first > 1 /\ document.tokens[line.first - 1] # "open"
          /\ at > n => lines # {} /\ formatted[Len(formatted)].last = n
=============================================================================
