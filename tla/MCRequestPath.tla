--------------------------- MODULE MCRequestPath ---------------------------
(* A small instance of RequestPath for TLC. *)
EXTENDS RequestPath

Form(texts, ordinal, long) ==
  [texts |-> texts, ordinal |-> ordinal, long |-> long, compiled |-> FALSE]

\* An answer complete or with one text of each kind, one to a question that is
\* compiled in, a draft that is right,
\* and drafts with one thing or another wrong with them.
SmallForms ==
  {Form(<<"text", t>>, 0, FALSE) : t \in Texts}
  \cup {[Form(<<"text", "text">>, 0, FALSE) EXCEPT !.compiled = TRUE]}
  \cup {Form(<<"text", "text", t, "text", "text">>, n, FALSE) : t \in Texts, n \in {0, 3}}
  \cup {Form(<<t, "text", "text", "text", "text">>, 1, FALSE) : t \in Texts}
  \cup {Form(<<"text", "text", "text", "text", "text">>, n, FALSE) : n \in {-1, 4}}
  \cup {Form(<<"text", "text", "text", "text", "text">>, 0, TRUE),
        Form(<<"text", "text", "text", "text">>, 0, FALSE),
        Form(<<"text", "text", "text", "text", "text", "text">>, 0, FALSE)}
=============================================================================
