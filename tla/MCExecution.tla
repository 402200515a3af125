---------------------------- MODULE MCExecution ----------------------------
(* Programs for TLC: all pairs of operators, and statements inside statements; *)
(* and the sources with holes of MCCompiler, which are compiled only.          *)
EXTENDS Execution, MCCompiler

Get(v) == <<"read", v>>
X == Get("x")
Y == Get("y")
Z == Get("z")
Show(v) == <<"print", Get(v)>>
Binary(op, a, b) == <<"binary", op, a, b>>
Ops == {"or", "and", "==", "<", "+", "*"}

Expressions ==
  {Binary(p, X, Binary(q, Y, Z)) : p, q \in Ops}
  \union {Binary(p, Binary(q, X, Y), Z) : p, q \in Ops}
  \union {Binary(p, Binary(q, X, Y), Binary(r, X, Z)) : p, q, r \in Ops}
  \union {Binary(p, <<"unary", q, X>>, <<"unary", "!", Y>>) : p \in Ops, q \in {"-", "!"}}
  \union {<<"unary", p, Binary(q, X, Y)>> : p \in {"-", "!"}, q \in Ops}
  \union {<<"set", "x", Binary(p, Y, <<"set", "y", Z>>)>> : p \in Ops}
  \union {<<"call", X, <<Binary(p, Y, Z), <<"call", Y, <<>>>>>>>> : p \in Ops}

Simple == {Show("x"), <<"do", <<"set", "y", Y>>>>}
Declared == <<"block", <<<<"var", "z", Z>>, Show("z")>>>>

\* Statements with statements inside.
Around(s) ==
  {<<"if", X, s, Nothing>>, <<"if", X, Show("y"), s>>,
   <<"if", X, IF s[1] = "if" /\ s[4] = Nothing THEN <<"block", <<s>>>> ELSE s, Show("y")>>,
   <<"while", X, s>>, <<"block", <<<<"var", "y", Y>>, s>>>>}
  \union {<<"for", i, c, n, s>> : i \in {Nothing, <<"var", "x", X>>, <<"do", X>>},
                                  c \in {Nothing, X}, n \in {Nothing, Y}}

Statements == UNION {Around(s) : s \in Simple \union {Declared}}
Inner == {<<"if", Y, Show("y"), Nothing>>, <<"if", Y, Show("y"), Show("z")>>, <<"for", <<"var", "x", X>>, Y, Z, Show("y")>>,
          <<"while", Binary("and", X, Y), Declared>>}
Nested == UNION {Around(s) : s \in Inner}

\* Returns and properties, where they may be.
Returning ==
  {<<"block", <<<<"var", "y", Y>>, s>>>> : s \in Around(<<"return", Nothing>>)}
  \union Around(<<"block", <<<<"var", "y", Y>>, <<"if", X, <<"return", Y>>, Nothing>>, Show("y")>>>>)

This == Get("this")
Properties ==
  {<<"print", e>> : e \in
     {<<"put", This, "x", Binary(p, <<"get", This, "y">>, <<"send", X, <<Y, This>>, "z">>)>> : p \in Ops}
     \union {Binary(p, <<"get", <<"get", X, "y">>, "z">>, <<"put", Y, "x", Z>>) : p \in Ops}}

Bodies == {<<"print", e>> : e \in Expressions} \union Statements \union Nested
          \union {<<"do", <<"send", X, <<Y, <<"send", Z, <<>>, "x">>>>, "y">>>>}
BodiesIn(type, bodies) == {[within |-> type, body |-> b] : b \in bodies}
AllTrees == BodiesIn("script", Bodies) \union BodiesIn("function", Returning \union Statements)
            \union BodiesIn("message", Properties \union Statements)

=============================================================================
