----------------------------- MODULE MCPyThreads -----------------------------
(* Small instances of PyThreads for TLC.  MaxInt is 7, MaxLong 31, Unit 2. *)
EXTENDS PyThreads

CONSTANTS t1, t2, o1, c1, c2, c3

\* Characters.
A == 97  B == 98  One == 49  Nine == 57  Minus == 45  W == 200  V == 201  TickWord == 202  Quoted == 203

MCNumerals == <<One>> :> 1 @@ <<One, Nine>> :> 19 @@ <<Nine, Nine>> :> 99
              @@ <<Minus, Nine, Nine>> :> -99
Num(n) == PyNumber("int", n)
Str(c) == PyString(<<c>>)
Hugely == PyString(<<Nine, Nine>>)
Lowly == PyString(<<Minus, Nine, Nine>>)

MCPython == <<80, 89>>
MCInputs == {Num(0), Num(5), Num(10), PyNumber("float", 21), PyString(MCPython), Str(One), None}

MCWhole ==
  {None, Num(20), PyNumber("bool", 0), PyNumber("float", 3), Str(A), Str(One), Hugely,
   PyNumber("long", 40), PyList(<<>>), PyList(<<PyList(<<>>)>>),
   PyList(<<Num(1), None, Str(A)>>),
   PyList(<<Num(1), PyList(<<Str(B), Hugely, Num(3)>>)>>),
   PyList(<<PyList(<<Num(1), Num(2)>>), Hugely, PyList(<<Num(3), Str(A)>>)>>),
   PyList(<<PyList(<<Num(1), Num(2)>>), PyList(<<Num(3), Num(4)>>), PyList(<<Num(5)>>)>>),
   PyList(<<PyList(<<PyList(<<PyList(<<Num(1), Num(2)>>)>>)>>)>>),
   PyDict(<<Str(A), Num(1), Str(One), PyList(<<Num(2), Num(3)>>)>>),
   PyDict(<<None, Num(2), Num(1), Str(B)>>), PyList(<<Lowly, Num(2)>>),
   PyList(<<Num(1), PyList(<<Num(2), Num(3)>>)>>),
   PyDict(<<Str(B), Hugely, Num(19), None, Str(A), Str(B)>>)}

\* What is in a value is itself passed through.
Elements(S) == S \cup UNION {Range(o.items) : o \in S}
MCValues == LET within[n \in Nat] ==
                  IF n = 0 THEN MCWhole ELSE Elements(within[n - 1])
            IN  within[MaxDepth]

MCErrors == {<<>>, <<W>>, <<W, 32, V, 32, W>>, <<TickWord, 58, 32, V>>, <<W, 58, V>>,
             <<TickWord, 32, V>>}
MCRegistered == {<<TickWord>>, <<Quoted>>}
MCInvalid == <<W, 32, V>>

\* Names of which three characters are kept; the last two are then alike.
MCAll == <<95, A>>
MCSettings == {<<>>, <<MCPython>>, <<<<A>>, MCPython>>, <<<<A>>, <<B>>, MCPython>>,
               <<MCAll, <<A>>>>, <<<<A, B, A, A>>, <<A, B, A, B>>>>}

\* Two threads share a connection, or have one each; a client elsewhere pushes.
\* get_ticker and pull_tick_update are like pull_tick here.
Shared == (t1 :> c1) @@ (t2 :> c1) @@ (o1 :> c3)
OneEach == (t1 :> c1) @@ (t2 :> c2) @@ (o1 :> c3)
Program(m, s) == [methods |-> m, self |-> s]
MCPrograms ==
  {Program({"pull_tick", "push_tick", "subscribe"}, Shared),
   Program({"add_ticker", "wait_for_update"}, Shared),
   Program({"push_tick", "subscribe", "unsubscribe", "wait_for_update", "del"}, OneEach)}
=============================================================================
