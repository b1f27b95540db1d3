------------------------------ MODULE PyModule -------------------------------
(***************************************************************************)
(* The functions of the Python module arnovich._core, as python_wrap_      *)
(* function runs them: arguments become variants, an error becomes an      *)
(* exception, any other result becomes an object.  core_main.c defines     *)
(* _set_debug_level, _set_debug_group and _debug; the other functions are  *)
(* those that an extension may define with the same macros.                *)
(*                                                                         *)
(* A word of an error's text counts as one character.                      *)
(***************************************************************************)
EXTENDS PyConvert, CoreDebug

CONSTANTS Inputs,       \* what a program passes to the debug functions
          Values,       \* what a program passes through a function and back
          Errors,       \* the texts of the errors of an extension
          Settings,     \* values of DEBUG_GROUP
          Colon, Space, \* characters
          PYTHON,       \* the group of core_main.c
          InvalidLevel, InvalidGroup,  \* the texts of its errors
          Registered    \* the names that ADD_PY_OBJECT and ADD_PY_EXCEPTION register

\* An error's text begins with a word.
ASSUME ModuleAssumption ==
  /\ Inputs \cup Values \subseteq Objects /\ Settings \subseteq Seq(Seq(Nat))
  /\ Colon # Space
  /\ \A s \in Errors \cup {InvalidLevel, InvalidGroup} :
       s \in Seq(Nat) /\ (s # <<>> => s[1] \notin {Colon, Space})

Scripts == {"values", "debug", "connections"}
StandardError == <<>>
NoError == [class |-> <<>>, msg |-> <<>>, set |-> FALSE]
Raised(class, msg) == [class |-> class, msg |-> msg, set |-> TRUE]
OverflowError == Raised(<<>>, <<>>)

VARIABLES script,   \* what the program calls
          value,    \* the result of its last call, NULL if it raised
          raised,   \* the exception that is set
          rtn       \* history: what the function returned

module_vars == <<script, value, raised, rtn, debug_vars>>

ModuleInit ==
  /\ script \in Scripts
  /\ DEBUG_LEVEL \in IF script = "debug" THEN {DEBUG_UNDEFINED, 5} ELSE {DEBUG_UNDEFINED}
  /\ DEBUG_GROUP \in IF script = "debug" THEN Settings ELSE {<<>>}
  /\ DebugInit
  /\ value \in IF script = "values" THEN Values ELSE {None}
  /\ raised = NoError /\ rtn = variant_empty

-----------------------------------------------------------------------------
(* Errors                                                                  *)

\* strtok: the next token, what is left of the text, and what follows.
Strtok(s, delims) ==
  LET within == {k \in DOMAIN s : s[k] \notin delims}
      first == Min(within)
      ends == {k \in first..Len(s) : s[k] \in delims}
      last == IF ends = {} THEN Len(s) ELSE Min(ends) - 1
  IN  IF within = {} THEN [token |-> <<>>, left |-> s, rest |-> <<>>]
      ELSE [token |-> SubSeq(s, first, last), left |-> SubSeq(s, 1, last),
            rest |-> SubSeq(s, last + 2, Len(s))]

variant_error_type(s) == Strtok(s, {Colon, Space})

\* The text between the first colon and the second, without leading spaces.
variant_error_msg(s) ==
  LET first == Strtok(s, {Colon})
      second == Strtok(first.rest, {Colon}).token
      begin == {k \in DOMAIN second : second[k] # Space}
  IN  [token |-> IF begin = {} THEN <<>> ELSE SubSeq(second, Min(begin), Len(second)),
       left |-> first.left]

core_error(name) == name \in Registered

\* Mutant: an error that is not registered is taken for one that was raised.
ExceptionsLost(s) ==
  LET msg == variant_error_msg(s)
      type == variant_error_type(msg.left).token
  IN  {IF core_error(type) THEN Raised(type, msg.token) ELSE NoError}

\* Both cut the text, and a compiler may call either first.  What is then left is
\* the message when the name is not registered.
Exceptions(s) ==
  LET msg1 == variant_error_msg(s)
      type1 == variant_error_type(msg1.left)
      type2 == variant_error_type(s)
      msg2 == variant_error_msg(type2.left)
      raise(type, msg, left) == IF core_error(type) THEN Raised(type, msg)
                                ELSE Raised(StandardError, left)
  IN  {raise(type1.token, msg1.token, type1.left), raise(type2.token, msg2.token, msg2.left)}

-----------------------------------------------------------------------------
(* Calls                                                                   *)

\* How a call ends whose function returned v for the given arguments.
Return(v, args) ==
  /\ rtn' = v
  /\ IF v.m_type = "ERROR"
     THEN value' = NULL /\ raised' \in Exceptions(v.m_s)
     ELSE /\ value' = core_python_variant_to_py(v)
          /\ raised' = IF StrayError(args) THEN OverflowError ELSE NoError
  /\ UNCHANGED script

\* A wrong number of arguments is refused before any is converted.
WrongArguments(n, args) ==
  /\ Len(args) # n
  /\ rtn' = variant_empty /\ value' = NULL /\ raised' = Raised(StandardError, <<>>)
  /\ UNCHANGED <<script, debug_vars>>

Variants(args) == [k \in DOMAIN args |-> core_python_py_to_variant(args[k])]

set_level(args) ==
  LET i == Variants(args)[1]
  IN  IF i.m_type # "INT"
      THEN UNCHANGED debug_vars /\ Return(Text("ERROR", InvalidLevel), args)
      ELSE set_core_debug_level_env(i.m_n) /\ Return(variant_empty, args)

\* A string is refused, and anything else is no setting.
set_group(args) ==
  LET s == Variants(args)[1]
  IN  IF s.m_type = "STRING"
      THEN UNCHANGED debug_vars /\ Return(Text("ERROR", InvalidGroup), args)
      ELSE set_core_debug_group_env(<<>>) /\ Return(variant_empty, args)

do_debug(args) ==
  /\ Debug(variant_as_int(Variants(args)[1]))
  /\ Return(variant_empty, args)

\* The debug functions and the numbers of their arguments.
DebugCall ==
  /\ script = "debug"
  /\ \E o \in Inputs :
       \/ set_level(<<o>>)
       \/ set_group(<<o>>)
       \/ do_debug(<<o, o>>)
       \/ WrongArguments(1, <<o, o>>)

\* A function that returns a copy of its argument, which itself is freed.
Echo ==
  /\ script = "values" /\ value \in Objects
  /\ UNCHANGED debug_vars
  /\ Return(core_python_py_to_variant(value), <<value>>)

\* One that returns an error, and one that returns a C function.
Fail == /\ script = "values"
        /\ UNCHANGED debug_vars
        /\ \E e \in Errors : Return(Text("ERROR", e), <<value>>)
Lookup == /\ script = "values"
          /\ UNCHANGED debug_vars
          /\ Return(variant_from_function(<<>>, 1), <<value>>)

\* One that takes a dict apart and puts it together again.
Columns ==
  /\ script = "values" /\ value \in Objects /\ value.type = "dict"
  /\ LET m == core_python_py_to_matrix(value, VariantOf[MaxDepth])
     IN  value' = core_python_variants_to_py_dict(
                    variant_from_matrix(matrix_get_column(m, 0)),
                    variant_from_matrix(matrix_get_column(m, 1)))
  /\ raised' = IF StrayError(<<value>>) THEN OverflowError ELSE NoError
  /\ rtn' = variant_empty
  /\ UNCHANGED <<script, debug_vars>>

ModuleNext == DebugCall \/ Echo \/ Columns \/ Fail \/ Lookup

-----------------------------------------------------------------------------
(* Properties                                                              *)

\* An error of a function is an exception for its caller, and its first word is the
\* class or is in the message, whichever of the two calls of strtok comes first.  There
\* is no object only if an exception is set, or for a function, for which Python has no
\* type.
FirstWord(s) == variant_error_type(s).token
ErrorsReachCaller ==
  /\ rtn.m_type = "ERROR" =>
       /\ value = NULL /\ raised.set
       /\ \/ raised.class = FirstWord(rtn.m_s)
          \/ IsPrefix(FirstWord(rtn.m_s), raised.msg)
  /\ value = NULL => raised.set \/ rtn.m_type = "FUNCTION"

\* An exception stays behind a good result only if a text of the arguments reads
\* as a number that no long holds.
StrayOnlyFromHuge ==
  [][Echo \/ Columns =>
       (value' # NULL /\ raised'.set =>
          \E k \in DOMAIN Leaves(value) : Huge(Leaves(value)[k].text))]_module_vars

\* However often a value goes in and comes out again, it changes only so many
\* times: conversion loses types and shapes, but settles.
RoundTripsSettle ==
  script = "values" => <>[][value' = value]_module_vars

\* A function that returns its argument returns the rows of a list or a dict one by one:
\* each element is converted and stands where it stood in its row, True fills up what is
\* shorter than the widest row and nothing else is added; a single row is the list of its
\* elements.  (What is nested is converted the same way: it is a value like any other.)
Converted(o) == core_python_variant_to_py(core_python_py_to_variant(o))
Rows(o) ==
  IF o.type = "dict"
  THEN [j \in 1..Len(o.items) \div 2 |-> <<o.items[2 * j - 1], o.items[2 * j]>>]
  ELSE [j \in DOMAIN o.items |-> Row(o.items[j])]
Filled(row, new) ==
  /\ Len(row) <= Len(new)
  /\ \A i \in DOMAIN new : new[i] = IF i \in DOMAIN row THEN Converted(row[i]) ELSE PyTrue
PlacesKept ==
  [][Echo /\ value.type \in {"list", "dict"} =>
       LET old == Rows(value)
           new == IF Len(old) = 1 THEN <<value'>> ELSE value'.items
       IN  /\ value'.type = "list" /\ Len(new) = Len(old)
           /\ \A j \in DOMAIN old : new[j].type = "list" /\ Filled(old[j], new[j].items)
           /\ \A j, k \in DOMAIN old : Len(new[j].items) = Len(new[k].items)
           /\ \A j \in DOMAIN old :
                Len(new[j].items) > 1 =>
                  \E k \in DOMAIN old : Len(old[k]) = Len(new[j].items)]_module_vars

\* A dict that is taken apart into the columns of keys and of values and put
\* together again has every key, with its value, if no two keys become one.
DictsComeBack ==
  [][Columns =>
       LET old == value.items
           new == value'.items
           keys == {k \in DOMAIN old : KeyAt(old, k)}
       IN  (\A j, k \in keys : SameKey(Converted(old[j]), Converted(old[k])) => j = k) =>
             /\ Len(new) = Len(old)
             /\ \A k \in keys : \E j \in DOMAIN new :
                  /\ KeyAt(new, j)
                  /\ new[j] = Converted(old[k]) /\ new[j + 1] = Converted(old[k + 1])]_module_vars

\* To ask which messages pass, which cuts the environment to its first group, changes
\* nothing of what passes, however often and in whatever order a program asks and sets.
\* Only a program that drops the groups kept from an earlier message is left with less,
\* the first of them.
Names == {PYTHON} \cup UNION {Range(s) : s \in Settings}
Passing == {g \in Names : InGroup(g)}
AskingKeepsGroups ==
  [][Passing' # Passing =>
       /\ core_debug_group_env # <<>> /\ core_debug_group_env' = <<>>
       /\ Groups' = <<Groups[1]>>]_module_vars
=============================================================================
