------------------------------- MODULE MCRows -------------------------------
(***************************************************************************)
(* Instances of Rows for TLC: fields of every shape and type, with one option,  *)
(* or with two that meet.                                                      *)
(***************************************************************************)
EXTENDS Rows, FiniteSetsExt

Options ==
    {"immutable", "orderable", "nullable", "allow_zero_enum", "check", "nonempty",
     "default_expr", "generated_expr"}

\* nullable, the checks and the defaults bear on each other, orderable on what is
\* nullable; the others on nothing.
OptionSets ==
    (UNION { kSubset(n, Options) : n \in 0..1 })
    \cup { {"nullable", o} : o \in {"orderable", "default_expr", "generated_expr", "check"} }
    \cup { {"allow_zero_enum", o} : o \in {"nullable", "check", "default_expr"} }

Single ==
    [shape : {"one"}, type : DOMAIN NativeKind, wrapped : {FALSE}, key : {""},
     optional : BOOLEAN, options : OptionSets]

Wrapped ==
    [shape : {"one"}, type : {"string", "uint", "bytes"}, wrapped : {TRUE}, key : {""},
     optional : {FALSE}, options : OptionSets]

Lists ==
    [shape : {"list"}, type : DOMAIN NativeKind, wrapped : {FALSE}, key : {""},
     optional : {FALSE}, options : OptionSets]

Maps ==
    [shape : {"map"}, type : DOMAIN NativeKind, wrapped : {FALSE}, key : {"string", "int"},
     optional : {FALSE}, options : OptionSets]

WrappedElements ==
    [shape : {"list", "map"}, type : {"uint"}, wrapped : {TRUE}, key : {"string"},
     optional : {FALSE}, options : OptionSets]

Oneofs ==
    [shape : {"oneof"}, type : {"string", "enum", "message"}, wrapped : {FALSE}, key : {""},
     optional : BOOLEAN, options : {{}}]

\* "nonempty" is a check of a text.
Sensible(f) ==
    /\ "nonempty" \in f.options =>
          f.shape = "one" /\ f.type = "string" /\ "check" \notin f.options
    /\ "allow_zero_enum" \in f.options => f.type = "enum"

MCFields ==
    { f \in Single \cup Wrapped \cup Lists \cup Maps \cup WrappedElements \cup Oneofs :
        Sensible(f) }

NestedMessages == { f \in Single : f.type = "message" /\ f.options = {} }

\* A column the database computes, of a program that inserts the way it must.
Computed == { f \in Single : f.type = "string" /\ f.options = {"generated_expr"} }

\* Enum numbers 0..3 of which releases know 0..1 and 0..2; durations within -2..1 and beyond.
MCElements ==
    [string |-> 0..1, bool |-> 0..1, int |-> -1..0, uint |-> {0, 3}, float |-> 0..1,
     bytes |-> 0..1, enum |-> 0..3, timestamp |-> 0..3, duration |-> {-3, -2, 0, 1, 2}]

\* No time is half way between two ticks.
MCNearest(x) == x - (x % Micro) + (IF 2 * (x % Micro) > Micro THEN Micro ELSE 0)
===============================================================================
