---------------------------- MODULE MessageStore ----------------------------
(***************************************************************************)
(* What the generated storage code promises of one field: a store of messages *)
(* that each program writes and reads as its release knows them, with nothing  *)
(* said of rows, cells or texts.  store maps a key to <<>> or to << m >>, where  *)
(* m is the Go value of the field as the newest release reads it; held is the    *)
(* last message each program has read.                                        *)
(***************************************************************************)
EXTENDS Columns

CONSTANTS
    Keys,       \* the keys of the messages
    Newest,     \* the newest release
    Micro,      \* the ticks of a message's clock in one of the store's
    Nearest(_), \* the tick of the store's clock that is nearest to a time
    MaxDuration, \* the longest duration the store holds
    NilBytes,   \* the value of a wrapper around bytes that are nil
    Messages(_, _) \* the values of a field in the messages of a release

VARIABLES
    column,     \* how the field is stored
    store,
    held        \* for each program <<>> or << [key, value] >>

vars == <<column, store, held>>

Programs == 0..Newest

---------------------------------------------------------------------------
(* What a program of release r makes of a value *)

KnownElement(r, x) ==
    CASE column.type = "message" /\ ~column.wrapped -> x \cap (1..r)
      [] column.type = "enum" -> IF x \in 0..r THEN x ELSE 0
      [] OTHER -> x

Known(r, v) ==
    IF v = <<>> \/ (column.kind = "EnumAsText" /\ column.nullable /\ v[1] \notin 0..r)
    THEN <<>>
    ELSE << CASE column.kind = "RepeatedEnum" -> Kept(v[1], 0..r)
              [] column.kind \in CollectionKinds \ {"RepeatedEnum"} ->
                    [i \in DOMAIN v[1] |-> KnownElement(r, v[1][i])]
              [] column.kind = "Oneof" -> [v[1] EXCEPT !.value = KnownElement(r, @)]
              [] OTHER -> KnownElement(r, v[1]) >>

\* A duration that is too long, forward or back, is the longest there is.
Bounded(x) ==
    IF x > MaxDuration THEN MaxDuration ELSE IF x < -MaxDuration - 1 THEN -MaxDuration - 1 ELSE x

\* Times keep what the clock of the store can hold, the past of a single time and
\* the nearest of each in a list; durations in columns of their own are bounded.
Rounded(v) ==
    CASE v # <<>> /\ column.kind = "Timestamp" -> << v[1] - (v[1] % Micro) >>
      [] v # <<>> /\ column.kind = "RepeatedTimestamp" ->
            << [i \in DOMAIN v[1] |-> Nearest(v[1][i])] >>
      [] v # <<>> /\ column.kind = "Duration" -> << Bounded(v[1]) >>
      [] v # <<>> /\ column.kind = "RepeatedPrimitive" /\ column.type = "duration" ->
            << [i \in DOMAIN v[1] |-> Bounded(v[1][i])] >>
      [] OTHER -> v

\* A column that cannot be NULL does not tell nothing from the empty value:
\* nothing reads as an empty list or a zero, an empty message as nothing.
Collapsed(v) ==
    CASE column.kind = "JSONBProto" /\ ~column.nullable /\ v = <<{}>> -> <<>>
      [] v = <<>> /\ ~column.nullable /\ column.kind \notin {"JSONBProto", "Oneof"} ->
            << IF column.kind \in CollectionKinds THEN <<>> ELSE 0 >>
      [] WrappedBytes(column) /\ v = <<NilBytes>> -> <<>>
      [] OTHER -> v

Stored(r, v) == Collapsed(Rounded(Known(r, v)))

\* A program reads all but a variant it does not know.
Answerable(r, m) == column.kind = "Oneof" /\ m # <<>> => m[1].variant \in 1..r

---------------------------------------------------------------------------
(* The columns whose value is not the message's: times the repository stamps,  *)
(* what the database computes, a default the author wrote.                    *)
Owned(r) ==
    \/ column.kind = "Timestamp" /\ ~column.nullable
    \/ column.generated
    \/ r = 0 /\ column.default = "given"

Fixed(r) == r = 0 \/ column.immutable \/ column.generated

Set(r, k, v) ==
    /\ IF Owned(r) THEN store'[k] # <<>> /\ store' = [store EXCEPT ![k] = store'[k]]
                   ELSE store' = [store EXCEPT ![k] = << Stored(r, v) >>]
    /\ UNCHANGED <<column, held>>

Put(r, k, v) == store[k] = <<>> /\ Set(r, k, v)

Change(r, k, v) == store[k] # <<>> /\ ~Fixed(r) /\ Set(r, k, v)

Answer(r, k) ==
    /\ store[k] # <<>>
    /\ held' = [held EXCEPT ![r] =
                  IF Answerable(r, store[k][1])
                  THEN << [key |-> k, value |-> Known(r, store[k][1])] >> ELSE <<>>]
    /\ UNCHANGED <<column, store>>

---------------------------------------------------------------------------
\* Messages stored before the field was there read as if it were not set.
Init ==
    /\ \A k \in Keys : store[k] = <<>> \/ Owned(0) \/ store[k] = << Stored(0, <<>>) >>
    /\ held = [r \in Programs |-> <<>>]

Next ==
    \E r \in Programs, k \in Keys :
        \/ Answer(r, k)
        \/ \E v \in Messages(column, r) : Put(r, k, v) \/ Change(r, k, v)

Spec == Init /\ [][Next]_vars
===============================================================================
