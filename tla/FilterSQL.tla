------------------------------ MODULE FilterSQL ------------------------------
(****************************************************************************)
(* What PostgreSQL makes of the conditions that pkg/aip/jet/filter.go       *)
(* builds: three-valued logic, comparisons with NULL, `= ANY(array)` and    *)
(* LIKE with its escape character.  None of it is code of this repository.  *)
(*                                                                          *)
(* A text is a sequence of characters.                                      *)
(****************************************************************************)
EXTENDS Integers, Sequences, FiniteSets

CONSTANTS NULL,
          Collation,  \* the characters, in their order
          LowerCase   \* character -> the character in lower case

Characters == {Collation[i] : i \in DOMAIN Collation}

ASSUME CharactersAssumption == Collation \in Seq(Characters)

Truth == {"true", "false", "unknown"}

Known(b) == IF b THEN "true" ELSE "false"

NotSQL(p) == CASE p = "true" -> "false" [] p = "false" -> "true" [] OTHER -> p

AndSQL(p, q) == IF "false" \in {p, q} THEN "false"
                ELSE IF "unknown" \in {p, q} THEN "unknown" ELSE "true"

OrSQL(p, q) == NotSQL(AndSQL(NotSQL(p), NotSQL(q)))

Rank(c) == CHOOSE i \in DOMAIN Collation : Collation[i] = c

(* The order of texts under that collation. *)
TextLess(s, t) ==
  \/ Len(s) < Len(t) /\ s = SubSeq(t, 1, Len(s))
  \/ \E i \in DOMAIN s \cap DOMAIN t :
       /\ \A j \in 1 .. i - 1 : s[j] = t[j]
       /\ Rank(s[i]) < Rank(t[i])

Lower(s) == [i \in DOMAIN s |-> LowerCase[s[i]]]

(* A comparison of a column that is not an array with a literal. *)
Compare(fn, kind, value, lit) ==
  IF value = NULL THEN "unknown"
  ELSE LET below(v, w) == IF kind = "string" THEN TextLess(v, w) ELSE v < w
       IN Known(CASE fn = "="  -> value = lit
                  [] fn = "!=" -> value # lit
                  [] fn = "<"  -> below(value, lit)
                  [] fn = "<=" -> value = lit \/ below(value, lit)
                  [] fn = ">"  -> below(lit, value)
                  [] fn = ">=" -> value = lit \/ below(lit, value))

(* `lit = ANY(value)` *)
EqualsAny(value, lit) ==
  IF value = NULL THEN "unknown"
  ELSE IF \E i \in DOMAIN value : value[i] = lit THEN "true"
  ELSE IF \E i \in DOMAIN value : value[i] = NULL THEN "unknown" ELSE "false"

AnyChar == "_"  \* matches any character

(* `s LIKE p`, with the default escape character: left[j] holds the numbers *)
(* of characters of s after which the rest of s matches p from p[j] on.      *)
Like(s, p) ==
  LET left[j \in 1 .. Len(p) + 1] ==
        IF j = Len(p) + 1 THEN {Len(s)}
        ELSE LET rest == left[j + 1]
             IN {n \in 0 .. Len(s) :
                  CASE p[j] = "%"  -> \E m \in rest : n <= m
                    [] p[j] = "\\" -> j < Len(p) /\ n < Len(s) /\ s[n + 1] = p[j + 1] /\ n + 1 \in left[j + 2]
                    [] OTHER       -> n < Len(s) /\ p[j] \in {AnyChar, s[n + 1]} /\ n + 1 \in rest}
  IN 0 \in left[1]
=============================================================================
