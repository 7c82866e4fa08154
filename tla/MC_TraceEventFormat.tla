------------------------ MODULE MC_TraceEventFormat ------------------------
(***************************************************************************)
(* Inputs for ReadTraceEventFormat: one field name (so that a later line  *)
(* overwrites an earlier one), every type-name arm and default-arm shape, *)
(* every bracket shape, and sizes that are natural for some types and     *)
(* unnatural for others.                                                  *)
(***************************************************************************)
EXTENDS TraceEventFormat

MCNames == {"f"}

(* Type names: one per switch arm, and the default-arm shapes            *)
(* "pid_t"-like, "char *"-like, "struct x", "union x", "enum x", and an   *)
(* unrecognised bare typedef.                                            *)
ArmTypes ==
    { [lit |-> a, endsT |-> FALSE, endsStar |-> FALSE, prefix |-> "none"] :
        a \in TypeLits \ {"other"} }

OtherTypes ==
    { [lit |-> "other", endsT |-> TRUE,  endsStar |-> FALSE, prefix |-> "none"],
      [lit |-> "other", endsT |-> FALSE, endsStar |-> TRUE,  prefix |-> "none"],
      [lit |-> "other", endsT |-> FALSE, endsStar |-> FALSE, prefix |-> "struct"],
      [lit |-> "other", endsT |-> FALSE, endsStar |-> FALSE, prefix |-> "union"],
      [lit |-> "other", endsT |-> FALSE, endsStar |-> FALSE, prefix |-> "enum"],
      [lit |-> "other", endsT |-> FALSE, endsStar |-> FALSE, prefix |-> "none"],
      \* "struct foo *": the "*" test comes before the "struct " test
      [lit |-> "other", endsT |-> FALSE, endsStar |-> TRUE,  prefix |-> "struct"] }

MCTypes == ArmTypes \cup OtherTypes

Decl(loc, sp, t, b, n) ==
    [loc |-> loc, hasSpace |-> sp, type |-> t, bracket |-> b, n |-> n, name |-> "f"]

Line(d, size, signed) ==
    [kind |-> "field", wellKV |-> TRUE, numsOk |-> TRUE, hasField |-> TRUE,
     decl |-> d, size |-> size, signed |-> signed]

(* Well-formed declarations: scalars, "[2]", "[3]" and "[MACRO]" arrays.  *)
WellFormedLines ==
    { Line(Decl(FALSE, TRUE, t, b, n), size, s) :
        t \in MCTypes, b \in {"none", "macro"}, n \in {0},
        size \in {1, 2, 4, 8, 12, 16}, s \in BOOLEAN }
    \cup
    { Line(Decl(FALSE, TRUE, t, "num", n), size, s) :
        t \in MCTypes, n \in {2, 3}, size \in {2, 4, 8, 12, 16, 24}, s \in BOOLEAN }

(* "__data_loc <type>[] name" lines, whose slot is 4 bytes.              *)
DataLocLines ==
    { Line(Decl(TRUE, TRUE, t, "empty", 0), 4, s) : t \in MCTypes, s \in BOOLEAN }

(* Lines the decoder must reject without a panic.                          *)
FieldBase == Line(Decl(FALSE, TRUE, [lit |-> "int", endsT |-> FALSE,
                   endsStar |-> FALSE, prefix |-> "none"], "none", 0), 4, TRUE)

MalformedLines ==
    { [FieldBase EXCEPT !.wellKV = FALSE],
      [FieldBase EXCEPT !.numsOk = FALSE],
      [FieldBase EXCEPT !.decl.bracket = "empty"],
      [FieldBase EXCEPT !.decl.loc = TRUE, !.decl.bracket = "none"] }

PanicLines ==
    { [FieldBase EXCEPT !.hasField = FALSE],
      [FieldBase EXCEPT !.decl.bracket = "open"],
      [FieldBase EXCEPT !.decl.hasSpace = FALSE],
      [FieldBase EXCEPT !.decl.loc = TRUE, !.decl.hasSpace = FALSE],
      \* "pid_t x[0]": setTypeFromSizeAndSign divides by the count
      Line(Decl(FALSE, TRUE, [lit |-> "other", endsT |-> TRUE, endsStar |-> FALSE,
                prefix |-> "none"], "num", 0), 4, FALSE) }

HeaderLines ==
    { [kind |-> "blank"], [kind |-> "format"], [kind |-> "unindented"],
      [kind |-> "id", ok |-> TRUE, value |-> 21],
      [kind |-> "id", ok |-> TRUE, value |-> 65557],   \* wraps to 21
      [kind |-> "id", ok |-> FALSE, value |-> 0] }

(* The passing run: everything but the panicking lines.                   *)
MCLines == HeaderLines \cup WellFormedLines \cup DataLocLines \cup MalformedLines

(* The violation run for panics: well-formed and panicking lines.         *)
MCPanicLines == HeaderLines \cup PanicLines \cup
    { Line(Decl(FALSE, TRUE, t, "none", 0), 4, TRUE) : t \in ArmTypes }

=============================================================================
