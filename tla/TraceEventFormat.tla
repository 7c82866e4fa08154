-------------------------- MODULE TraceEventFormat --------------------------
(***************************************************************************)
(* The trace-event format decoder of pkg/perf/tracepoint.go.               *)
(*                                                                         *)
(* ReadTraceEventFormat scans the kernel's events/<name>/format text one   *)
(* line at a time; every indented line inside the "format:" section goes   *)
(* through parseTraceEventField -> parseTypeAndName -> parseTypeName ->    *)
(* setTypeFromSizeAndSign, which infer the element type, its width and the *)
(* array element count of the field.                                       *)
(*                                                                         *)
(* Text is abstracted to what the parser's control flow tells apart: a     *)
(* C declaration is a record saying whether it carries the "__data_loc"    *)
(* prefix, whether a blank separates type and name, which switch arm of    *)
(* parseTypeName its type name hits (or, for names outside the switch,     *)
(* which suffix/prefix tests it passes) and what its bracket looks like.   *)
(* A Go runtime panic (index out of range, divide by zero) is the outcome  *)
(* "panic": it is not recovered anywhere and ends the sensor process.      *)
(***************************************************************************)
EXTENDS Integers, Sequences, FiniteSets, TLC

CONSTANTS
    Names,      \* field names that occur in the format text
    Lines,      \* the lines the format file may contain, in any order
    MaxLines    \* bound on the length of the format text

VARIABLES
    inFormat,   \* ReadTraceEventFormat's inFormat flag
    eventID,    \* the uint16 event ID parsed from the "ID:" line
    fields,     \* map[string]TraceEventField being built
    result,     \* "reading", or how ReadTraceEventFormat ended
    nread,      \* lines consumed so far (bounded by MaxLines)
    origin      \* ghost: the line each entry of fields was decoded from

vars == <<inFormat, eventID, fields, result, nread, origin>>

-----------------------------------------------------------------------------
(* The dt* data type constants (tracepoint.go 18-28).                      *)
dtString == "dtString"
dtS8  == "dtS8"
dtS16 == "dtS16"
dtS32 == "dtS32"
dtS64 == "dtS64"
dtU8  == "dtU8"
dtU16 == "dtU16"
dtU32 == "dtU32"
dtU64 == "dtU64"

DataTypes == {dtString, dtS8, dtS16, dtS32, dtS64, dtU8, dtU16, dtU32, dtU64}

(* The signed and unsigned integer type of each byte width, as the switch  *)
(* of setTypeFromSizeAndSign and the C-type arms of parseTypeName pick it. *)
IntType(width, signed) ==
    IF signed THEN (1 :> dtS8 @@ 2 :> dtS16 @@ 4 :> dtS32 @@ 8 :> dtS64)[width]
              ELSE (1 :> dtU8 @@ 2 :> dtU16 @@ 4 :> dtU32 @@ 8 :> dtU64)[width]

IntWidths == {1, 2, 4, 8}

(* The switch arms of parseTypeName. "int" stands for the arm "int",       *)
(* "signed int", "signed", "unsigned int", "unsigned", "uint", and so on   *)
(* for "char", "short", "long", "long long"; "s8" for "s8", "__s8",        *)
(* "int8_t", "__int8_t", and so on. "other" is the default arm.            *)
CTypeWidth == "int" :> 4 @@ "char" :> 1 @@ "short" :> 2 @@ "long long" :> 8

(* The fixed-size arms: the data type and width each one assigns.          *)
FixedType ==
       "s8"  :> [dt |-> dtS8,  w |-> 1]
    @@ "u8"  :> [dt |-> dtS16, w |-> 1]
    @@ "s16" :> [dt |-> dtS16, w |-> 2]
    @@ "u16" :> [dt |-> dtU16, w |-> 2]
    @@ "s32" :> [dt |-> dtS32, w |-> 4]
    @@ "u32" :> [dt |-> dtU32, w |-> 4]
    @@ "s64" :> [dt |-> dtS64, w |-> 8]
    @@ "u64" :> [dt |-> dtU64, w |-> 8]

TypeLits == {"bool", "long", "other"} \cup DOMAIN CTypeWidth \cup DOMAIN FixedType

(* A type name: its switch arm and, for the default arm, the tests it      *)
(* passes: ends in "_t", ends in "*", begins with "struct "/"union "/"enum ".*)
TypeNames == [lit: TypeLits, endsT: BOOLEAN, endsStar: BOOLEAN,
              prefix: {"struct", "union", "enum", "none"}]

(* The bracket of a declaration: none, "[" as its last character, "[]",   *)
(* "[n]" with n a decimal number, or "[MACRO]" that strconv.Atoi rejects.  *)
Brackets == {"none", "open", "empty", "num", "macro"}

Decls == [loc: BOOLEAN, hasSpace: BOOLEAN, type: TypeNames,
          bracket: Brackets, n: Int, name: Names]

(* The TraceEventField being decoded; Offset is only copied and left out. *)
Fields == [Size: Int, IsSigned: BOOLEAN, dataType: DataTypes,
           dataTypeSize: Int, dataLocSize: Int, arraySize: Int]

(* An outcome of one of the parse helpers: the (skip, err) pair they      *)
(* return, or a runtime panic, with the field as the helper left it.      *)
Ok(f)   == [status |-> "ok",    f |-> f]
Skip(f) == [status |-> "skip",  f |-> f]
Err(f)  == [status |-> "error", f |-> f]
Panic(f) == [status |-> "panic", f |-> f]

WithType(f, dt, w) == [f EXCEPT !.dataType = dt, !.dataTypeSize = w]

-----------------------------------------------------------------------------
(* setTypeFromSizeAndSign: the element width is the field size divided by *)
(* the array count; an array of unknown count is skipped, and a width     *)
(* that is not 1, 2, 4 or 8 is skipped too. An explicit "[0]" divides by  *)
(* zero.                                                                  *)
(* Mutant: the width is the whole field size even for an array.          *)
setTypeFromSizeAndSign_NoDivide(f, isArray, arraySize) ==
    IF isArray /\ arraySize = -1 THEN Skip(f)
    ELSE IF f.Size \in IntWidths
         THEN Ok(WithType(f, IntType(f.Size, f.IsSigned), f.Size))
         ELSE Skip([f EXCEPT !.dataTypeSize = f.Size])

setTypeFromSizeAndSign(f, isArray, arraySize) ==
    IF isArray /\ arraySize = -1 THEN Skip(f)
    ELSE IF isArray /\ arraySize = 0 THEN Panic(f)
    ELSE LET w == IF isArray THEN f.Size \div arraySize ELSE f.Size
             g == [f EXCEPT !.dataTypeSize = w]
         IN  IF w \in IntWidths THEN Ok(WithType(g, IntType(w, f.IsSigned), w))
                                ELSE Skip(g)

(* parseTypeName, after the "const " prefix is stripped.                  *)
parseTypeName(f, t, isArray, arraySize) ==
    CASE t.lit = "bool" -> setTypeFromSizeAndSign(f, isArray, arraySize)
      [] t.lit \in DOMAIN CTypeWidth ->
            Ok(WithType(f, IntType(CTypeWidth[t.lit], f.IsSigned), CTypeWidth[t.lit]))
      [] t.lit = "long" ->
            LET r == setTypeFromSizeAndSign(f, isArray, arraySize)
            IN  IF r.status = "skip"    \* assume a 64-bit kernel
                THEN Ok(WithType(r.f, IntType(8, f.IsSigned), 8))
                ELSE r
      [] t.lit \in DOMAIN FixedType ->
            Ok(WithType(f, FixedType[t.lit].dt, FixedType[t.lit].w))
      [] t.lit = "other" ->
            IF ~t.endsT /\ ~t.endsStar /\ t.prefix \in {"struct", "union"}
            THEN Skip(f)
            ELSE setTypeFromSizeAndSign(f, isArray, arraySize)

(* parseTypeAndName. For "__data_loc" the bracket is the "[]" that must   *)
(* end the type; otherwise it is the array suffix of the name.            *)
parseTypeAndName(f, d) ==
    IF d.loc
    THEN LET g == [f EXCEPT !.dataLocSize = f.Size] IN
         CASE ~d.hasSpace           -> Panic(g)   \* s[:x] with x = -1
           [] d.bracket # "empty"   -> Err(g)
           [] d.type.lit = "char"   -> Ok(WithType(g, dtString, 1))
           [] OTHER                 ->
                LET r == parseTypeName(g, d.type, TRUE, -1)
                IN  IF r.status = "ok" THEN Ok(r.f) ELSE r
    ELSE CASE d.bracket = "open"  -> Panic(f)     \* s[x+1] out of range
           [] d.bracket = "empty" -> Err(f)
           [] ~d.hasSpace         -> Panic(f)     \* s[:x] with x = -1
           [] OTHER ->
                LET isArray   == d.bracket \in {"num", "macro"}
                    arraySize == IF d.bracket = "num" THEN d.n ELSE -1
                    r == parseTypeName(f, d.type, isArray, arraySize)
                IN  CASE r.status # "ok" -> r
                      [] ~isArray        -> r
                      [] arraySize >= 0  -> Ok([r.f EXCEPT !.arraySize = arraySize])
                      [] OTHER           ->
                            Ok([r.f EXCEPT !.arraySize = r.f.Size \div r.f.dataTypeSize])

(* A field line: whether every ";"-separated part has exactly one ":",    *)
(* whether offset/size/signed parse, whether a "field:" part is present,  *)
(* the declaration, and the size and signed values.                       *)
FieldLines == [kind: {"field"}, wellKV: BOOLEAN, numsOk: BOOLEAN,
               hasField: BOOLEAN, decl: Decls, size: Int, signed: BOOLEAN]

(* With no "field:" part the declaration is "": no "[", no blank.          *)
EmptyDecl(d) == [d EXCEPT !.loc = FALSE, !.hasSpace = FALSE, !.bracket = "none"]

(* parseTraceEventField: a skipped field is kept as an array of bytes.    *)
parseTraceEventField(l) ==
    LET f0 == [Size |-> l.size, IsSigned |-> l.signed, dataType |-> dtString,
               dataTypeSize |-> 0, dataLocSize |-> 0, arraySize |-> 0]
        d  == IF l.hasField THEN l.decl ELSE EmptyDecl(l.decl)
        r  == parseTypeAndName(f0, d)
    IN  CASE ~l.wellKV \/ ~l.numsOk -> Err(f0)
          [] r.status = "skip" ->
                Ok([r.f EXCEPT !.dataTypeSize = 1, !.arraySize = l.size,
                               !.dataType = IF l.signed THEN dtS8 ELSE dtU8])
          [] OTHER -> r

-----------------------------------------------------------------------------
(* The other lines of the format text: blank, "format:", "ID: n" (n not   *)
(* parsable by Atoi when ok is FALSE) and any other unindented line such  *)
(* as "name: ..." or "print fmt: ...".                                    *)
OtherLines == [kind: {"blank", "format", "unindented"}]
              \cup [kind: {"id"}, ok: BOOLEAN, value: Nat]

TypeOK ==
    /\ inFormat \in BOOLEAN
    /\ eventID \in 0 .. 65535
    /\ DOMAIN fields \subseteq Names
    /\ \A n \in DOMAIN fields : fields[n] \in Fields
    /\ result \in {"reading", "done", "error", "panic"}
    /\ nread \in 0 .. MaxLines
    /\ DOMAIN origin = DOMAIN fields

Init ==
    /\ inFormat = FALSE
    /\ eventID = 0
    /\ fields = <<>>
    /\ result = "reading"
    /\ nread = 0
    /\ origin = <<>>

(* One iteration of the scanner loop of ReadTraceEventFormat.             *)
ScanBlank(l) ==
    /\ l.kind = "blank"
    /\ UNCHANGED <<inFormat, eventID, fields, result, origin>>

EndFormat(l) ==
    /\ inFormat
    /\ l.kind \in {"format", "unindented", "id"}
    /\ inFormat' = FALSE
    /\ UNCHANGED <<eventID, fields, result, origin>>

ScanField(l) ==
    /\ inFormat
    /\ l.kind = "field"
    /\ LET r == parseTraceEventField(l) IN
       IF r.status = "ok"
       THEN /\ fields' = (l.decl.name :> r.f) @@ fields
            /\ origin' = (l.decl.name :> l) @@ origin
            /\ UNCHANGED result
       ELSE /\ result' = r.status
            /\ UNCHANGED <<fields, origin>>
    /\ UNCHANGED <<inFormat, eventID>>

StartFormat(l) ==
    /\ ~inFormat
    /\ l.kind = "format"
    /\ inFormat' = TRUE
    /\ UNCHANGED <<eventID, fields, result, origin>>

(* Mutant: the parsed ID is stored without the uint16 conversion.         *)
ScanID_NoWrap(l) ==
    /\ ~inFormat
    /\ l.kind = "id"
    /\ IF l.ok THEN eventID' = l.value /\ UNCHANGED result
               ELSE result' = "error" /\ UNCHANGED eventID
    /\ UNCHANGED <<inFormat, fields, origin>>

ScanID(l) ==
    /\ ~inFormat
    /\ l.kind = "id"
    /\ IF l.ok THEN eventID' = l.value % 65536 /\ UNCHANGED result
               ELSE result' = "error" /\ UNCHANGED eventID
    /\ UNCHANGED <<inFormat, fields, origin>>

ScanOther(l) ==
    /\ ~inFormat
    /\ l.kind \in {"unindented", "field"}
    /\ UNCHANGED <<inFormat, eventID, fields, result, origin>>

ReadLine ==
    /\ result = "reading"
    /\ nread < MaxLines
    /\ nread' = nread + 1
    /\ \E l \in Lines :
         \/ ScanBlank(l)
         \/ EndFormat(l)
         \/ ScanField(l)
         \/ StartFormat(l)
         \/ ScanID(l)
         \/ ScanOther(l)

(* The scanner reaches the end of the text.                               *)
ReachEOF ==
    /\ result = "reading"
    /\ result' = "done"
    /\ UNCHANGED <<inFormat, eventID, fields, nread, origin>>

Next == ReadLine \/ ReachEOF

Spec == Init /\ [][Next]_vars /\ WF_vars(Next)

-----------------------------------------------------------------------------
(* Reference layout (spec 4.1, 8): a line is natural when its size is what *)
(* a 64-bit kernel gives the declared type: the natural width of a named  *)
(* C or fixed-width type times the element count, or for a typedef,       *)
(* pointer, enum or unknown name some integer width times the count.      *)
NaturalWidth ==
    CTypeWidth @@ "bool" :> 1 @@ "long" :> 8
    @@ [t \in DOMAIN FixedType |-> FixedType[t].w]

Count(d) == IF d.bracket = "num" THEN d.n ELSE 1

IsAggregate(t) ==
    t.lit = "other" /\ ~t.endsT /\ ~t.endsStar /\ t.prefix \in {"struct", "union"}

ElementWidths(t) ==
    IF t.lit \in DOMAIN NaturalWidth THEN {NaturalWidth[t.lit]} ELSE IntWidths

IsNatural(l) ==
    /\ l.kind = "field" /\ l.wellKV /\ l.numsOk /\ l.hasField
    /\ ~l.decl.loc
    /\ l.decl.hasSpace
    /\ l.decl.bracket \in {"none", "num", "macro"}
    /\ Count(l.decl) >= 1
    /\ ~IsAggregate(l.decl.type)
    /\ \E w \in ElementWidths(l.decl.type) :
          IF l.decl.bracket = "macro" THEN l.size % w = 0 /\ l.size > 0
                                      ELSE l.size = w * Count(l.decl)

(* Every field decoded from a natural line spans exactly its declared     *)
(* size: element width times element count (a scalar counts one). This is *)
(* what the sample decoder relies on to stay inside the record; it ties   *)
(* together the type table of parseTypeName, the width division of        *)
(* setTypeFromSizeAndSign, the count derivation of parseTypeAndName and   *)
(* the byte-array fallback of parseTraceEventField.                       *)
DecodedLayoutMatchesSize ==
    \A n \in DOMAIN fields :
        IsNatural(origin[n]) =>
            fields[n].dataTypeSize * (IF fields[n].arraySize > 0
                                      THEN fields[n].arraySize ELSE 1)
                = origin[n].size

(* The signedness a fixed-width type name carries ("s8" signed, "u8" not). *)
NameIsSigned == [t \in DOMAIN FixedType |->
                    t \in {"s8", "s16", "s32", "s64"}]

(* Every integer field decoded from a natural line whose signed flag      *)
(* agrees with its type name has the integer type of its decoded width    *)
(* and of that signedness: the sample decoder reads dataTypeSize bytes    *)
(* per element and interprets them by dataType, so the two must agree    *)
(* (spec 3, 4.1: "u8" is an unsigned integer of width 1).                 *)
DecodedTypeMatchesDeclaration ==
    \A n \in DOMAIN fields :
        LET l == origin[n] IN
        (/\ IsNatural(l)
         /\ l.decl.type.lit \in DOMAIN FixedType => l.signed = NameIsSigned[l.decl.type.lit])
            => fields[n].dataType = IntType(fields[n].dataTypeSize, l.signed)

(* A malformed format line makes ReadTraceEventFormat return an error for *)
(* that event; it never panics the sensor (spec 4.1, 7).                   *)
MalformedLineIsNotPanic == result # "panic"

=============================================================================
