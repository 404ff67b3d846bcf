----------------------------- MODULE TypeCheck ------------------------------
(***************************************************************************)
(* Literals against the types they are given to, and calls against the     *)
(* functions of the package (crates/cj-sema/src/typecheck.rs).             *)
(*                                                                         *)
(* A literal node carries a third element.  Of an integer it is the number *)
(* of bits its value needs: literals have no sign, so that one exceeds a   *)
(* type's range exactly when it needs more bits than the type has.         *)
(***************************************************************************)
EXTENDS Unused

\* 128 bits or a suffix: the text does not read as a number.
Unreadable == 128

\* The bits a non-negative value of the type may have.
RangeBits ==
    [Int8 |-> 7, Int16 |-> 15, Int32 |-> 31, Int64 |-> 63, Int |-> 63, IntNative |-> 63,
     UInt8 |-> 8, Byte |-> 8, UInt16 |-> 16, UInt32 |-> 32, UInt64 |-> 64, UInt |-> 64, UIntNative |-> 64]
IsIntType(shown) == shown \in DOMAIN RangeBits

\* The name a type is shown and compared by: strings and runes are one, a type
\* that is not a name is no other type.
Shown(t) ==
    CASE t[1] = "ref" -> IF t[2] \in {<<"String">>, <<"Rune">>} THEN "Struct-String" ELSE t[2][1]
      [] t[1] = "primitive" -> IF t[2] = "Rune" THEN "Struct-String" ELSE t[2]
      [] OTHER -> "other"

IsText(lit) == lit[2] \in {"STRING", "MULTILINE_STRING", "MULTILINE_RAW_STRING", "RUNE", "RUNE_BYTE"}
IsInteger(lit) == lit[2] = "INTEGER"

Exceeds(lit, shown) ==
    /\ IsInteger(lit) /\ IsIntType(shown)
    /\ lit[3] # Unreadable
    /\ lit[3] > RangeBits[shown]

Mismatch(lit, shown) ==
    CASE IsText(lit) /\ shown # "Struct-String" -> << <<"mismatch", shown, "Struct-String">> >>
      [] IsInteger(lit) /\ shown = "Struct-String" -> << <<"mismatch", shown, "Int64">> >>
      [] Exceeds(lit, shown) -> << <<"range", lit, shown>> >>
      [] OTHER -> << >>

\* A variable must also not be given an integer that is neither text nor a
\* whole number; a parameter may.
CheckTypedVar(type, init) ==
    LET shown == Shown(type)
    IN IF init[1] # "literal" THEN << >>
       ELSE IF IsInteger(init) /\ shown # "Struct-String" /\ ~IsIntType(shown)
            THEN << <<"mismatch", shown, "Int64">> >>
       ELSE Mismatch(init, shown)

CheckDecls(file) ==
    LET Check(d) == IF d[1] = "var" /\ d[5] # << >> /\ d[6] # << >> THEN CheckTypedVar(d[5][1], d[6][1]) ELSE << >>
    IN FlatMap(Check, file.decls)

-----------------------------------------------------------------------------
\* The nodes calls are looked for in.
CallKinds ==
    {"call", "paren", "member", "optional", "return", "unary", "binary", "prefix", "postfix", "subscript",
     "is", "as", "array", "tuple", "match", "block", "if", "let", "quote", "try", "while", "lambda",
     "closure", "for", "throw", "perform", "resume", "spawn"}

\* Calls in the order they are met; a name that is called is not looked into.
Calls(stmts) == SelectSeq(ReachedIn(CallKinds, stmts), LAMBDA e : e[1] = "call" /\ e[2][1] = "name")

MissingPrefix(arg, x) == IF x.named /\ arg[1] = << >> THEN << <<"prefix", x.name>> >> ELSE << >>
ArgMismatch(arg, x) == IF arg[2][1] = "literal" THEN Mismatch(arg[2], Shown(x.type)) ELSE << >>

\* Arguments are compared with the parameters at their places.
CheckCall(e, sigs) ==
    LET n == e[2][2]
        params == sigs[n].params
        both == [i \in 1 .. Min({Len(e[3]), Len(params)}) |-> i]
    IN IF n \notin DOMAIN sigs THEN IF n \in Builtins THEN << >> ELSE <<Undeclared(n)>>
       ELSE (IF Len(e[3]) < Len(params) THEN << <<"missing", n, MapSeq(LAMBDA x : Shown(x.type), params)>> >> ELSE << >>)
              \o FlatMap(LAMBDA i : MissingPrefix(e[3][i], params[i]), both)
              \o FlatMap(LAMBDA i : ArgMismatch(e[3][i], params[i]), both)

\* Bodies of top-level functions and of main; methods are not looked at.
CheckCalls(file, sigs) ==
    LET Of(d) == IF d[1] \in {"func", "main"} THEN Calls(Statements(d)) ELSE << >>
    IN FlatMap(LAMBDA e : CheckCall(e, sigs), FlatMap(Of, file.decls))
=============================================================================
