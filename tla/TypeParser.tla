----------------------------- MODULE TypeParser -----------------------------
(* Types: crates/cj-parser/src/ty.rs. A type is a tuple that starts with    *)
(* what it is.                                                              *)
EXTENDS TokenCursor

Ref(name, args) == <<"ref", name, args>>
Option(type) == <<"option", type>>

IsTypeStart(t) == t \in Primitives \cup Names \cup {"This", "?", "??", "("}

RECURSIVE ParseType(_)

\* Types between commas.
RECURSIVE Types(_, _, _)
MoreTypes(q, close, types) == IF At(q, ",") THEN Types(Advance(q), close, types) ELSE Got(q, types)
AddType(q, close, types) == MoreTypes(q, close, Append(types, q.node))
Types(p, close, types) ==
    IF AtAny(p, close \cup {"END"}) THEN Got(p, types) ELSE AddType(ParseType(p), close, types)

ParseGenericArgs(p) == EatGtClose(Types(Expect(p, "<"), {">", ">>"}, << >>))

\* The rest of a qualified name; each segment may have arguments, the last stay.
RECURSIVE QualifiedType(_, _, _)
ArgsOr(p, args) == IF At(p, "<") THEN ParseGenericArgs(p) ELSE Got(p, args)
Segments(p, name) == QualifiedType(p, name, p.node)
QualifiedType(p, name, args) ==
    IF At(p, ".") /\ NameLike(PeekAhead(p, 1))
    THEN Segments(ArgsOr(Advance(Advance(p)), args), Append(name, PeekAhead(p, 1)))
    ELSE Got(p, IF Len(name) > 1 THEN <<"qualified", name>> ELSE Ref(name, args))

OptionalMark(p) == IF At(p, "?") THEN Got(Advance(p), Option(p.node)) ELSE p

RefType(p) == OptionalMark(Segments(ArgsOr(Advance(p), << >>), <<Peek(p)>>))

\* The elements of `(p1: T, U)`; a field's name is checked and dropped.
RECURSIVE TupleFields(_, _, _)
AddField(q, fields, types) ==
    LET more == Append(types, q.node)
    IN IF At(q, ",") THEN TupleFields(Advance(q), fields, more) ELSE Got(q, more)
TupleFields(p, fields, types) ==
    IF Closed(p, ")") THEN Got(p, types)
    ELSE LET named == NameLike(Peek(p)) /\ PeekAhead(p, 1) = ":"
             field == IF named THEN {Peek(p)} ELSE {}
             q == IF named
                  THEN Advance(Advance(ErrorIf(p, Peek(p) \in fields, "DUPLICATE_TYPE_PARAMETER_NAME")))
                  ELSE p
         IN AddField(ParseType(q), fields \cup field, types)

FuncOrTuple(q) ==
    IF At(q, "->") THEN Into(<<"func", q.node>>, ParseType(Advance(q)))
    ELSE IF Len(q.node) = 1 THEN Got(q, <<"paren", q.node[1]>>)
    ELSE Got(q, <<"tuple", q.node>>)
ParenType(p) == FuncOrTuple(Expect(TupleFields(Advance(p), {}, << >>), ")"))

DollarType(p) ==
    LET q == Advance(p)
    IN IF Peek(q) \in Names \cup {"INTEGER"} THEN Got(Advance(q), Ref(<<"$", Peek(q)>>, << >>))
       ELSE Got(q, Ref(<<"$">>, << >>))

ParseType(p) ==
    LET t == Peek(p)
        q == Advance(p)
        inner == ParseType(q)
        args == ParseGenericArgs(q)
    IN OptionalMark(
        CASE t = "$" -> DollarType(p)
          [] t = "?" -> Got(inner, Option(inner.node))
          [] t = "??" -> Got(inner, Option(Option(inner.node)))
          [] t = "VArray" /\ At(q, "<") -> Got(args, Ref(<<"VArray">>, args.node))
          [] t \in Primitives /\ ~(t = "VArray" /\ At(q, "<")) -> Got(q, <<"primitive", t>>)
          [] t = "This" \/ NameLike(t) -> RefType(p)
          [] t = "(" -> ParenType(p)
          [] OTHER -> Got(Advance(Error(p, "EXPECTED_TYPE")), <<"invalid">>))
=============================================================================
